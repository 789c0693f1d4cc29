-------------------------- MODULE ControlPipeProofs --------------------------
(***************************************************************************)
(* Theorems about ControlPipe for every packet size, packet memory, set of  *)
(* descriptors and host, whether or not the host uses both pairs of         *)
(* endpoints at once.  The argument (IInv): an endpoint gets a buffer once   *)
(* and keeps it, endpoint 0 before the HID endpoints, and each pair starts  *)
(* at the beginning of packet memory.  On it rests what the host and the    *)
(* device know of each other (Accord).                                      *)
(***************************************************************************)
EXTENDS ControlPipe, SequenceTheorems, TLAPS

Stats == {"disabled", "stall", "nak", "valid"}

RegisterType ==
  [ pma_offset : Nat, buf_len : [Addresses -> {0, Mps}], buf_addr : [Addresses -> Nat],
    stat : [Addresses -> Stats], dtog : [Addresses -> 0..1], cnt : [Addresses -> Nat] ]

\* Both endpoints of a pair have a buffer.
Placed0(c)   == c.buf_len[In(0)] = Mps /\ c.buf_len[Out(0)] = Mps
PlacedHid(c) == c.buf_len[In(1)] = Mps /\ c.buf_len[Out(2)] = Mps

\* Where the buffers are, and which endpoints have none yet.
Layout(c) ==
  /\ c.pma_offset >= BtableSize /\ c.pma_offset <= BtableSize + 2 * Mps
  /\ Placed0(c)   \/ (c.buf_len[In(0)] = 0 /\ c.buf_len[Out(0)] = 0)
  /\ PlacedHid(c) \/ (c.buf_len[In(1)] = 0 /\ c.buf_len[Out(2)] = 0)
  /\ PlacedHid(c) => Placed0(c)
  /\ ~Placed0(c) => c.pma_offset = BtableSize
  /\ Placed0(c) =>
       c.buf_addr[In(0)] = BtableSize /\ c.buf_addr[Out(0)] = BtableSize + Mps
  /\ PlacedHid(c) =>
       c.buf_addr[Out(2)] = BtableSize /\ c.buf_addr[In(1)] = BtableSize + Mps
  /\ ~PlacedHid(c) => c.pma_offset = BtableSize

\* An endpoint that is open has its buffer.
OpenPlaced(c) ==
  \A ep \in Used : c.stat[ep] # "disabled" => c.buf_len[ep] = Mps

Registers(c) == c \in RegisterType /\ Layout(c) /\ OpenPlaced(c)

Fields == { "dc", "pma", "written", "daddr", "dev_addr", "configuration", "report",
            "setup", "buf", "residue", "len", "zlp", "req_data" }

DeviceType(d) ==
  /\ Fields \subseteq DOMAIN d
  /\ d.daddr \in -1..1 /\ d.dev_addr \in 0..1 /\ d.configuration \in 0..1
  /\ d.residue \in Nat /\ d.len \in Nat /\ d.zlp \in BOOLEAN
  /\ DOMAIN d.req_data = 1..ReqSize
  /\ d.setup \in Requests \/ d.residue = 0

Device(d) ==
  /\ DeviceType(d) /\ Registers(d.dc)
  /\ d.configuration # 0 => PlacedHid(d.dc)

\* A device in which endpoint 0 is open, one that came of it, and one that did so
\* while a request was handled.
Open(d) == Device(d) /\ Placed0(d.dc)
Later(d, e) == Open(e) /\ (PlacedHid(d.dc) => PlacedHid(e.dc))
Onward(d, e) == Later(d, e) /\ e.setup = d.setup

HostRecord(h) ==
  /\ {"stage", "req", "left", "got", "aborts", "addr", "configured", "halted", "tog", "uses"}
       \subseteq DOMAIN h
  /\ h.stage \in {"idle", "in_data", "in_status", "out_data", "out_status"}
  /\ h.left \in Nat
  /\ h.uses \in Profiles
HostType == HostRecord(host)

FlagType ==
  /\ pending \subseteq {"setup", "out0", "in0", "in1", "out2"}
  /\ istr_reset \in BOOLEAN /\ late \in BOOLEAN

IInv ==
  /\ Device(dev) /\ HostType /\ FlagType
  /\ pending # {} => Placed0(dev.dc)
  /\ "out2" \in pending => PlacedHid(dev.dc)
----------------------------------------------------------------------------
\* The four endpoints in use are different addresses, and nothing else is in use.
AddressFacts ==
  /\ In(0) \in Addresses /\ Out(0) \in Addresses /\ In(1) \in Addresses /\ Out(2) \in Addresses
  /\ In(0) # Out(0) /\ In(0) # In(1) /\ In(0) # Out(2)
  /\ Out(0) # In(1) /\ Out(0) # Out(2) /\ In(1) # Out(2)
  /\ ~IsOut(In(0)) /\ IsOut(Out(0)) /\ ~IsOut(In(1)) /\ IsOut(Out(2))
  /\ \A ep \in Addresses : Opposite(ep) \in Addresses
  /\ HidEndpoints[1] = Out(2) /\ HidEndpoints[2] = In(1)

LEMMA AddressesDiffer == AddressFacts
  BY DEF AddressFacts, Addresses, In, Out, IsOut, Opposite, HidEndpoints

LEMMA Sizes ==
  /\ Mps \in Nat /\ Mps # 0 /\ BtableSize \in Nat /\ RamSize \in Nat
  /\ BtableSize + 3 * Mps < RamSize
  BY MemoryAssumption

\* Any endpoint may be closed, and one that has its buffer given any status,
\* toggle and count.
SameBuffers(c, e) ==
  /\ e \in RegisterType
  /\ e.buf_len = c.buf_len /\ e.buf_addr = c.buf_addr /\ e.pma_offset = c.pma_offset

LEMMA StatusGiven ==
  ASSUME NEW c, NEW e, Registers(c), SameBuffers(c, e),
         \A ep \in Used : e.stat[ep] = c.stat[ep] \/ c.buf_len[ep] = Mps
                          \/ e.stat[ep] = "disabled"
  PROVE  Registers(e) /\ (Placed0(c) => Placed0(e)) /\ (PlacedHid(c) => PlacedHid(e))
  <1>1. Layout(e)
    BY DEF Registers, SameBuffers, Layout, Placed0, PlacedHid
  <1>2. OpenPlaced(e)
    BY DEF Registers, SameBuffers, OpenPlaced
  <1>3. QED
    BY <1>1, <1>2 DEF Registers, SameBuffers, Placed0, PlacedHid

\* Registers with another status array, and with other buffers.
Given(c, st, e) == SameBuffers(c, e) /\ e.stat = st

Moved(c, len, addr, off, e) ==
  /\ e \in RegisterType /\ e.stat = c.stat
  /\ e.buf_len = len /\ e.buf_addr = addr /\ e.pma_offset = off

LEMMA StatusSet ==
  ASSUME NEW c \in RegisterType, NEW st \in [Addresses -> Stats], NEW dt \in [Addresses -> 0..1]
  PROVE  Given(c, st, [[c EXCEPT !.stat = st] EXCEPT !.dtog = dt])
  BY DEF RegisterType, Given, SameBuffers

LEMMA CountSet ==
  ASSUME NEW c \in RegisterType, NEW st \in [Addresses -> Stats], NEW n \in [Addresses -> Nat]
  PROVE  Given(c, st, [[c EXCEPT !.cnt = n] EXCEPT !.stat = st])
  BY DEF RegisterType, Given, SameBuffers

LEMMA BuffersSet ==
  ASSUME NEW c \in RegisterType, NEW len \in [Addresses -> {0, Mps}],
         NEW addr \in [Addresses -> Nat], NEW off \in Nat
  PROVE  Moved(c, len, addr, off,
               [[[c EXCEPT !.buf_len = len] EXCEPT !.buf_addr = addr] EXCEPT !.pma_offset = off])
  BY DEF RegisterType, Moved

LEMMA ArrayTypes ==
  ASSUME NEW c \in RegisterType, NEW ep \in Addresses, NEW x \in Stats, NEW n \in Nat
  PROVE  /\ [c.stat EXCEPT ![ep] = x] \in [Addresses -> Stats]
         /\ [c.dtog EXCEPT ![ep] = 0] \in [Addresses -> 0..1]
         /\ [c.cnt EXCEPT ![ep] = n] \in [Addresses -> Nat]
         /\ [c.buf_len EXCEPT ![ep] = Mps] \in [Addresses -> {0, Mps}]
         /\ [c.buf_addr EXCEPT ![ep] = n] \in [Addresses -> Nat]
  BY DEF RegisterType

\* A status and a toggle; a count and a status.
LEMMA StatusAt ==
  ASSUME NEW c \in RegisterType, NEW ep \in Addresses, NEW x \in Stats
  PROVE  Given(c, [c.stat EXCEPT ![ep] = x], [c EXCEPT !.stat[ep] = x, !.dtog[ep] = 0])
  <1> DEFINE st == [c.stat EXCEPT ![ep] = x]
             dt == [c.dtog EXCEPT ![ep] = 0]
  <1>1. st \in [Addresses -> Stats] /\ dt \in [Addresses -> 0..1]
    BY ArrayTypes
  <1>2. [c EXCEPT !.stat = st].dtog = c.dtog
    BY DEF RegisterType
  <1>3. [c EXCEPT !.stat[ep] = x, !.dtog[ep] = 0] = [[c EXCEPT !.stat = st] EXCEPT !.dtog = dt]
    BY <1>2
  <1> HIDE DEF st, dt
  <1>4. Given(c, st, [[c EXCEPT !.stat = st] EXCEPT !.dtog = dt])
    BY <1>1, StatusSet
  <1>5. Given(c, st, [c EXCEPT !.stat[ep] = x, !.dtog[ep] = 0])
    BY <1>3, <1>4
  <1>6. QED
    BY <1>5 DEF st

LEMMA ArmedAt ==
  ASSUME NEW c \in RegisterType, NEW ep \in Addresses, NEW n \in Nat
  PROVE  Given(c, [c.stat EXCEPT ![ep] = "valid"], EpArmed(c, ep, n))
  <1> DEFINE st == [c.stat EXCEPT ![ep] = "valid"]
             cn == [c.cnt EXCEPT ![ep] = n]
  <1>1. st \in [Addresses -> Stats] /\ cn \in [Addresses -> Nat]
    BY ArrayTypes DEF Stats
  <1>2. [c EXCEPT !.cnt = cn].stat = c.stat
    BY DEF RegisterType
  <1>3. EpArmed(c, ep, n) = [[c EXCEPT !.cnt = cn] EXCEPT !.stat = st]
    BY <1>2 DEF EpArmed
  <1> HIDE DEF st, cn
  <1>4. Given(c, st, [[c EXCEPT !.cnt = cn] EXCEPT !.stat = st])
    BY <1>1, CountSet
  <1>5. Given(c, st, EpArmed(c, ep, n))
    BY <1>3, <1>4
  <1>6. QED
    BY <1>5 DEF st

LEMMA BufferAt ==
  ASSUME NEW c \in RegisterType, NEW ep \in Addresses
  PROVE  Moved(c, [c.buf_len EXCEPT ![ep] = Mps], [c.buf_addr EXCEPT ![ep] = c.pma_offset],
               c.pma_offset + Mps,
               [c EXCEPT !.buf_len[ep] = Mps, !.buf_addr[ep] = c.pma_offset, !.pma_offset = @ + Mps])
  <1> DEFINE len  == [c.buf_len EXCEPT ![ep] = Mps]
             addr == [c.buf_addr EXCEPT ![ep] = c.pma_offset]
             off  == c.pma_offset + Mps
             full == [c EXCEPT !.buf_len[ep] = Mps, !.buf_addr[ep] = c.pma_offset,
                               !.pma_offset = @ + Mps]
  <1>1. c.pma_offset \in Nat /\ off \in Nat
    BY Sizes DEF RegisterType
  <1>2. len \in [Addresses -> {0, Mps}] /\ addr \in [Addresses -> Nat]
    BY <1>1, ArrayTypes DEF RegisterType
  <1>3. /\ [c EXCEPT !.buf_len = len].buf_addr = c.buf_addr
        /\ [[c EXCEPT !.buf_len = len] EXCEPT !.buf_addr = addr].pma_offset = c.pma_offset
    BY DEF RegisterType
  <1>4. full = [[[c EXCEPT !.buf_len = len] EXCEPT !.buf_addr = addr] EXCEPT !.pma_offset = off]
    BY <1>3
  <1> HIDE DEF len, addr, off, full
  <1>5. Moved(c, len, addr, off,
              [[[c EXCEPT !.buf_len = len] EXCEPT !.buf_addr = addr] EXCEPT !.pma_offset = off])
    BY <1>1, <1>2, BuffersSet
  <1>6. Moved(c, len, addr, off, full)
    BY <1>4, <1>5
  <1>7. QED
    BY <1>6 DEF len, addr, off, full

\* What opening does to an endpoint that has a buffer, and to one that has none.
OpenStatus(ep) == IF IsOut(ep) THEN "valid" ELSE "nak"

OpenedFirst(c, ep, e) ==
  /\ e \in RegisterType /\ e.stat = [c.stat EXCEPT ![ep] = OpenStatus(ep)]
  /\ e.buf_len = [c.buf_len EXCEPT ![ep] = Mps]
  /\ e.buf_addr = [c.buf_addr EXCEPT ![ep] = c.pma_offset]
  /\ e.pma_offset = c.pma_offset + Mps

LEMMA OpenStatusType ==
  ASSUME NEW ep
  PROVE  OpenStatus(ep) \in Stats
  BY DEF OpenStatus, Stats

LEMMA Reopened ==
  ASSUME NEW c \in RegisterType, NEW ep \in Addresses, c.buf_len[ep] = Mps
  PROVE  Given(c, [c.stat EXCEPT ![ep] = OpenStatus(ep)], EpOpen(c, ep))
  <1>1. ~Grows(c, ep)
    BY Sizes DEF Grows
  <1>2. ~Full(c, ep) /\ Placed(c, ep) = c
    BY <1>1 DEF Full, Placed
  <1>3. EpOpen(c, ep) = [c EXCEPT !.stat[ep] = OpenStatus(ep), !.dtog[ep] = 0]
    BY <1>2 DEF EpOpen, OpenStatus
  <1>4. OpenStatus(ep) \in Stats
    BY OpenStatusType
  <1>5. Given(c, [c.stat EXCEPT ![ep] = OpenStatus(ep)],
              [c EXCEPT !.stat[ep] = OpenStatus(ep), !.dtog[ep] = 0])
    BY <1>4, StatusAt
  <1>6. QED
    BY <1>3, <1>5

LEMMA FirstOpened ==
  ASSUME NEW c \in RegisterType, NEW ep \in Addresses, c.buf_len[ep] = 0,
         c.pma_offset <= BtableSize + Mps
  PROVE  OpenedFirst(c, ep, EpOpen(c, ep))
  <1> DEFINE d == Placed(c, ep)
  <1>1. Grows(c, ep) /\ ~Full(c, ep)
    <2>1. c.pma_offset \in Nat
      BY DEF RegisterType
    <2>2. QED
      BY <2>1, Sizes DEF Grows, Full
  <1>2. Moved(c, [c.buf_len EXCEPT ![ep] = Mps], [c.buf_addr EXCEPT ![ep] = c.pma_offset],
              c.pma_offset + Mps, d)
    BY <1>1, BufferAt DEF Placed
  <1>3. EpOpen(c, ep) = [d EXCEPT !.stat[ep] = OpenStatus(ep), !.dtog[ep] = 0]
    BY <1>1 DEF EpOpen, OpenStatus
  <1> HIDE DEF d
  <1>4. d \in RegisterType
    BY <1>2 DEF Moved
  <1>5. Given(d, [d.stat EXCEPT ![ep] = OpenStatus(ep)], EpOpen(c, ep))
    <2>1. OpenStatus(ep) \in Stats
      BY OpenStatusType
    <2>2. Given(d, [d.stat EXCEPT ![ep] = OpenStatus(ep)],
                [d EXCEPT !.stat[ep] = OpenStatus(ep), !.dtog[ep] = 0])
      BY <1>4, <2>1, StatusAt
    <2>3. QED
      BY <1>3, <2>2
  <1>6. QED
    BY <1>2, <1>5 DEF Moved, Given, SameBuffers, OpenedFirst

\* Two endpoints of a pair, opened one after the other, get neighbouring buffers
\* the first time and keep them afterwards.
Ready2(c, a, b, e) ==
  /\ e \in RegisterType
  /\ e.stat = [[c.stat EXCEPT ![a] = OpenStatus(a)] EXCEPT ![b] = OpenStatus(b)]

New2(c, a, b, e) ==
  /\ e.buf_len = [[c.buf_len EXCEPT ![a] = Mps] EXCEPT ![b] = Mps]
  /\ e.buf_addr = [[c.buf_addr EXCEPT ![a] = c.pma_offset] EXCEPT ![b] = c.pma_offset + Mps]
  /\ e.pma_offset = c.pma_offset + 2 * Mps

LEMMA PairReopened ==
  ASSUME NEW c \in RegisterType, NEW a \in Addresses, NEW b \in Addresses, a # b,
         c.buf_len[a] = Mps, c.buf_len[b] = Mps
  PROVE  LET e == EpOpen(EpOpen(c, a), b) IN Ready2(c, a, b, e) /\ SameBuffers(c, e)
  <1> DEFINE d == EpOpen(c, a)
             e == EpOpen(d, b)
  <1>1. Given(c, [c.stat EXCEPT ![a] = OpenStatus(a)], d)
    BY Reopened
  <1> HIDE DEF d
  <1>2. d \in RegisterType /\ d.buf_len = c.buf_len
    BY <1>1 DEF Given, SameBuffers
  <1>3. Given(d, [d.stat EXCEPT ![b] = OpenStatus(b)], e)
    BY <1>2, Reopened
  <1> HIDE DEF e
  <1>4. Ready2(c, a, b, e) /\ SameBuffers(c, e)
    BY <1>1, <1>3 DEF Given, SameBuffers, Ready2
  <1>5. QED
    BY <1>4 DEF d, e

LEMMA PairOpened ==
  ASSUME NEW c \in RegisterType, NEW a \in Addresses, NEW b \in Addresses, a # b,
         c.buf_len[a] = 0, c.buf_len[b] = 0, c.pma_offset <= BtableSize
  PROVE  LET e == EpOpen(EpOpen(c, a), b) IN Ready2(c, a, b, e) /\ New2(c, a, b, e)
  <1> DEFINE d == EpOpen(c, a)
             e == EpOpen(d, b)
  <1>0. c.pma_offset \in Nat
    BY DEF RegisterType
  <1>1. OpenedFirst(c, a, d)
    BY <1>0, Sizes, FirstOpened
  <1> HIDE DEF d
  <1>2. d \in RegisterType /\ d.pma_offset <= BtableSize + Mps
    BY <1>0, <1>1, Sizes DEF OpenedFirst
  <1>3. d.buf_len[b] = 0
    BY <1>1 DEF OpenedFirst, RegisterType
  <1>4. OpenedFirst(d, b, e)
    BY <1>2, <1>3, FirstOpened
  <1> HIDE DEF e
  <1>5. Ready2(c, a, b, e)
    BY <1>1, <1>4 DEF OpenedFirst, Ready2
  <1>6. New2(c, a, b, e)
    <2>1. c.pma_offset + Mps + Mps = c.pma_offset + 2 * Mps
      BY <1>0, Sizes
    <2>2. QED
      BY <1>1, <1>4, <2>1 DEF OpenedFirst, New2
  <1>7. QED
    BY <1>5, <1>6 DEF d, e

\* usbd_set_configuration and usbd_set_interface: the HID endpoints are placed
\* behind each other from the start of packet memory on, once.
LEMMA HidOpened ==
  ASSUME NEW c, Registers(c), Placed0(c)
  PROVE  Registers(OpenHid(c)) /\ Placed0(OpenHid(c)) /\ PlacedHid(OpenHid(c))
  <1> DEFINE e == OpenHid(c)
  <1>0. e = EpOpen(EpOpen(c, Out(2)), In(1))
    BY AddressesDiffer DEF AddressFacts, OpenHid
  <1>1. c \in RegisterType
    BY DEF Registers
  <1>2. CASE PlacedHid(c)
    <2>1. Ready2(c, Out(2), In(1), e) /\ SameBuffers(c, e)
      BY <1>0, <1>1, <1>2, AddressesDiffer, PairReopened DEF AddressFacts, PlacedHid
    <2>3. \A ep \in Used : e.stat[ep] = c.stat[ep] \/ c.buf_len[ep] = Mps
      BY <1>1, <1>2, <2>1, AddressesDiffer DEF AddressFacts, Ready2, PlacedHid, Used, RegisterType
    <2>4. QED
      BY <1>2, <2>1, <2>3, StatusGiven
  <1>3. CASE ~PlacedHid(c)
    <2>1. c.buf_len[In(1)] = 0 /\ c.buf_len[Out(2)] = 0 /\ c.pma_offset = BtableSize
      BY <1>3 DEF Registers, Layout
    <2>2. Ready2(c, Out(2), In(1), e) /\ New2(c, Out(2), In(1), e)
      BY <1>0, <1>1, <2>1, AddressesDiffer, Sizes, PairOpened DEF AddressFacts
    <2>3. Placed0(e) /\ PlacedHid(e)
      BY <1>1, <2>2, AddressesDiffer DEF AddressFacts, New2, Placed0, PlacedHid, RegisterType
    <2>4. e.buf_addr[Out(2)] = BtableSize /\ e.buf_addr[In(1)] = BtableSize + Mps
      BY <1>1, <2>1, <2>2, AddressesDiffer DEF AddressFacts, New2, RegisterType
    <2>5. e.buf_addr[In(0)] = BtableSize /\ e.buf_addr[Out(0)] = BtableSize + Mps
      <3>1. c.buf_addr[In(0)] = BtableSize /\ c.buf_addr[Out(0)] = BtableSize + Mps
        BY DEF Registers, Layout
      <3>2. QED
        BY <1>1, <2>2, <3>1, AddressesDiffer DEF AddressFacts, New2, RegisterType
    <2>6. e.pma_offset = BtableSize + 2 * Mps
      BY <2>1, <2>2 DEF New2
    <2>7. Layout(e)
      BY <2>3, <2>4, <2>5, <2>6, Sizes DEF Layout
    <2>8. OpenPlaced(e)
      BY <2>3 DEF OpenPlaced, Placed0, PlacedHid, Used
    <2>9. QED
      BY <2>2, <2>3, <2>7, <2>8 DEF Registers, Ready2
  <1>4. QED
    BY <1>2, <1>3

\* A bus reset places endpoint 0 once, and hands out packet memory anew.
LEMMA ZeroOpened ==
  ASSUME NEW c, Registers(c)
  PROVE  LET e == OffsetReset(EpOpen(EpOpen(c, In(0)), Out(0)))
         IN Registers(e) /\ Placed0(e) /\ (PlacedHid(c) => PlacedHid(e))
  <1> DEFINE d == EpOpen(EpOpen(c, In(0)), Out(0))
             e == OffsetReset(d)
  <1>1. c \in RegisterType
    BY DEF Registers
  <1>2. CASE Placed0(c)
    <2>1. Ready2(c, In(0), Out(0), d) /\ SameBuffers(c, d)
      BY <1>1, <1>2, AddressesDiffer, PairReopened DEF AddressFacts, Placed0
    <2>2. /\ e \in RegisterType /\ e.buf_len = c.buf_len /\ e.buf_addr = c.buf_addr
          /\ e.pma_offset = BtableSize /\ e.stat = d.stat
      BY <2>1, Sizes DEF Ready2, SameBuffers, OffsetReset, RegisterType
    <2>3. Layout(e) /\ Placed0(e) /\ (PlacedHid(c) => PlacedHid(e))
      BY <1>2, <2>2, Sizes DEF Registers, Layout, Placed0, PlacedHid
    <2>4. OpenPlaced(e)
      BY <1>1, <1>2, <2>1, <2>2, AddressesDiffer
         DEF AddressFacts, Registers, OpenPlaced, Ready2, Placed0, Used, RegisterType
    <2>5. QED
      BY <2>2, <2>3, <2>4 DEF Registers
  <1>3. CASE ~Placed0(c)
    <2>1. /\ c.buf_len[In(0)] = 0 /\ c.buf_len[Out(0)] = 0 /\ c.pma_offset = BtableSize
          /\ c.buf_len[In(1)] = 0 /\ c.buf_len[Out(2)] = 0 /\ ~PlacedHid(c)
      BY <1>3 DEF Registers, Layout
    <2>2. Ready2(c, In(0), Out(0), d) /\ New2(c, In(0), Out(0), d)
      BY <1>1, <2>1, AddressesDiffer, Sizes, PairOpened DEF AddressFacts
    <2>3. /\ e \in RegisterType /\ e.buf_len = d.buf_len /\ e.buf_addr = d.buf_addr
          /\ e.pma_offset = BtableSize /\ e.stat = d.stat
      BY <2>2, Sizes DEF Ready2, OffsetReset, RegisterType
    <2>4. /\ e.buf_len[In(0)] = Mps /\ e.buf_len[Out(0)] = Mps
          /\ e.buf_len[In(1)] = 0 /\ e.buf_len[Out(2)] = 0
      BY <1>1, <2>1, <2>2, <2>3, AddressesDiffer DEF AddressFacts, New2, RegisterType
    <2>5. e.buf_addr[In(0)] = BtableSize /\ e.buf_addr[Out(0)] = BtableSize + Mps
      BY <1>1, <2>1, <2>2, <2>3, AddressesDiffer DEF AddressFacts, New2, RegisterType
    <2>6. Placed0(e) /\ ~PlacedHid(e)
      BY <2>4, Sizes DEF Placed0, PlacedHid
    <2>7. Layout(e)
      BY <2>3, <2>4, <2>5, <2>6, Sizes DEF Layout
    <2>8. OpenPlaced(e)
      <3>1. e.stat[In(1)] = c.stat[In(1)] /\ e.stat[Out(2)] = c.stat[Out(2)]
        BY <1>1, <2>2, <2>3, AddressesDiffer DEF AddressFacts, Ready2, RegisterType
      <3>2. \A ep \in {In(1), Out(2)} : c.stat[ep] = "disabled"
        BY <2>1, Sizes DEF Registers, OpenPlaced, Used
      <3>3. QED
        BY <2>4, <3>1, <3>2 DEF OpenPlaced, Used
    <2>9. QED
      BY <2>1, <2>3, <2>6, <2>7, <2>8 DEF Registers
  <1>4. QED
    BY <1>2, <1>3
----------------------------------------------------------------------------
\* Devices that differ in nothing the invariant speaks of, or in the registers
\* alone.
Alike(d, e) ==
  /\ Fields \subseteq DOMAIN e /\ DOMAIN e.req_data = DOMAIN d.req_data
  /\ e.daddr = d.daddr /\ e.dev_addr = d.dev_addr /\ e.configuration = d.configuration
  /\ e.residue = d.residue /\ e.len = d.len /\ e.zlp = d.zlp /\ e.setup = d.setup

LEMMA AlikeOnward ==
  ASSUME NEW d, NEW e, Open(d), Alike(d, e),
         Registers(e.dc), Placed0(e.dc), PlacedHid(d.dc) => PlacedHid(e.dc)
  PROVE  Onward(d, e)
  BY DEF Onward, Later, Open, Device, DeviceType, Alike

LEMMA OnwardSelf ==
  ASSUME NEW d, Open(d)
  PROVE  Onward(d, d)
  BY DEF Onward, Later

LEMMA OnwardOn ==
  ASSUME NEW d, NEW e, NEW f, Onward(d, e), Onward(e, f)
  PROVE  Onward(d, f)
  BY DEF Onward, Later

LEMMA OnwardOpen ==
  ASSUME NEW d, NEW e, Onward(d, e)
  PROVE  Open(e)
  BY DEF Onward, Later

\* Only the registers change.
LEMMA DcReplaced ==
  ASSUME NEW d, NEW v, Open(d), Registers(v), Placed0(v), PlacedHid(d.dc) => PlacedHid(v)
  PROVE  Onward(d, [d EXCEPT !.dc = v])
  <1>1. Alike(d, [d EXCEPT !.dc = v]) /\ [d EXCEPT !.dc = v].dc = v
    BY DEF Alike, Open, Device, DeviceType, Fields
  <1>2. QED
    BY <1>1, AlikeOnward

\* One endpoint's status changes, to one that needs no buffer, or it has one.
LEMMA OneStatus ==
  ASSUME NEW c, NEW ep \in Addresses, NEW x, NEW e, Registers(c),
         Given(c, [c.stat EXCEPT ![ep] = x], e),
         c.buf_len[ep] = Mps \/ x = "disabled" \/ ep \notin Used
  PROVE  Registers(e) /\ (Placed0(c) => Placed0(e)) /\ (PlacedHid(c) => PlacedHid(e))
  <1>1. SameBuffers(c, e) /\ e.stat = [c.stat EXCEPT ![ep] = x]
    BY DEF Given
  <1>2. \A o \in Used : e.stat[o] = c.stat[o] \/ c.buf_len[o] = Mps
                         \/ e.stat[o] = "disabled"
    BY <1>1 DEF Registers, RegisterType
  <1>3. QED
    BY <1>1, <1>2, StatusGiven

\* A status alone.
LEMMA StatusOnly ==
  ASSUME NEW c \in RegisterType, NEW ep \in Addresses, NEW x \in Stats
  PROVE  Given(c, [c.stat EXCEPT ![ep] = x], [c EXCEPT !.stat[ep] = x])
  <1> DEFINE st == [c.stat EXCEPT ![ep] = x]
  <1>1. st \in [Addresses -> Stats]
    BY ArrayTypes, Sizes DEF RegisterType
  <1> HIDE DEF st
  <1>2. Given(c, st, [c EXCEPT !.stat = st])
    BY <1>1 DEF RegisterType, Given, SameBuffers
  <1>3. QED
    BY <1>2 DEF st

LEMMA RearmOnward ==
  ASSUME NEW d, NEW ep \in Addresses, Open(d), d.dc.buf_len[ep] = Mps
  PROVE  Onward(d, [d EXCEPT !.dc = EpRearmed(@, ep)])
  <1>1. d.dc \in RegisterType /\ Registers(d.dc) /\ Placed0(d.dc)
    BY DEF Open, Device, Registers
  <1>2. Given(d.dc, [d.dc.stat EXCEPT ![ep] = "valid"], EpRearmed(d.dc, ep))
    BY <1>1, StatusOnly DEF EpRearmed, Stats
  <1>3. /\ Registers(EpRearmed(d.dc, ep)) /\ Placed0(EpRearmed(d.dc, ep))
        /\ PlacedHid(d.dc) => PlacedHid(EpRearmed(d.dc, ep))
    BY <1>1, <1>2, OneStatus
  <1>4. QED
    BY <1>3, DcReplaced

LEMMA Rearmed0Onward ==
  ASSUME NEW d, Open(d)
  PROVE  Onward(d, Rearmed0(d))
  BY RearmOnward, AddressesDiffer DEF AddressFacts, Rearmed0, Open, Placed0

LEMMA StallOnward ==
  ASSUME NEW d, NEW ep \in Addresses, Open(d), d.dc.buf_len[ep] = Mps \/ ep \notin Used
  PROVE  Onward(d, [d EXCEPT !.dc = EpSetStall(@, ep)])
  <1>1. d.dc \in RegisterType /\ Registers(d.dc) /\ Placed0(d.dc)
    BY DEF Open, Device, Registers
  <1>2. Given(d.dc, [d.dc.stat EXCEPT ![ep] = "stall"], EpSetStall(d.dc, ep))
    BY <1>1, StatusOnly DEF EpSetStall, Stats
  <1>3. /\ Registers(EpSetStall(d.dc, ep)) /\ Placed0(EpSetStall(d.dc, ep))
        /\ PlacedHid(d.dc) => PlacedHid(EpSetStall(d.dc, ep))
    BY <1>1, <1>2, OneStatus
  <1>4. QED
    BY <1>3, DcReplaced

LEMMA StalledInOnward ==
  ASSUME NEW d, Open(d)
  PROVE  Onward(d, StalledIn(d))
  BY StallOnward, AddressesDiffer DEF AddressFacts, StalledIn, Open, Placed0

\* usbd_ep_write to an endpoint that has its buffer.
LEMMA WriteOnward ==
  ASSUME NEW d, NEW ep \in Addresses, NEW bytes, Open(d), d.dc.buf_len[ep] = Mps,
         Len(bytes) \in Nat
  PROVE  Onward(d, EpWrite(d, ep, bytes))
  <1> DEFINE v == EpArmed(d.dc, ep, Len(bytes))
             m == Stored(d.pma, d.dc.buf_addr[ep], bytes)
             w == [d.written EXCEPT ![ep] = bytes]
             e == [[[d EXCEPT !.pma = m] EXCEPT !.dc = v] EXCEPT !.written = w]
  <1>1. d.dc \in RegisterType /\ Registers(d.dc) /\ Placed0(d.dc) /\ Fields \subseteq DOMAIN d
    BY DEF Open, Device, DeviceType, Registers
  <1>2. Given(d.dc, [d.dc.stat EXCEPT ![ep] = "valid"], v)
    BY <1>1, ArmedAt
  <1> HIDE DEF v
  <1>3. Registers(v) /\ Placed0(v) /\ (PlacedHid(d.dc) => PlacedHid(v))
    BY <1>1, <1>2, OneStatus
  <1>4. [d EXCEPT !.pma = m].dc = d.dc /\ [[d EXCEPT !.pma = m] EXCEPT !.dc = v].written = d.written
    BY <1>1 DEF Fields
  <1>5. EpWrite(d, ep, bytes) = e
    BY <1>4 DEF EpWrite, v
  <1> HIDE DEF m, w
  <1>6. Alike(d, e) /\ e.dc = v
    BY <1>1 DEF Alike, Fields
  <1> HIDE DEF e
  <1>7. Onward(d, e)
    BY <1>3, <1>6, AlikeOnward
  <1>8. QED
    BY <1>5, <1>7

LEMMA LaterOn ==
  ASSUME NEW d, NEW e, NEW f, Later(d, e), Later(e, f)
  PROVE  Later(d, f)
  BY DEF Later

\* Only what the host is told changes.
LEMMA DataReplaced ==
  ASSUME NEW d, NEW e, Open(d), DeviceType(e), e.dc = d.dc,
         e.configuration = d.configuration, e.setup = d.setup
  PROVE  Onward(d, e)
  BY DEF Onward, Later, Open, Device
----------------------------------------------------------------------------
LEMMA LeastOf ==
  ASSUME NEW a \in Nat, NEW b \in Nat
  PROVE  Least(a, b) \in Nat /\ Least(a, b) <= a /\ Least(a, b) <= b
  BY DEF Least

LEMMA LengthOfBytes ==
  ASSUME NEW d, NEW n \in Nat
  PROVE  Len(BytesAt(d, n)) \in Nat
  BY DEF BytesAt

LEMMA NoBytes == Len(<<>>) \in Nat
  OBVIOUS

\* usbd_send_to_host.
LEMMA SendOnward ==
  ASSUME NEW d, Open(d)
  PROVE  Onward(d, SendToHost(d))
  <1>0. d.dc.buf_len[In(0)] = Mps /\ In(0) \in Addresses
    BY AddressesDiffer DEF AddressFacts, Open, Placed0
  <1>1. CASE d.zlp
    <2> DEFINE z == [d EXCEPT !.zlp = FALSE]
    <2>1. DeviceType(z) /\ z.dc = d.dc /\ z.configuration = d.configuration /\ z.setup = d.setup
      BY DEF Open, Device, DeviceType, Fields
    <2> HIDE DEF z
    <2>2. Onward(d, z)
      BY <2>1, DataReplaced
    <2>3. Onward(z, EpWrite(z, In(0), <<>>))
      BY <1>0, <2>1, <2>2, NoBytes, OnwardOpen, WriteOnward
    <2>4. SendToHost(d) = EpWrite(z, In(0), <<>>)
      BY <1>1 DEF SendToHost, z
    <2>5. QED
      BY <2>2, <2>3, <2>4, OnwardOn
  <1>2. CASE ~d.zlp /\ d.buf.obj = "null" /\ d.residue > 0
    <2>1. SendToHost(d) = d
      BY <1>2 DEF SendToHost
    <2>2. QED
      BY <2>1, OnwardSelf
  <1>3. CASE ~d.zlp /\ ~(d.buf.obj = "null" /\ d.residue > 0)
    <2> DEFINE chunk == Least(d.residue, Mps)
               w == EpWrite(d, In(0), BytesAt(d, chunk))
               flag == ZlpAfter(d, chunk)
               e == [w EXCEPT !.buf.off = @ + chunk, !.residue = @ - chunk, !.zlp = flag]
    <2>1. d.residue \in Nat
      BY DEF Open, Device, DeviceType
    <2>2. chunk \in Nat /\ chunk <= d.residue
      BY <2>1, Sizes, LeastOf
    <2>3. flag \in BOOLEAN
      BY DEF ZlpAfter
    <2>4. Onward(d, w)
      BY <1>0, <2>2, LengthOfBytes, WriteOnward
    <2>5. w.residue = d.residue
      BY DEF EpWrite, Open, Device, DeviceType, Fields
    <2>6. SendToHost(d) = e
      BY <1>3 DEF SendToHost
    <2> HIDE DEF chunk, w, flag
    <2>7. DeviceType(e) /\ e.dc = w.dc /\ e.configuration = w.configuration /\ e.setup = w.setup
      <3>1. w.residue - chunk \in Nat /\ (w.residue = 0 => w.residue - chunk = 0)
        BY <2>1, <2>2, <2>5
      <3>2. DeviceType(w)
        BY <2>4 DEF Onward, Later, Open, Device
      <3>3. QED
        BY <2>3, <3>1, <3>2 DEF DeviceType, Fields
    <2> HIDE DEF e
    <2>8. Onward(w, e)
      BY <2>4, <2>7, OnwardOpen, DataReplaced
    <2>9. QED
      BY <2>4, <2>6, <2>8, OnwardOn
  <1>4. d.zlp \in BOOLEAN
    BY DEF Open, Device, DeviceType
  <1>5. QED
    BY <1>1, <1>2, <1>3, <1>4
----------------------------------------------------------------------------
\* What the handlers of requests do.
LEMMA AnswerOnward ==
  ASSUME NEW d, NEW obj, NEW n \in Nat, Open(d)
  PROVE  Onward(d, Answer(d, obj, n))
  <1> DEFINE e == Answer(d, obj, n)
  <1>1. DeviceType(e) /\ e.dc = d.dc /\ e.configuration = d.configuration /\ e.setup = d.setup
    BY DEF Answer, Open, Device, DeviceType, Fields
  <1>2. QED
    BY <1>1, DataReplaced

LEMMA AddressOnward ==
  ASSUME NEW d, NEW a \in 0..1, Open(d)
  PROVE  Onward(d, SetAddress(d, a))
  <1> DEFINE e == SetAddress(d, a)
  <1>1. DeviceType(e) /\ e.dc = d.dc /\ e.configuration = d.configuration /\ e.setup = d.setup
    BY DEF SetAddress, Open, Device, DeviceType, Fields
  <1>2. QED
    BY <1>1, DataReplaced

LEMMA ReportOnward ==
  ASSUME NEW d, Open(d)
  PROVE  Onward(d, SetReport(d))
  <1> DEFINE e == SetReport(d)
  <1>1. DeviceType(e) /\ e.dc = d.dc /\ e.configuration = d.configuration /\ e.setup = d.setup
    BY DEF SetReport, Open, Device, DeviceType, Fields
  <1>2. QED
    BY <1>1, DataReplaced

LEMMA OpenHidOnward ==
  ASSUME NEW d, Open(d)
  PROVE  Onward(d, [d EXCEPT !.dc = OpenHid(@)]) /\ PlacedHid(OpenHid(d.dc))
  <1>1. Registers(d.dc) /\ Placed0(d.dc)
    BY DEF Open, Device
  <1>2. Registers(OpenHid(d.dc)) /\ Placed0(OpenHid(d.dc)) /\ PlacedHid(OpenHid(d.dc))
    BY <1>1, HidOpened
  <1>3. QED
    BY <1>2, DcReplaced

LEMMA ConfigurationOnward ==
  ASSUME NEW d, NEW v \in {0, 1}, Open(d)
  PROVE  Onward(d, SetConfiguration(d, v))
  <1> DEFINE o == IF v = 0 THEN d.dc ELSE OpenHid(d.dc)
             e == [[d EXCEPT !.configuration = v] EXCEPT !.dc = o]
  <1>1. Registers(o) /\ Placed0(o) /\ (PlacedHid(d.dc) => PlacedHid(o)) /\ (v # 0 => PlacedHid(o))
    BY HidOpened DEF Open, Device
  <1>2. Fields \subseteq DOMAIN d
    BY DEF Open, Device, DeviceType
  <1>3. SetConfiguration(d, v) = e
    <2>1. [d EXCEPT !.configuration = v].dc = d.dc
      BY <1>2 DEF Fields
    <2>2. QED
      BY <2>1 DEF SetConfiguration
  <1> HIDE DEF o
  <1>4. DeviceType(e) /\ e.dc = o /\ e.configuration = v /\ e.setup = d.setup
    BY <1>2 DEF Open, Device, DeviceType, Fields
  <1> HIDE DEF e
  <1>5. QED
    BY <1>1, <1>3, <1>4 DEF Onward, Later, Open, Device

LEMMA CloseHidKeeps ==
  ASSUME NEW c, Registers(c)
  PROVE  Registers(CloseHid(c)) /\ (Placed0(c) => Placed0(CloseHid(c)))
         /\ (PlacedHid(c) => PlacedHid(CloseHid(c)))
  <1> DEFINE d == EpClose(c, Out(2))
             e == EpClose(d, In(1))
  <1>0. In(1) \in Addresses /\ Out(2) \in Addresses /\ "disabled" \in Stats
    BY AddressesDiffer DEF AddressFacts, Stats
  <1>1. Given(c, [c.stat EXCEPT ![Out(2)] = "disabled"], d)
    BY <1>0, StatusAt DEF EpClose, Registers
  <1>2. Registers(d) /\ (Placed0(c) => Placed0(d)) /\ (PlacedHid(c) => PlacedHid(d))
    BY <1>0, <1>1, OneStatus
  <1> HIDE DEF d
  <1>3. Given(d, [d.stat EXCEPT ![In(1)] = "disabled"], e)
    BY <1>0, <1>2, StatusAt DEF EpClose, Registers
  <1>4. Registers(e) /\ (Placed0(d) => Placed0(e)) /\ (PlacedHid(d) => PlacedHid(e))
    BY <1>0, <1>2, <1>3, OneStatus
  <1>5. CloseHid(c) = e
    BY AddressesDiffer DEF AddressFacts, CloseHid, d
  <1>6. QED
    BY <1>2, <1>4, <1>5

LEMMA InterfaceOnward ==
  ASSUME NEW d, NEW alt, Open(d)
  PROVE  Onward(d, SetInterface(d, alt))
  <1>1. CASE alt = 0
    BY <1>1, OpenHidOnward DEF SetInterface
  <1>2. CASE alt # 0
    <2>1. /\ Registers(CloseHid(d.dc)) /\ Placed0(CloseHid(d.dc))
          /\ PlacedHid(d.dc) => PlacedHid(CloseHid(d.dc))
      BY CloseHidKeeps DEF Open, Device
    <2>2. QED
      BY <1>2, <2>1, DcReplaced DEF SetInterface
  <1>3. QED
    BY <1>1, <1>2

\* A request to an endpoint is served by a configured device, in which all
\* endpoints have their buffers, or it is for endpoint 0.
LEMMA EndpointOnward ==
  ASSUME NEW d, NEW r, Open(d), r.val \in Addresses,
         d.configuration # 0 \/ r.val \in {In(0), Out(0)}
  PROVE  Onward(d, StdEndpoint(d, r))
  <1>1. CASE r.code = "SET_HALT"
    <2>1. d.dc.buf_len[r.val] = Mps \/ r.val \notin Used
      BY AddressesDiffer DEF AddressFacts, Open, Device, Placed0, PlacedHid, Used
    <2>2. QED
      BY <1>1, <2>1, StallOnward DEF StdEndpoint
  <1>2. CASE r.code # "SET_HALT"
    <2> DEFINE o == Opposite(r.val)
               x == IF IsOut(r.val) THEN "nak" ELSE "valid"
               v == EpClearStall(d.dc, r.val)
    <2>1. o \in Addresses /\ x \in Stats
      BY AddressesDiffer DEF AddressFacts, Stats
    <2>2. Registers(d.dc) /\ d.dc \in RegisterType /\ Placed0(d.dc)
      BY DEF Open, Device, Registers
    <2>3. d.dc.buf_len[o] = Mps \/ o \notin Used
      <3>1. CASE d.configuration # 0
        <4>1. PlacedHid(d.dc)
          BY <3>1 DEF Open, Device
        <4>2. QED
          BY <2>2, <4>1 DEF Placed0, PlacedHid, Used
      <3>2. CASE r.val \in {In(0), Out(0)}
        <4>1. o \in {In(0), Out(0)}
          BY <3>2 DEF Opposite, IsOut, In, Out
        <4>2. QED
          BY <2>2, <4>1 DEF Placed0
      <3>3. QED
        BY <3>1, <3>2
    <2>4. v = [d.dc EXCEPT !.stat[o] = x, !.dtog[o] = 0]
      BY DEF EpClearStall
    <2> HIDE DEF o, x, v
    <2>5. Given(d.dc, [d.dc.stat EXCEPT ![o] = x], [d.dc EXCEPT !.stat[o] = x, !.dtog[o] = 0])
      BY <2>1, <2>2, StatusAt
    <2>6. Given(d.dc, [d.dc.stat EXCEPT ![o] = x], v)
      BY <2>4, <2>5
    <2>7. Registers(v) /\ Placed0(v) /\ (PlacedHid(d.dc) => PlacedHid(v))
      BY <2>1, <2>2, <2>3, <2>6, OneStatus
    <2>8. StdEndpoint(d, r) = [d EXCEPT !.dc = v]
      BY <1>2 DEF StdEndpoint, v
    <2>9. QED
      BY <2>7, <2>8, DcReplaced
  <1>3. QED
    BY <1>1, <1>2

LEMMA HandledOnward ==
  ASSUME NEW d, NEW r \in Requests, Open(d), ~Refused(d, r)
  PROVE  Onward(d, Handled(d, r))
  <1>0. /\ r.to \in {"device", "interface", "endpoint", "class"}
        /\ Length \in [Descriptors -> Nat \ {0}] /\ "report" \in Descriptors /\ Byte0 \in Nat
    BY RequestAssumption, ControlAssumption
  <1>1. CASE r.to = "interface" /\ r.code = "GET_DESCRIPTOR"
    <2>1. r.val \in {"report", "hid", "physical"}
      BY <1>1, RequestAssumption
    <2>2. Handled(d, r) = HidDescriptor(d, r.val)
      BY <1>1 DEF Handled
    <2>3. CASE r.val = "report"
      <3>1. HidDescriptor(d, r.val) = Answer(d, "report", Length["report"])
        BY <2>3 DEF HidDescriptor
      <3>2. QED
        BY <1>0, <2>2, <3>1, AnswerOnward
    <2>4. CASE r.val = "hid"
      <3>1. HidDescriptor(d, r.val) = Answer(d, "null", Byte0)
        BY <2>4 DEF HidDescriptor
      <3>2. QED
        BY <1>0, <2>2, <3>1, AnswerOnward
    <2>5. CASE r.val = "physical"
      <3>1. HidDescriptor(d, r.val) = d
        BY <2>5 DEF HidDescriptor
      <3>2. QED
        BY <2>2, <3>1, OnwardSelf
    <2>6. QED
      BY <2>1, <2>3, <2>4, <2>5
  <1>2. CASE r.to = "interface" /\ r.code = "SET_INTERFACE"
    <2>1. Handled(d, r) = SetInterface(d, r.val)
      BY <1>2 DEF Handled
    <2>2. QED
      BY <2>1, InterfaceOnward
  <1>3. CASE r.to = "device"
    <2>0. Handled(d, r) = StdDevice(d, r)
      BY <1>3 DEF Handled
    <2>1. r.code \in {"GET_DESCRIPTOR", "GET_STATUS", "SET_ADDRESS", "SET_CONFIGURATION"}
      BY <1>3, RequestAssumption
    <2>2. CASE r.code = "GET_DESCRIPTOR"
      <3>1. r.val \in Descriptors
        BY <1>3, <2>2 DEF Refused
      <3>2. Length[r.val] \in Nat
        BY <1>0, <3>1
      <3>3. StdDevice(d, r) = Answer(d, r.val, Length[r.val])
        BY <2>2 DEF StdDevice
      <3>4. QED
        BY <2>0, <3>2, <3>3, AnswerOnward
    <2>3. CASE r.code = "GET_STATUS"
      <3>1. StdDevice(d, r) = Answer(d, "status", 2)
        BY <2>3 DEF StdDevice
      <3>2. QED
        BY <2>0, <3>1, AnswerOnward
    <2>4. CASE r.code = "SET_ADDRESS"
      <3>1. r.val \in 0..1
        BY <2>4, RequestAssumption
      <3>2. StdDevice(d, r) = SetAddress(d, r.val)
        BY <2>4 DEF StdDevice
      <3>3. QED
        BY <2>0, <3>1, <3>2, AddressOnward
    <2>5. CASE r.code = "SET_CONFIGURATION"
      <3>1. r.val \in {0, 1}
        BY <2>5 DEF Refused
      <3>2. StdDevice(d, r) = SetConfiguration(d, r.val)
        BY <2>5 DEF StdDevice
      <3>3. QED
        BY <2>0, <3>1, <3>2, ConfigurationOnward
    <2>6. QED
      BY <2>1, <2>2, <2>3, <2>4, <2>5
  <1>4. CASE r.to = "endpoint"
    <2>1. r.val \in Addresses
      BY <1>4, RequestAssumption
    <2>2. d.configuration # 0 \/ r.val \in {In(0), Out(0)}
      BY <1>4 DEF Refused
    <2>3. Handled(d, r) = StdEndpoint(d, r)
      BY <1>4 DEF Handled
    <2>4. QED
      BY <2>1, <2>2, <2>3, EndpointOnward
  <1>5. CASE r.to = "class"
    <2>1. Handled(d, r) = HidClass(d, r)
      BY <1>5 DEF Handled
    <2>2. CASE r.code = "GET_REPORT"
      <3>1. HidClass(d, r) = Answer(d, "report_byte", 1)
        BY <2>2 DEF HidClass
      <3>2. QED
        BY <2>1, <3>1, AnswerOnward
    <2>3. CASE r.code # "GET_REPORT"
      <3>1. HidClass(d, r) = SetReport(d)
        BY <2>3 DEF HidClass
      <3>2. QED
        BY <2>1, <3>1, ReportOnward
    <2>4. QED
      BY <2>2, <2>3
  <1>6. r.to = "interface" => r.code \in {"GET_DESCRIPTOR", "SET_INTERFACE"}
    BY RequestAssumption
  <1>7. QED
    BY <1>0, <1>1, <1>2, <1>3, <1>4, <1>5, <1>6
----------------------------------------------------------------------------
\* usbd_ep0_setup_handler, from whatever was going on before.
LEMMA SetupLater ==
  ASSUME NEW d, NEW r \in Requests, Open(d)
  PROVE  Later(d, Ep0Setup(d, r))
  <1> DEFINE b == Begun(d, r)
             h == Handled(b, r)
             n == Offered(h)
             o == [h EXCEPT !.residue = n]
             t == [d EXCEPT !.setup = r]
  <1>0. r.n \in Nat
    BY RequestAssumption
  <1>1. Later(d, b) /\ b.setup = r
    <2>1. DeviceType(b) /\ b.dc = d.dc /\ b.configuration = d.configuration /\ b.setup = r
      BY <1>0 DEF Begun, Open, Device, DeviceType, Fields
    <2>2. QED
      BY <2>1 DEF Later, Open, Device
  <1>2. Later(d, t)
    <2>1. DeviceType(t) /\ t.dc = d.dc /\ t.configuration = d.configuration
      BY DEF Open, Device, DeviceType, Fields
    <2>2. QED
      BY <2>1 DEF Later, Open, Device
  <1>3. Ep0Setup(d, r) =
          IF r.dir = "out" /\ r.n > ReqSize THEN StalledIn(t)
          ELSE IF r.dir = "out" /\ r.n > 0 THEN b
          ELSE IF Refused(b, r) THEN StalledIn(b)
          ELSE SendToHost(o)
    BY DEF Ep0Setup
  <1> HIDE DEF b, t
  <1>4. Later(d, StalledIn(t)) /\ Later(d, StalledIn(b))
    BY <1>1, <1>2, StalledInOnward, LaterOn DEF Later, Onward
  <1>5. ASSUME ~Refused(b, r) PROVE Later(d, SendToHost(o))
    <2>1. Onward(b, h)
      BY <1>1, <1>5, HandledOnward DEF Later
    <2> HIDE DEF h
    <2>2. h.len \in Nat /\ h.setup = r /\ DeviceType(h)
      BY <1>1, <2>1 DEF Onward, Later, Open, Device, DeviceType
    <2>3. n \in Nat
      BY <1>0, <2>2, LeastOf DEF Offered
    <2> HIDE DEF n
    <2>4. DeviceType(o) /\ o.dc = h.dc /\ o.configuration = h.configuration /\ o.setup = h.setup
      BY <2>2, <2>3 DEF DeviceType, Fields
    <2> HIDE DEF o
    <2>5. Onward(h, o)
      BY <2>1, <2>4, OnwardOpen, DataReplaced
    <2>6. Onward(o, SendToHost(o))
      BY <2>5, OnwardOpen, SendOnward
    <2>7. QED
      BY <1>1, <2>1, <2>5, <2>6, LaterOn DEF Onward
  <1>6. QED
    BY <1>1, <1>3, <1>4, <1>5

\* A packet of data is taken.
LEMMA PacketOnward ==
  ASSUME NEW d, Open(d)
  PROVE  Onward(d, OutPacket(d))
  <1> DEFINE n == Least(d.dc.cnt[Out(0)], d.residue)
             q == Stored(d.req_data, 1, Loaded(d.pma, d.dc.buf_addr[Out(0)], n))
             e == [[[d EXCEPT !.req_data = q] EXCEPT !.buf = [obj |-> "req_data", off |-> n]]
                     EXCEPT !.residue = d.residue - n]
  <1>1. d.dc.cnt[Out(0)] \in Nat /\ d.residue \in Nat /\ DeviceType(d)
    BY AddressesDiffer DEF AddressFacts, Open, Device, DeviceType, Registers, RegisterType
  <1>2. n \in Nat /\ n <= d.residue
    BY <1>1, LeastOf
  <1>3. DOMAIN q = DOMAIN d.req_data
    BY DEF Stored
  <1>4. OutPacket(d) = e
    <2>1. [[d EXCEPT !.req_data = q] EXCEPT !.buf = [obj |-> "req_data", off |-> n]].residue = d.residue
      BY <1>1 DEF DeviceType, Fields
    <2>2. QED
      BY <2>1 DEF OutPacket
  <1> HIDE DEF n, q
  <1>5. DeviceType(e) /\ e.dc = d.dc /\ e.configuration = d.configuration /\ e.setup = d.setup
    <2>1. d.residue - n \in Nat /\ (d.residue = 0 => d.residue - n = 0)
      BY <1>1, <1>2
    <2>2. QED
      BY <1>1, <1>3, <2>1 DEF DeviceType, Fields
  <1> HIDE DEF e
  <1>6. QED
    BY <1>4, <1>5, DataReplaced

\* usbd_ep0_out_handler.
LEMMA OutOnward ==
  ASSUME NEW d, Open(d)
  PROVE  Onward(d, Ep0Out(d))
  <1> DEFINE p == OutPacket(d)
             q == Rewound(p)
             h == Handled(q, d.setup)
  <1>1. Onward(d, p)
    BY PacketOnward
  <1>2. Ep0Out(d) = IF d.residue = 0 THEN d
                    ELSE IF p.residue > 0 THEN p
                    ELSE IF Refused(q, d.setup) THEN StalledIn(q)
                    ELSE SendToHost(h)
    BY DEF Ep0Out
  <1> HIDE DEF p
  <1>3. Onward(p, q)
    <2>1. DeviceType(q) /\ q.dc = p.dc /\ q.configuration = p.configuration /\ q.setup = p.setup
      BY <1>1 DEF Rewound, Onward, Later, Open, Device, DeviceType, Fields
    <2>2. QED
      BY <1>1, <2>1, OnwardOpen, DataReplaced
  <1> HIDE DEF q
  <1>4. Onward(d, q) /\ Onward(d, StalledIn(q))
    BY <1>1, <1>3, OnwardOn, OnwardOpen, StalledInOnward
  <1>5. ASSUME d.residue # 0, ~Refused(q, d.setup) PROVE Onward(d, SendToHost(h))
    <2>1. d.setup \in Requests
      BY <1>5 DEF Open, Device, DeviceType
    <2>2. Onward(q, h)
      BY <1>4, <1>5, <2>1, OnwardOpen, HandledOnward
    <2> HIDE DEF h
    <2>3. Onward(h, SendToHost(h))
      BY <2>2, OnwardOpen, SendOnward
    <2>4. QED
      BY <1>4, <2>2, <2>3, OnwardOn
  <1>6. QED
    BY <1>1, <1>2, <1>4, <1>5, OnwardSelf

\* usbd_ep0_in_handler.
LEMMA InOnward ==
  ASSUME NEW d, Open(d)
  PROVE  Onward(d, Ep0In(d))
  <1> DEFINE s == IF d.residue # 0 \/ d.zlp THEN SendToHost(d) ELSE d
             e == [s EXCEPT !.daddr = s.dev_addr, !.dev_addr = 0]
  <1>1. Onward(d, s)
    BY SendOnward, OnwardSelf
  <1>2. Ep0In(d) = e \/ Ep0In(d) = s
    BY DEF Ep0In
  <1> HIDE DEF s
  <1>3. DeviceType(e) /\ e.dc = s.dc /\ e.configuration = s.configuration /\ e.setup = s.setup
    BY <1>1 DEF Onward, Later, Open, Device, DeviceType, Fields
  <1> HIDE DEF e
  <1>4. Onward(s, e)
    BY <1>1, <1>3, OnwardOpen, DataReplaced
  <1>5. QED
    BY <1>1, <1>2, <1>4, OnwardOn
----------------------------------------------------------------------------
\* The initial states satisfy it.
LEMMA Started ==
  ASSUME Init
  PROVE  IInv
  <1>1. dev.dc = Initialised
    BY DEF Init
  <1>2. Initialised \in RegisterType
    BY Sizes DEF Initialised, RegisterType, Stats
  <1>3. Layout(Initialised)
    BY AddressesDiffer, Sizes DEF AddressFacts, Initialised, Layout, Placed0, PlacedHid
  <1>4. OpenPlaced(Initialised)
    BY AddressesDiffer DEF AddressFacts, Initialised, OpenPlaced, Used
  <1>5. Registers(dev.dc)
    BY <1>1, <1>2, <1>3, <1>4 DEF Registers
  <1>6. DeviceType(dev) /\ dev.configuration = 0
    BY DEF Init, DeviceType, Fields
  <1>7. HostType
    <2>1. PICK uses \in Profiles :
            host = [ uses |-> uses, stage |-> "idle", req |-> Idle, got |-> <<>>, left |-> 0,
                     addr |-> 0, aborts |-> 0, configured |-> FALSE, halted |-> FALSE,
                     tog |-> [ep \in {In(1), Out(2)} |-> 0] ]
      BY DEF Init
    <2>2. QED
      BY <2>1 DEF HostType, HostRecord
  <1>8. FlagType /\ pending = {}
    BY DEF Init, FlagType
  <1>9. QED
    BY <1>5, <1>6, <1>7, <1>8 DEF IInv, Device

\* A step of the handler on an open device.
LEMMA ServedStep ==
  ASSUME IInv, Open(dev), Later(dev, dev'), pending' \subseteq pending,
         late' \in BOOLEAN, UNCHANGED <<istr_reset, host>>
  PROVE  IInv'
  <1>1. Device(dev)' /\ Placed0(dev.dc)' /\ (PlacedHid(dev.dc) => PlacedHid(dev'.dc))
    BY DEF Later, Open
  <1>2. HostType' /\ FlagType'
    BY DEF IInv, HostType, FlagType
  <1>3. "out2" \in pending' => PlacedHid(dev.dc)'
    BY <1>1 DEF IInv
  <1>4. QED
    BY <1>1, <1>2, <1>3 DEF IInv

LEMMA PendingOpen ==
  ASSUME IInv, pending # {}
  PROVE  Open(dev)
  BY DEF IInv, Open

LEMMA HandlerKeeps ==
  ASSUME IInv, Isr
  PROVE  IInv'
  <1>1. ASSUME ServeSetup PROVE IInv'
    <2>1. Open(dev)
      BY <1>1, PendingOpen DEF ServeSetup
    <2>2. PICK r \in Requests : dev' = Rearmed0(Ep0Setup(dev, r))
      BY <1>1 DEF ServeSetup
    <2>3. Later(dev, Ep0Setup(dev, r))
      BY <2>1, SetupLater
    <2>4. Onward(Ep0Setup(dev, r), dev')
      BY <2>2, <2>3, Rearmed0Onward DEF Later
    <2>5. Later(dev, dev')
      BY <2>3, <2>4, LaterOn DEF Onward
    <2>6. QED
      BY <1>1, <2>1, <2>5, ServedStep DEF ServeSetup
  <1>2. ASSUME ServeOut0 PROVE IInv'
    <2>1. Open(dev)
      BY <1>2, PendingOpen DEF ServeOut0
    <2>2. Onward(dev, Ep0Out(dev))
      BY <2>1, OutOnward
    <2>3. Onward(Ep0Out(dev), dev')
      BY <1>2, <2>2, OnwardOpen, Rearmed0Onward DEF ServeOut0
    <2>4. Later(dev, dev')
      BY <2>2, <2>3, OnwardOn DEF Onward
    <2>5. QED
      BY <1>2, <2>1, <2>4, ServedStep DEF ServeOut0, IInv, FlagType
  <1>3. ASSUME ServeIn0 PROVE IInv'
    <2>1. Open(dev)
      BY <1>3, PendingOpen DEF ServeIn0
    <2>2. Later(dev, dev')
      BY <1>3, <2>1, InOnward DEF ServeIn0, Onward
    <2>3. QED
      BY <1>3, <2>1, <2>2, ServedStep DEF ServeIn0, IInv, FlagType
  <1>4. ASSUME ServeIn1 PROVE IInv'
    <2>1. Open(dev)
      BY <1>4, PendingOpen DEF ServeIn1
    <2>2. Later(dev, dev')
      BY <1>4, <2>1 DEF ServeIn1, Later
    <2>3. QED
      BY <1>4, <2>1, <2>2, ServedStep DEF ServeIn1, IInv, FlagType
  <1>5. ASSUME ServeOut2 PROVE IInv'
    <2> DEFINE b == [i \in 1..Mps |-> <<"answer", i>>]
               d == EpWrite(dev, In(1), b)
    <2>1. Open(dev) /\ PlacedHid(dev.dc)
      BY <1>5, PendingOpen DEF ServeOut2, IInv
    <2>2. Len(b) \in Nat
      BY Sizes
    <2>3. In(1) \in Addresses /\ Out(2) \in Addresses /\ dev.dc.buf_len[In(1)] = Mps
      BY <2>1, AddressesDiffer DEF AddressFacts, PlacedHid
    <2>4. dev' = [d EXCEPT !.dc = EpRearmed(@, Out(2))]
      BY <1>5 DEF ServeOut2
    <2> HIDE DEF b
    <2>5. Onward(dev, d)
      BY <2>1, <2>2, <2>3, WriteOnward
    <2> HIDE DEF d
    <2>6. Open(d) /\ d.dc.buf_len[Out(2)] = Mps
      BY <2>1, <2>5 DEF Onward, Later, PlacedHid
    <2>7. Onward(d, dev')
      BY <2>3, <2>4, <2>6, RearmOnward
    <2>8. Later(dev, dev')
      BY <2>5, <2>7, OnwardOn DEF Onward
    <2>9. QED
      BY <1>5, <2>1, <2>8, ServedStep DEF ServeOut2, IInv, FlagType
  <1>6. ASSUME HandleReset PROVE IInv'
    <2> DEFINE v == OffsetReset(EpOpen(EpOpen(dev.dc, In(0)), Out(0)))
    <2>1. Device(dev) /\ DeviceType(dev) /\ Registers(dev.dc)
      BY DEF IInv, Device
    <2>2. Registers(v) /\ Placed0(v)
      BY <2>1, ZeroOpened
    <2>3. SetAddress(dev, 0).dc = dev.dc
      BY <2>1 DEF SetAddress, DeviceType, Fields
    <2>4. dev' = [[[SetAddress(dev, 0) EXCEPT !.configuration = 0] EXCEPT !.report = NoByte]
                    EXCEPT !.dc = v]
      <3>1. [[SetAddress(dev, 0) EXCEPT !.configuration = 0] EXCEPT !.report = NoByte].dc = dev.dc
        BY <2>1, <2>3 DEF SetAddress, DeviceType, Fields
      <3>2. QED
        BY <1>6, <3>1 DEF HandleReset
    <2> HIDE DEF v
    <2>5. DeviceType(dev') /\ dev'.dc = v /\ dev'.configuration = 0
      BY <2>1, <2>4 DEF SetAddress, DeviceType, Fields
    <2>6. HostType' /\ FlagType' /\ pending' = {}
      BY <1>6 DEF HandleReset, IInv, HostType, FlagType
    <2>7. QED
      BY <2>2, <2>5, <2>6 DEF IInv, Device
  <1>7. QED
    BY <1>1, <1>2, <1>3, <1>4, <1>5, <1>6 DEF Isr
----------------------------------------------------------------------------
\* What the controller and the host do to endpoints that are open.
Touched(d, e) ==
  /\ Alike(d, e) /\ SameBuffers(d.dc, e.dc)
  /\ \A ep \in Used : e.dc.stat[ep] = d.dc.stat[ep] \/ d.dc.stat[ep] # "disabled"
                       \/ d.dc.buf_len[ep] = Mps

LEMMA TouchedKeeps ==
  ASSUME NEW d, NEW e, Device(d), Touched(d, e)
  PROVE  Device(e) /\ (Placed0(d.dc) => Placed0(e.dc)) /\ (PlacedHid(d.dc) => PlacedHid(e.dc))
  <1>1. \A ep \in Used : e.dc.stat[ep] = d.dc.stat[ep] \/ d.dc.buf_len[ep] = Mps
    BY DEF Touched, Device, Registers, OpenPlaced
  <1>2. Registers(e.dc) /\ (Placed0(d.dc) => Placed0(e.dc)) /\ (PlacedHid(d.dc) => PlacedHid(e.dc))
    BY <1>1, StatusGiven DEF Touched, Device
  <1>3. DeviceType(e)
    BY DEF Touched, Alike, Device, DeviceType
  <1>4. QED
    BY <1>2, <1>3 DEF Touched, Alike, Device

LEMMA HostStep ==
  ASSUME IInv, HostType', FlagType', Touched(dev, dev'),
         pending' # {} => Placed0(dev.dc), "out2" \in pending' => PlacedHid(dev.dc)
  PROVE  IInv'
  <1>1. /\ Device(dev') /\ (Placed0(dev.dc) => Placed0(dev'.dc))
        /\ PlacedHid(dev.dc) => PlacedHid(dev'.dc)
    BY TouchedKeeps DEF IInv
  <1>2. QED
    BY <1>1 DEF IInv

LEMMA DoneType ==
  ASSUME NEW h, HostRecord(h)
  PROVE  HostRecord(Done(h))
  BY DEF HostRecord, Done

LEMMA AcknowledgedType ==
  ASSUME NEW h, HostRecord(h)
  PROVE  HostRecord(Acknowledged(h))
  <1> DEFINE d == Done(h)
             fresh == [ep \in {In(1), Out(2)} |-> 0]
             same == h.req.val = (IF h.req.code = "SET_INTERFACE" THEN 0 ELSE 1)
  <1>1. HostRecord(d)
    BY DoneType
  <1>2. CASE h.req.code = "SET_ADDRESS"
    <2>1. Acknowledged(h) = [d EXCEPT !.addr = h.req.val]
      BY <1>2 DEF Acknowledged
    <2> HIDE DEF d
    <2>2. QED
      BY <1>1, <2>1 DEF HostRecord
  <1>3. CASE h.req.code = "SET_CONFIGURATION" \/ h.req.code = "SET_INTERFACE"
    <2>1. Acknowledged(h) = [d EXCEPT !.configured = same, !.halted = FALSE, !.tog = fresh]
      BY <1>3 DEF Acknowledged
    <2> HIDE DEF d, same, fresh
    <2>2. QED
      BY <1>1, <2>1 DEF HostRecord
  <1>4. CASE h.req.code = "CLEAR_HALT" /\ h.req.val \in DOMAIN h.tog
    <2>1. Acknowledged(h) = [d EXCEPT !.halted = TRUE, !.tog[h.req.val] = 0]
      BY <1>4 DEF Acknowledged
    <2> HIDE DEF d
    <2>2. QED
      BY <1>1, <2>1 DEF HostRecord
  <1>5. CASE /\ h.req.code \notin {"SET_ADDRESS", "SET_CONFIGURATION", "SET_INTERFACE"}
             /\ ~(h.req.code = "CLEAR_HALT" /\ h.req.val \in DOMAIN h.tog)
    <2>1. Acknowledged(h) = d
      BY <1>5 DEF Acknowledged
    <2>2. QED
      BY <1>1, <2>1
  <1>6. QED
    BY <1>2, <1>3, <1>4, <1>5

\* Registers after one status and a toggle, or two statuses and a count, changed.
LEMMA StatusToggle ==
  ASSUME NEW c \in RegisterType, NEW ep \in Addresses, NEW x \in Stats
  PROVE  Given(c, [c.stat EXCEPT ![ep] = x],
               [[c EXCEPT !.stat = [c.stat EXCEPT ![ep] = x]]
                   EXCEPT !.dtog = [c.dtog EXCEPT ![ep] = 1 - c.dtog[ep]]])
  <1> DEFINE st == [c.stat EXCEPT ![ep] = x]
             dt == [c.dtog EXCEPT ![ep] = 1 - c.dtog[ep]]
  <1>1. st \in [Addresses -> Stats] /\ dt \in [Addresses -> 0..1]
    BY DEF RegisterType
  <1> HIDE DEF st, dt
  <1>2. Given(c, st, [[c EXCEPT !.stat = st] EXCEPT !.dtog = dt])
    BY <1>1, StatusSet
  <1>3. QED
    BY <1>2 DEF st, dt

LEMMA CountAlone ==
  ASSUME NEW c \in RegisterType, NEW ep \in Addresses, NEW n \in Nat
  PROVE  Given(c, c.stat, [c EXCEPT !.cnt[ep] = n])
  <1> DEFINE cn == [c.cnt EXCEPT ![ep] = n]
  <1>1. cn \in [Addresses -> Nat]
    BY DEF RegisterType
  <1> HIDE DEF cn
  <1>2. Given(c, c.stat, [c EXCEPT !.cnt = cn])
    BY <1>1 DEF RegisterType, Given, SameBuffers
  <1>3. QED
    BY <1>2 DEF cn

\* Two changes after another, and the change of a device they make.
LEMMA GivenOn ==
  ASSUME NEW c, NEW s, NEW d, NEW t, NEW e, Given(c, s, d), Given(d, t, e)
  PROVE  Given(c, t, e)
  BY DEF Given, SameBuffers

LEMMA HostSetupKeeps ==
  ASSUME IInv, NEW r \in host.uses, HostSetup(r)
  PROVE  IInv'
  <1> DEFINE c0 == dev.dc
             c1 == [c0 EXCEPT !.stat[In(0)] = "nak"]
             c2 == [c1 EXCEPT !.stat[Out(0)] = "nak"]
             c3 == [c2 EXCEPT !.cnt[Out(0)] = 1]
             m  == Stored(dev.pma, dev.dc.buf_addr[Out(0)], <<<<"setup", r>>>>)
             w  == [dev.written EXCEPT ![In(0)] = <<>>]
             e  == [[[dev EXCEPT !.pma = m] EXCEPT !.dc = c3] EXCEPT !.written = w]
  <1>1. Device(dev) /\ Registers(c0) /\ c0 \in RegisterType
    BY DEF IInv, Device, Registers
  <1>2. In(0) \in Addresses /\ Out(0) \in Addresses /\ In(0) # Out(0) /\ "nak" \in Stats
    BY AddressesDiffer DEF AddressFacts, Stats
  <1>3. Placed0(c0)
    <2>1. c0.stat[Out(0)] # "disabled"
      BY DEF HostSetup
    <2>2. c0.buf_len[Out(0)] = Mps
      BY <1>1, <2>1 DEF Registers, OpenPlaced, Used
    <2>3. QED
      BY <1>1, <2>2, Sizes DEF Registers, Layout, Placed0
  <1>4. Given(c0, [c0.stat EXCEPT ![In(0)] = "nak"], c1)
    BY <1>1, <1>2, StatusOnly
  <1>5. dev' = e
    <2>1. Fields \subseteq DOMAIN dev
      BY <1>1 DEF Device, DeviceType
    <2>2. /\ [dev EXCEPT !.pma = m].dc = c0
          /\ [[dev EXCEPT !.pma = m] EXCEPT !.dc = c1].dc = c1
          /\ [[[dev EXCEPT !.pma = m] EXCEPT !.dc = c1] EXCEPT !.dc = c2].dc = c2
          /\ [[dev EXCEPT !.pma = m] EXCEPT !.dc = c3].written = dev.written
          /\ [[[[dev EXCEPT !.pma = m] EXCEPT !.dc = c1] EXCEPT !.dc = c2] EXCEPT !.dc = c3]
               = [[dev EXCEPT !.pma = m] EXCEPT !.dc = c3]
      <3> HIDE DEF c0, c1, c2, c3, m
      <3>1. QED
        BY <2>1 DEF Fields, c0
    <2>3. dev' = [[[[[dev EXCEPT !.pma = m] EXCEPT !.dc = c1] EXCEPT !.dc = c2]
                     EXCEPT !.dc = c3] EXCEPT !.written = w]
      BY <2>2 DEF HostSetup
    <2>4. QED
      BY <2>2, <2>3
  <1> HIDE DEF c0, c1
  <1>6. c1 \in RegisterType
    BY <1>4 DEF Given, SameBuffers
  <1>7. Given(c1, [c1.stat EXCEPT ![Out(0)] = "nak"], c2)
    BY <1>2, <1>6, StatusOnly
  <1> HIDE DEF c2
  <1>8. c2 \in RegisterType
    BY <1>7 DEF Given, SameBuffers
  <1>9. Given(c2, c2.stat, c3)
    BY <1>2, <1>8, CountAlone
  <1> HIDE DEF c3, m, w
  <1>10. SameBuffers(c0, c3) /\ c3.stat = [[c0.stat EXCEPT ![In(0)] = "nak"] EXCEPT ![Out(0)] = "nak"]
    BY <1>4, <1>7, <1>9 DEF Given, SameBuffers
  <1>11. Alike(dev, dev') /\ dev'.dc = c3
    <2>1. Alike(dev, e) /\ e.dc = c3
      BY <1>1 DEF Alike, Device, DeviceType, Fields
    <2> HIDE DEF e
    <2>2. QED
      BY <1>5, <2>1
  <1>12. Touched(dev, dev')
    <2>1. \A ep \in Used : c3.stat[ep] = c0.stat[ep] \/ c0.buf_len[ep] = Mps
      BY <1>1, <1>3, <1>10, AddressesDiffer DEF AddressFacts, Placed0, Used, RegisterType
    <2>2. QED
      BY <1>10, <1>11, <2>1 DEF Touched, c0
  <1>13. HostType'
    <2>1. r \in Requests
      BY DEF IInv, HostType, HostRecord, Requests
    <2>2. r.n \in Nat
      BY <2>1, RequestAssumption
    <2>3. FirstStage(r) \in {"in_status", "in_data", "out_data"}
      BY DEF FirstStage
    <2> DEFINE f  == FirstStage(r)
               n  == IF r.dir = "out" THEN r.n ELSE 0
               a  == IF host.stage = "idle" THEN host.aborts ELSE host.aborts + 1
               cf == host.configured /\ r.code \notin Selects
    <2>4. n \in Nat
      BY <2>2
    <2>5. host' = [[[[[[host EXCEPT !.stage = f] EXCEPT !.req = r] EXCEPT !.got = <<>>]
                     EXCEPT !.left = n] EXCEPT !.aborts = a] EXCEPT !.configured = cf]
      <3>1. /\ [[[[host EXCEPT !.stage = f] EXCEPT !.req = r] EXCEPT !.got = <<>>]
                 EXCEPT !.left = n].aborts = host.aborts
            /\ [[[[[host EXCEPT !.stage = f] EXCEPT !.req = r] EXCEPT !.got = <<>>]
                 EXCEPT !.left = n] EXCEPT !.aborts = a].configured = host.configured
        <4> HIDE DEF f, n, a
        <4>1. QED
          BY DEF IInv, HostType, HostRecord
      <3>2. QED
        BY <3>1 DEF HostSetup
    <2> HIDE DEF n, a, cf, f
    <2>6. f \in {"in_status", "in_data", "out_data"}
      BY <2>3 DEF f
    <2>7. QED
      BY <2>4, <2>5, <2>6 DEF IInv, HostType, HostRecord
  <1>14. FlagType' /\ (pending' # {} => Placed0(dev.dc)) /\ ("out2" \in pending' => PlacedHid(dev.dc))
    BY <1>3 DEF c0, HostSetup, IInv, FlagType
  <1>15. QED
    BY <1>12, <1>13, <1>14, HostStep

LEMMA HostInKeeps ==
  ASSUME IInv, HostIn
  PROVE  IInv'
  <1> DEFINE c == dev.dc
             v == [c EXCEPT !.stat[In(0)] = "nak"]
             w == [dev.written EXCEPT ![In(0)] = <<>>]
             e == [[dev EXCEPT !.dc = v] EXCEPT !.written = w]
  <1>1. Device(dev) /\ Registers(c) /\ c \in RegisterType
    BY DEF IInv, Device, Registers
  <1>2. c.buf_len[In(0)] = Mps /\ Placed0(c)
    <2>1. c.stat[In(0)] = "valid"
      BY DEF HostIn
    <2>2. c.buf_len[In(0)] = Mps
      BY <1>1, <2>1 DEF Registers, OpenPlaced, Used
    <2>3. QED
      BY <1>1, <2>2, Sizes DEF Registers, Layout, Placed0
  <1>3. Given(c, [c.stat EXCEPT ![In(0)] = "nak"], v)
    BY <1>1, StatusOnly, AddressesDiffer DEF AddressFacts, Stats
  <1>4. dev' = e
    <2>1. [dev EXCEPT !.dc = v].written = dev.written
      BY <1>1 DEF Device, DeviceType, Fields
    <2>2. QED
      BY <2>1 DEF HostIn
  <1> HIDE DEF v, w
  <1>5. Alike(dev, e) /\ e.dc = v
    BY <1>1 DEF Alike, Device, DeviceType, Fields
  <1> HIDE DEF e
  <1>6. Touched(dev, dev')
    <2>1. \A ep \in Used : v.stat[ep] = c.stat[ep] \/ c.buf_len[ep] = Mps
      BY <1>1, <1>2, <1>3, AddressesDiffer DEF AddressFacts, Given, Used, RegisterType
    <2>2. QED
      BY <1>3, <1>4, <1>5, <2>1 DEF Touched, Given
  <1>7. HostType'
    <2> DEFINE packet == Packet(dev.dc, dev.pma, In(0))
               got == host.got \o packet
               st == IF Len(packet) < Mps \/ Len(got) >= host.req.n THEN "out_status" ELSE host.stage
    <2>1. HostRecord(host)
      BY DEF IInv, HostType
    <2>2. CASE host.stage = "in_status"
      <3>1. host' = Acknowledged(host)
        BY <2>2 DEF HostIn
      <3>2. QED
        BY <2>1, <3>1, AcknowledgedType DEF HostType
    <2>3. CASE host.stage # "in_status"
      <3>1. [host EXCEPT !.got = got].stage = host.stage
        <4> HIDE DEF got
        <4>1. QED
          BY <2>1 DEF HostRecord
      <3>2. host' = [[host EXCEPT !.got = got] EXCEPT !.stage = st]
        BY <2>3, <3>1 DEF HostIn
      <3>3. st \in {"idle", "in_data", "in_status", "out_data", "out_status"}
        BY <2>1 DEF HostRecord
      <3> HIDE DEF got, st
      <3>4. QED
        BY <2>1, <3>2, <3>3 DEF HostType, HostRecord
    <2>4. QED
      BY <2>2, <2>3
  <1>8. FlagType' /\ (pending' # {} => Placed0(dev.dc)) /\ ("out2" \in pending' => PlacedHid(dev.dc))
    BY <1>2 DEF c, HostIn, IInv, FlagType
  <1>9. QED
    BY <1>6, <1>7, <1>8, HostStep

LEMMA HostOutKeeps ==
  ASSUME IInv, HostOut
  PROVE  IInv'
  <1> DEFINE n  == Least(Mps, host.left)
             from == host.req.n - host.left
             c  == dev.dc
             c1 == [c EXCEPT !.cnt[Out(0)] = n]
             v  == [c1 EXCEPT !.stat[Out(0)] = "nak"]
             m  == Stored(dev.pma, dev.dc.buf_addr[Out(0)],
                          SubSeq(ReportSent(host.req.n), from + 1, from + n))
             e  == [[dev EXCEPT !.pma = m] EXCEPT !.dc = v]
  <1>1. Device(dev) /\ Registers(c) /\ c \in RegisterType
    BY DEF IInv, Device, Registers
  <1>2. c.buf_len[Out(0)] = Mps /\ Placed0(c)
    <2>1. c.stat[Out(0)] = "valid"
      BY DEF HostOut
    <2>2. c.buf_len[Out(0)] = Mps
      BY <1>1, <2>1 DEF Registers, OpenPlaced, Used
    <2>3. QED
      BY <1>1, <2>2, Sizes DEF Registers, Layout, Placed0
  <1>3. HostRecord(host) /\ n \in Nat /\ n <= host.left /\ host.left - n \in Nat
    <2>1. HostRecord(host) /\ host.left \in Nat
      BY DEF IInv, HostType, HostRecord
    <2>2. n \in Nat /\ n <= host.left
      BY <2>1, Sizes, LeastOf
    <2>3. QED
      BY <2>1, <2>2
  <1>4. Out(0) \in Addresses /\ "nak" \in Stats
    BY AddressesDiffer DEF AddressFacts, Stats
  <1>5. dev' = e
    <2>1. /\ [dev EXCEPT !.pma = m].dc = c
          /\ [[dev EXCEPT !.pma = m] EXCEPT !.dc = c1].dc = c1
          /\ [[[dev EXCEPT !.pma = m] EXCEPT !.dc = c1] EXCEPT !.dc = v] = e
      <3> HIDE DEF m, c1, v
      <3>1. QED
        BY <1>1 DEF Device, DeviceType, Fields
    <2>2. dev' = [[[dev EXCEPT !.pma = m] EXCEPT !.dc = c1] EXCEPT !.dc = v]
      BY <2>1 DEF HostOut
    <2>3. QED
      BY <2>1, <2>2
  <1> HIDE DEF m
  <1>6. Given(c, c.stat, c1)
    <2> HIDE DEF n
    <2>1. QED
      BY <1>1, <1>3, <1>4, CountAlone
  <1> HIDE DEF c1
  <1>7. c1 \in RegisterType
    BY <1>6 DEF Given, SameBuffers
  <1>8. Given(c1, [c1.stat EXCEPT ![Out(0)] = "nak"], v)
    BY <1>4, <1>7, StatusOnly
  <1> HIDE DEF v
  <1>9. Alike(dev, e) /\ e.dc = v
    BY <1>1 DEF Alike, Device, DeviceType, Fields
  <1> HIDE DEF e
  <1>10. Touched(dev, dev')
    <2>1. SameBuffers(c, v) /\ v.stat = [c.stat EXCEPT ![Out(0)] = "nak"]
      BY <1>6, <1>8 DEF Given, SameBuffers
    <2>2. \A ep \in Used : v.stat[ep] = c.stat[ep] \/ c.buf_len[ep] = Mps
      BY <1>1, <1>2, <2>1, AddressesDiffer DEF AddressFacts, Used, RegisterType
    <2>3. QED
      BY <1>5, <1>9, <2>1, <2>2 DEF Touched
  <1>11. HostType'
    <2> HIDE DEF n
    <2>1. CASE host.stage = "out_status"
      <3>1. host' = Done(host)
        BY <2>1 DEF HostOut
      <3>2. QED
        BY <1>3, <3>1, DoneType DEF HostType
    <2>2. CASE host.stage # "out_status"
      <3> DEFINE st == IF host.left = n THEN "in_status" ELSE host.stage
      <3>1. host' = [[host EXCEPT !.left = host.left - n] EXCEPT !.stage = st]
        <4>1. [host EXCEPT !.left = host.left - n].stage = host.stage
          BY <1>3 DEF HostRecord
        <4>2. QED
          BY <2>2, <4>1 DEF HostOut, n
      <3>2. st \in {"idle", "in_data", "in_status", "out_data", "out_status"}
        BY <1>3 DEF HostRecord
      <3> HIDE DEF st
      <3>3. QED
        BY <1>3, <3>1, <3>2 DEF HostType, HostRecord
    <2>3. QED
      BY <2>1, <2>2
  <1>12. FlagType' /\ (pending' # {} => Placed0(dev.dc)) /\ ("out2" \in pending' => PlacedHid(dev.dc))
    BY <1>2 DEF c, HostOut, IInv, FlagType
  <1>13. QED
    BY <1>10, <1>11, <1>12, HostStep

LEMMA HostStalledKeeps ==
  ASSUME IInv, HostStalled
  PROVE  IInv'
  <1>1. HostType'
    BY DoneType DEF HostStalled, IInv, HostType
  <1>2. QED
    BY <1>1 DEF HostStalled, IInv, FlagType

LEMMA HostReportKeeps ==
  ASSUME IInv, HostReport
  PROVE  IInv'
  <1> DEFINE c == dev.dc
             v == [[c EXCEPT !.stat = [c.stat EXCEPT ![Out(2)] = "nak"]]
                     EXCEPT !.dtog = [c.dtog EXCEPT ![Out(2)] = 1 - c.dtog[Out(2)]]]
             m == Stored(dev.pma, dev.dc.buf_addr[Out(2)], [i \in 1..Mps |-> <<"report", i>>])
             e == [[dev EXCEPT !.pma = m] EXCEPT !.dc = v]
             h == [host EXCEPT !.tog[Out(2)] = 1 - @]
  <1>1. Device(dev) /\ Registers(c) /\ c \in RegisterType
    BY DEF IInv, Device, Registers
  <1>2. c.buf_len[Out(2)] = Mps /\ PlacedHid(c) /\ Placed0(c)
    <2>1. c.stat[Out(2)] = "valid"
      BY DEF HostReport
    <2>2. c.buf_len[Out(2)] = Mps
      BY <1>1, <2>1 DEF Registers, OpenPlaced, Used
    <2>3. QED
      BY <1>1, <2>2, Sizes DEF Registers, Layout, PlacedHid
  <1>3. Given(c, [c.stat EXCEPT ![Out(2)] = "nak"], v)
    BY <1>1, StatusToggle, AddressesDiffer DEF AddressFacts, Stats
  <1>4. dev' = e \/ dev' = dev
    <2> DEFINE c1 == [c EXCEPT !.stat = [c.stat EXCEPT ![Out(2)] = "nak"]]
    <2>1. c1.dtog = c.dtog
      BY <1>1 DEF RegisterType
    <2>2. /\ [dev EXCEPT !.pma = m].dc = c
          /\ [[dev EXCEPT !.pma = m] EXCEPT !.dc = c1].dc = c1
          /\ [[[dev EXCEPT !.pma = m] EXCEPT !.dc = c1] EXCEPT !.dc = v] = e
      <3> HIDE DEF m, c1, v
      <3>1. QED
        BY <1>1 DEF Device, DeviceType, Fields
    <2>3. CASE host.tog[Out(2)] = dev.dc.dtog[Out(2)]
      <3>1. dev' = [[[dev EXCEPT !.pma = m] EXCEPT !.dc = c1] EXCEPT !.dc = v]
        <4>1. dev' = [dev EXCEPT !.pma = m, !.dc.stat[Out(2)] = "nak", !.dc.dtog[Out(2)] = 1 - @]
          <5>1. m = Stored(dev.pma, dev.dc.buf_addr[Out(2)], [i \in 1..Mps |-> <<"report", i>>])
            OBVIOUS
          <5> HIDE DEF m
          <5>2. QED
            BY <2>3, <5>1 DEF HostReport
        <4> HIDE DEF m
        <4>2. QED
          BY <2>1, <2>2, <4>1
      <3>2. QED
        BY <2>2, <3>1
    <2>4. CASE host.tog[Out(2)] # dev.dc.dtog[Out(2)]
      BY <2>4 DEF HostReport
    <2>5. QED
      BY <2>3, <2>4
  <1> HIDE DEF m, v
  <1>5. Alike(dev, e) /\ e.dc = v
    BY <1>1 DEF Alike, Device, DeviceType, Fields
  <1> HIDE DEF e
  <1>6. Touched(dev, dev')
    <2>1. \A ep \in Used : v.stat[ep] = c.stat[ep] \/ c.buf_len[ep] = Mps
      BY <1>1, <1>2, <1>3, AddressesDiffer DEF AddressFacts, Given, Used, RegisterType
    <2>2. Touched(dev, e)
      BY <1>3, <1>5, <2>1 DEF Touched, Given
    <2>3. Touched(dev, dev)
      BY <1>1 DEF Touched, SameBuffers, Alike, Device, DeviceType
    <2>4. QED
      BY <1>4, <2>2, <2>3
  <1>7. HostType'
    <2>1. host' = h
      BY DEF HostReport
    <2>2. QED
      BY <2>1 DEF IInv, HostType, HostRecord
  <1>8. FlagType' /\ Placed0(dev.dc) /\ PlacedHid(dev.dc)
    BY <1>2 DEF c, HostReport, IInv, FlagType
  <1>9. QED
    BY <1>6, <1>7, <1>8, HostStep

LEMMA HostAnswerKeeps ==
  ASSUME IInv, HostAnswer
  PROVE  IInv'
  <1> DEFINE c == dev.dc
             v == [[c EXCEPT !.stat = [c.stat EXCEPT ![In(1)] = "nak"]]
                     EXCEPT !.dtog = [c.dtog EXCEPT ![In(1)] = 1 - c.dtog[In(1)]]]
             w == [dev.written EXCEPT ![In(1)] = <<>>]
             e == [[dev EXCEPT !.dc = v] EXCEPT !.written = w]
             h == [host EXCEPT !.tog[In(1)] = 1 - @]
  <1>1. Device(dev) /\ Registers(c) /\ c \in RegisterType
    BY DEF IInv, Device, Registers
  <1>2. c.buf_len[In(1)] = Mps /\ Placed0(c)
    <2>1. c.stat[In(1)] = "valid"
      BY DEF HostAnswer
    <2>2. c.buf_len[In(1)] = Mps
      BY <1>1, <2>1 DEF Registers, OpenPlaced, Used
    <2>3. QED
      BY <1>1, <2>2, Sizes DEF Registers, Layout, PlacedHid
  <1>3. Given(c, [c.stat EXCEPT ![In(1)] = "nak"], v)
    BY <1>1, StatusToggle, AddressesDiffer DEF AddressFacts, Stats
  <1>4. dev' = e
    <2> DEFINE c1 == [c EXCEPT !.stat = [c.stat EXCEPT ![In(1)] = "nak"]]
    <2>1. c1.dtog = c.dtog
      BY <1>1 DEF RegisterType
    <2>2. /\ [dev EXCEPT !.dc = c1].dc = c1
          /\ [[dev EXCEPT !.dc = c1] EXCEPT !.dc = v] = [dev EXCEPT !.dc = v]
          /\ [dev EXCEPT !.dc = v].written = dev.written
      <3> HIDE DEF c1, v
      <3>1. QED
        BY <1>1 DEF Device, DeviceType, Fields
    <2>3. dev' = [[[dev EXCEPT !.dc = c1] EXCEPT !.dc = v] EXCEPT !.written = w]
      BY <2>1, <2>2 DEF HostAnswer
    <2>4. QED
      BY <2>2, <2>3
  <1> HIDE DEF w, v
  <1>5. Alike(dev, e) /\ e.dc = v
    BY <1>1 DEF Alike, Device, DeviceType, Fields
  <1> HIDE DEF e
  <1>6. Touched(dev, dev')
    <2>1. \A ep \in Used : v.stat[ep] = c.stat[ep] \/ c.buf_len[ep] = Mps
      BY <1>1, <1>2, <1>3, AddressesDiffer DEF AddressFacts, Given, Used, RegisterType
    <2>2. QED
      BY <1>3, <1>4, <1>5, <2>1 DEF Touched, Given
  <1>7. HostType'
    <2>1. host' = h \/ host' = host
      BY DEF HostAnswer
    <2>2. QED
      BY <2>1 DEF IInv, HostType, HostRecord
  <1>8. FlagType' /\ Placed0(dev.dc) /\ ("out2" \in pending' => PlacedHid(dev.dc))
    BY <1>2 DEF c, HostAnswer, IInv, FlagType
  <1>9. QED
    BY <1>6, <1>7, <1>8, HostStep

\* A bus reset closes every endpoint and leaves packet memory as it is.
LEMMA HostResetKeeps ==
  ASSUME IInv, HostReset
  PROVE  IInv'
  <1> DEFINE c == dev.dc
             v == Cleared(c)
             e == [[[dev EXCEPT !.dc = v] EXCEPT !.daddr = -1] EXCEPT !.written = NothingWritten]
  <1>1. Device(dev) /\ Registers(c) /\ c \in RegisterType
    BY DEF IInv, Device, Registers
  <1>2. Given(c, [ep \in Addresses |-> "disabled"], v)
    <2> DEFINE st == [ep \in Addresses |-> "disabled"]
               dt == [ep \in Addresses |-> 0]
    <2>1. st \in [Addresses -> Stats] /\ dt \in [Addresses -> 0..1]
      BY DEF Stats
    <2>2. v = [[c EXCEPT !.stat = st] EXCEPT !.dtog = dt]
      BY DEF Cleared
    <2> HIDE DEF st, dt, v
    <2>3. Given(c, st, [[c EXCEPT !.stat = st] EXCEPT !.dtog = dt])
      BY <1>1, <2>1, StatusSet
    <2>4. Given(c, st, v)
      BY <2>2, <2>3
    <2>5. QED
      BY <2>4 DEF st
  <1> HIDE DEF v
  <1>3. \A ep \in Used : v.stat[ep] = "disabled"
    BY <1>2, AddressesDiffer DEF AddressFacts, Used, Given
  <1>4. Registers(v) /\ (PlacedHid(c) => PlacedHid(v))
    BY <1>1, <1>2, <1>3, StatusGiven DEF Given
  <1>5. dev' = e
    BY DEF HostReset, v
  <1>6. DeviceType(e) /\ e.dc = v /\ e.configuration = dev.configuration
    BY <1>1 DEF Device, DeviceType, Fields
  <1> HIDE DEF e
  <1>7. Device(dev')
    BY <1>1, <1>4, <1>5, <1>6 DEF Device
  <1>8. HostType'
    <2> DEFINE d == Done(host)
               fresh == [ep \in {In(1), Out(2)} |-> 0]
    <2>1. HostRecord(d)
      BY DoneType DEF IInv, HostType
    <2>2. host' = [[[[d EXCEPT !.addr = 0] EXCEPT !.configured = FALSE] EXCEPT !.halted = FALSE]
                     EXCEPT !.tog = fresh]
      BY DEF HostReset
    <2> HIDE DEF d, fresh
    <2>3. QED
      BY <2>1, <2>2 DEF HostType, HostRecord
  <1>9. FlagType' /\ pending' = {}
    BY DEF HostReset, FlagType
  <1>10. QED
    BY <1>7, <1>8, <1>9 DEF IInv

\* Every step keeps the inductive invariant.
LEMMA Kept ==
  ASSUME IInv, [Next]_vars
  PROVE  IInv'
  <1>1. CASE Isr
    BY <1>1, HandlerKeeps
  <1>2. CASE Host
    BY <1>2, HostSetupKeeps, HostInKeeps, HostOutKeeps, HostStalledKeeps, HostReportKeeps,
       HostAnswerKeeps, HostResetKeeps DEF Host
  <1>3. CASE UNCHANGED vars
    BY <1>3 DEF vars, IInv, HostType, FlagType
  <1>4. QED
    BY <1>1, <1>2, <1>3 DEF Next
----------------------------------------------------------------------------
\* The inductive invariant holds in every state.
THEOREM Invariance == Spec => []IInv
  <1>1. QED
    BY Started, Kept, PTL DEF Spec

\* The controls keep to their values, whatever the host asks for: the address and
\* the configuration, the endpoints' statuses, what is left of a transfer.
THEOREM TypeCorrect == Spec => []TypeOK
  <1>1. IInv => TypeOK
    BY DEF IInv, TypeOK, Device, DeviceType, Registers, RegisterType, Stats, FlagType, HostType,
       HostRecord
  <1>2. QED
    BY <1>1, Invariance, PTL

\* An endpoint that may send or receive has its own packet of memory inside packet
\* memory, and endpoints opened together have theirs apart.
THEOREM BuffersGood == Spec => []BuffersHeld
  <1>1. IInv => BuffersHeld
    <2>1. SUFFICES ASSUME IInv PROVE BuffersHeld
      OBVIOUS
    <2>2. \A ep \in Used : dev.dc.stat[ep] \in {"nak", "valid"} => dev.dc.buf_len[ep] = Mps
      BY <2>1 DEF IInv, Device, Registers, OpenPlaced
    <2>3. dev.dc.buf_len[In(0)] = Mps \/ dev.dc.buf_len[Out(0)] = Mps
            => /\ dev.dc.buf_addr[In(0)] = BtableSize
               /\ dev.dc.buf_addr[Out(0)] = BtableSize + Mps
      BY <2>1, Sizes DEF IInv, Device, Registers, Layout, Placed0
    <2>4. dev.dc.buf_len[In(1)] = Mps \/ dev.dc.buf_len[Out(2)] = Mps
            => /\ dev.dc.buf_addr[Out(2)] = BtableSize
               /\ dev.dc.buf_addr[In(1)] = BtableSize + Mps
      BY <2>1, Sizes DEF IInv, Device, Registers, Layout, PlacedHid
    <2>5. QED
      BY <2>2, <2>3, <2>4, Sizes DEF BuffersHeld, Ready, Used
  <1>2. QED
    BY <1>1, Invariance, PTL

\* usbd_event_notify_handler puts pma_offset back after endpoint 0 was placed: in
\* every configured device the HID endpoints' buffers are endpoint 0's.
THEOREM Overlaps ==
  Spec => [](dev.configuration # 0 =>
               /\ dev.dc.buf_addr[Out(2)] = dev.dc.buf_addr[In(0)]
               /\ dev.dc.buf_addr[In(1)] = dev.dc.buf_addr[Out(0)])
  <1>1. IInv => (dev.configuration # 0 =>
                   /\ dev.dc.buf_addr[Out(2)] = dev.dc.buf_addr[In(0)]
                   /\ dev.dc.buf_addr[In(1)] = dev.dc.buf_addr[Out(0)])
    BY DEF IInv, Device, Registers, Layout
  <1>2. QED
    BY <1>1, Invariance, PTL
----------------------------------------------------------------------------
Hid == {In(1), Out(2)}

\* What the handlers leave alone on the HID endpoints, and what opening makes of
\* them.
HidKept(c, e) ==
  \A ep \in Hid : e.dtog[ep] = c.dtog[ep] /\ (c.stat[ep] # "disabled" => e.stat[ep] # "disabled")
Zeroed(c) == \A ep \in Hid : c.dtog[ep] = 0 /\ c.stat[ep] # "disabled"

\* A request that opens the HID endpoints.
Opens(r) == r.code \in Selects /\ r.val = (IF r.code = "SET_INTERFACE" THEN 0 ELSE 1)

\* What a handler leaves of a control transfer.
Mild(d, e) ==
  /\ e.setup = d.setup /\ e.residue = d.residue /\ e.zlp = d.zlp
  /\ DOMAIN e.pma = DOMAIN d.pma /\ e.daddr \in {d.daddr, 0}

LEMMA HidUsed == Hid \subseteq Addresses /\ In(0) \notin Hid /\ Out(0) \notin Hid
  BY AddressesDiffer DEF AddressFacts, Hid

LEMMA MildSelf == ASSUME NEW d PROVE Mild(d, d)
  BY DEF Mild

\* Only the registers change.
LEMMA DcMild ==
  ASSUME NEW d, NEW v, DeviceType(d)
  PROVE  Mild(d, [d EXCEPT !.dc = v]) /\ [d EXCEPT !.dc = v].dc = v
  BY DEF Mild, DeviceType, Fields

LEMMA HandledMild ==
  ASSUME NEW d, NEW r \in Requests, DeviceType(d)
  PROVE  Mild(d, Handled(d, r))
  <1>0. /\ r.to \in {"device", "interface", "endpoint", "class"}
        /\ r.to = "interface" /\ r.code # "SET_INTERFACE" =>
             r.code = "GET_DESCRIPTOR" /\ r.val \in {"report", "hid", "physical"}
        /\ r.to = "device" =>
             r.code \in {"GET_DESCRIPTOR", "GET_STATUS", "SET_ADDRESS", "SET_CONFIGURATION"}
    BY RequestAssumption
  <1>1. \A obj, n : Mild(d, Answer(d, obj, n))
    BY DEF Answer, Mild, DeviceType, Fields
  <1>2. Mild(d, d) /\ Mild(d, SetReport(d)) /\ Mild(d, SetAddress(d, r.val))
    BY DEF SetReport, SetAddress, Mild, DeviceType, Fields
  <1>3. Mild(d, SetInterface(d, r.val)) /\ Mild(d, StdEndpoint(d, r))
    BY DcMild DEF SetInterface, StdEndpoint
  <1>4. Mild(d, SetConfiguration(d, r.val))
    BY DEF SetConfiguration, Mild, DeviceType, Fields
  <1>5. r.to = "interface" => Mild(d, Handled(d, r))
    BY <1>0, <1>1, <1>2, <1>3 DEF Handled, HidDescriptor
  <1>6. r.to = "device" => Mild(d, Handled(d, r))
    BY <1>0, <1>1, <1>2, <1>4 DEF Handled, StdDevice
  <1>7. r.to \in {"endpoint", "class"} => Mild(d, Handled(d, r))
    BY <1>1, <1>2, <1>3 DEF Handled, HidClass
  <1>8. QED
    BY <1>0, <1>5, <1>6, <1>7

\* A request to an endpoint: a halt does not close it, and its end reaches the
\* other direction of the endpoint number, which is no HID endpoint.
LEMMA StallKept ==
  ASSUME NEW c \in RegisterType, NEW ep \in Used
  PROVE  HidKept(c, EpSetStall(c, ep)) /\ HidKept(c, EpClearStall(c, ep))
  <1>1. Hid \subseteq Addresses /\ Opposite(ep) \in Addresses \ Hid /\ ep \in Addresses
    BY DEF Hid, Used, Addresses, In, Out, IsOut, Opposite
  <1>2. HidKept(c, EpSetStall(c, ep))
    BY <1>1 DEF HidKept, EpSetStall, RegisterType
  <1>3. HidKept(c, EpClearStall(c, ep))
    <2> DEFINE o == Opposite(ep)
               x == IF IsOut(ep) THEN "nak" ELSE "valid"
    <2>1. EpClearStall(c, ep) = [c EXCEPT !.stat[o] = x, !.dtog[o] = 0]
      BY DEF EpClearStall
    <2>2. o \notin Hid
      BY <1>1
    <2> HIDE DEF o, x
    <2>3. QED
      BY <1>1, <2>1, <2>2 DEF HidKept, RegisterType
  <1>4. QED
    BY <1>2, <1>3

LEMMA HandledHid ==
  ASSUME NEW d, NEW r \in Requests, DeviceType(d), d.dc \in RegisterType, r.code \notin Selects
  PROVE  HidKept(d.dc, Handled(d, r).dc)
  <1>0. /\ r.to \in {"device", "interface", "endpoint", "class"}
        /\ r.to = "interface" => r.code = "GET_DESCRIPTOR" /\ r.val \in {"report", "hid", "physical"}
        /\ r.to = "device" => r.code \in {"GET_DESCRIPTOR", "GET_STATUS", "SET_ADDRESS"}
        /\ r.to = "endpoint" => r.val \in Used
    BY RequestAssumption, HostAssumption DEF Selects
  <1>1. \A obj, n : Answer(d, obj, n).dc = d.dc
    BY DEF Answer, DeviceType, Fields
  <1>2. SetReport(d).dc = d.dc /\ SetAddress(d, r.val).dc = d.dc
    BY DEF SetReport, SetAddress, DeviceType, Fields
  <1>3. r.to # "endpoint" => Handled(d, r).dc = d.dc
    BY <1>0, <1>1, <1>2 DEF Handled, HidDescriptor, StdDevice, HidClass
  <1>4. HidKept(d.dc, d.dc)
    BY DEF HidKept
  <1>5. CASE r.to = "endpoint"
    <2> DEFINE v == IF r.code = "SET_HALT" THEN EpSetStall(d.dc, r.val) ELSE EpClearStall(d.dc, r.val)
    <2>1. HidKept(d.dc, v)
      BY <1>0, <1>5, StallKept
    <2>2. Handled(d, r) = [d EXCEPT !.dc = v]
      BY <1>5 DEF Handled, StdEndpoint
    <2> HIDE DEF v
    <2>3. Handled(d, r).dc = v
      BY <2>2, DcMild
    <2>4. QED
      BY <2>1, <2>3
  <1>6. QED
    BY <1>3, <1>4, <1>5

\* An endpoint that is opened starts with its toggle at zero.
OpenedAt(c, ep, e) ==
  /\ e.stat = [c.stat EXCEPT ![ep] = OpenStatus(ep)] /\ e.dtog = [c.dtog EXCEPT ![ep] = 0]

LEMMA OpenedToggle ==
  ASSUME NEW c \in RegisterType, NEW ep \in Addresses, ~Full(c, ep)
  PROVE  OpenedAt(c, ep, EpOpen(c, ep))
  <1> DEFINE d == Placed(c, ep)
  <1>1. d.stat = c.stat /\ d.dtog = c.dtog /\ {"stat", "dtog"} \subseteq DOMAIN d
    BY DEF Placed, RegisterType
  <1>2. EpOpen(c, ep) = [d EXCEPT !.stat[ep] = OpenStatus(ep), !.dtog[ep] = 0]
    BY DEF EpOpen, OpenStatus
  <1> HIDE DEF d
  <1>3. QED
    BY <1>1, <1>2 DEF OpenedAt

LEMMA OpenHidZeroed ==
  ASSUME NEW c, Registers(c), Placed0(c)
  PROVE  Zeroed(OpenHid(c))
  <1> DEFINE d == EpOpen(c, Out(2))
             e == EpOpen(d, In(1))
  <1>0. c \in RegisterType /\ Layout(c) /\ Out(2) \in Addresses /\ In(1) \in Addresses
    BY AddressesDiffer DEF AddressFacts, Registers
  <1>1. /\ ~Full(c, Out(2))
        /\ d \in RegisterType /\ ~Full(d, In(1))
    <2>1. CASE PlacedHid(c)
      <3>1. c.buf_len[Out(2)] = Mps /\ c.buf_len[In(1)] = Mps
        BY <2>1 DEF PlacedHid
      <3>2. Given(c, [c.stat EXCEPT ![Out(2)] = OpenStatus(Out(2))], d)
        BY <1>0, <3>1, Reopened
      <3> HIDE DEF d
      <3>3. QED
        BY <3>1, <3>2, Sizes DEF Given, SameBuffers, Full, Grows
    <2>2. CASE ~PlacedHid(c)
      <3>1. c.buf_len[Out(2)] = 0 /\ c.buf_len[In(1)] = 0 /\ c.pma_offset = BtableSize
        BY <1>0, <2>2 DEF Layout
      <3>2. OpenedFirst(c, Out(2), d)
        BY <1>0, <3>1, Sizes, FirstOpened
      <3> HIDE DEF d
      <3>3. d.pma_offset = BtableSize + Mps /\ d \in RegisterType
        BY <3>1, <3>2 DEF OpenedFirst
      <3>4. ~Full(c, Out(2)) /\ ~Full(d, In(1))
        BY <3>1, <3>3, Sizes DEF Full, Grows
      <3>5. QED
        BY <3>3, <3>4
    <2>3. QED
      BY <2>1, <2>2
  <1>2. OpenedAt(c, Out(2), d)
    BY <1>0, <1>1, OpenedToggle
  <1>3. OpenHid(c) = e
    BY AddressesDiffer DEF AddressFacts, OpenHid
  <1> HIDE DEF d
  <1>4. OpenedAt(d, In(1), e)
    BY <1>0, <1>1, OpenedToggle
  <1> HIDE DEF e
  <1>5. \A ep : OpenStatus(ep) # "disabled"
    BY DEF OpenStatus
  <1>6. QED
    BY <1>0, <1>2, <1>3, <1>4, <1>5, AddressesDiffer
       DEF AddressFacts, OpenedAt, Zeroed, Hid, RegisterType

LEMMA HandledOpens ==
  ASSUME NEW d, NEW r \in Requests, Open(d), Opens(r)
  PROVE  Zeroed(Handled(d, r).dc)
  <1>1. Zeroed(OpenHid(d.dc))
    BY OpenHidZeroed DEF Open, Device
  <1>2. Handled(d, r).dc = OpenHid(d.dc)
    <2>1. CASE r.code = "SET_INTERFACE"
      <3>1. r.to = "interface" /\ r.val = 0
        BY <2>1, RequestAssumption, HostAssumption DEF Opens
      <3>2. QED
        BY <2>1, <3>1 DEF Handled, SetInterface, Open, Device, DeviceType, Fields
    <2>2. CASE r.code # "SET_INTERFACE"
      <3>1. r.code = "SET_CONFIGURATION" /\ r.to = "device" /\ r.val = 1
        BY <2>2, RequestAssumption, HostAssumption DEF Opens, Selects
      <3>2. Handled(d, r) = SetConfiguration(d, 1)
        BY <3>1 DEF Handled, StdDevice
      <3>3. QED
        BY <3>2 DEF SetConfiguration, Open, Device, DeviceType, Fields
    <2>3. QED
      BY <2>1, <2>2
  <1>3. QED
    BY <1>1, <1>2

\* usbd_send_to_host touches endpoint 0's IN registers alone.
Sent(d, e) ==
  /\ e.setup = d.setup /\ e.residue <= d.residue
  /\ DOMAIN e.pma = DOMAIN d.pma /\ e.daddr = d.daddr
  /\ \A ep \in Hid : e.dc.dtog[ep] = d.dc.dtog[ep] /\ e.dc.stat[ep] = d.dc.stat[ep]

LEMMA WriteSent ==
  ASSUME NEW d, NEW bytes, DeviceType(d), d.dc \in RegisterType
  PROVE  LET e == EpWrite(d, In(0), bytes)
         IN Sent(d, e) /\ e.residue = d.residue /\ e.zlp = d.zlp /\ Fields \subseteq DOMAIN e
  <1> DEFINE v == EpArmed(d.dc, In(0), Len(bytes))
             m == Stored(d.pma, d.dc.buf_addr[In(0)], bytes)
             w == [d.written EXCEPT ![In(0)] = bytes]
             e == [[[d EXCEPT !.pma = m] EXCEPT !.dc = v] EXCEPT !.written = w]
  <1>1. /\ [d EXCEPT !.pma = m].dc = d.dc
        /\ [[d EXCEPT !.pma = m] EXCEPT !.dc = v].written = d.written
    BY DEF DeviceType, Fields
  <1>2. EpWrite(d, In(0), bytes) = e
    BY <1>1 DEF EpWrite
  <1>3. \A ep \in Hid : v.dtog[ep] = d.dc.dtog[ep] /\ v.stat[ep] = d.dc.stat[ep]
    BY HidUsed DEF EpArmed, RegisterType
  <1>4. DOMAIN m = DOMAIN d.pma
    BY DEF Stored
  <1> HIDE DEF v, m, w
  <1>5. /\ e.setup = d.setup /\ e.residue = d.residue /\ e.daddr = d.daddr /\ e.zlp = d.zlp
        /\ e.pma = m /\ e.dc = v /\ Fields \subseteq DOMAIN e
    BY DEF DeviceType, Fields
  <1> HIDE DEF e
  <1>6. QED
    BY <1>2, <1>3, <1>4, <1>5 DEF Sent, DeviceType

LEMMA SendSent ==
  ASSUME NEW d, DeviceType(d), d.dc \in RegisterType
  PROVE  Sent(d, SendToHost(d))
  <1>1. CASE d.zlp
    <2> DEFINE z == [d EXCEPT !.zlp = FALSE]
    <2>1. /\ DeviceType(z) /\ z.dc = d.dc /\ z.setup = d.setup /\ z.residue = d.residue
          /\ z.pma = d.pma /\ z.daddr = d.daddr
      BY DEF DeviceType, Fields
    <2>2. SendToHost(d) = EpWrite(z, In(0), <<>>)
      BY <1>1 DEF SendToHost
    <2> HIDE DEF z
    <2>3. Sent(z, EpWrite(z, In(0), <<>>))
      BY <2>1, WriteSent
    <2>4. QED
      BY <2>1, <2>2, <2>3 DEF Sent
  <1>2. CASE ~d.zlp /\ d.buf.obj = "null" /\ d.residue > 0
    BY <1>2 DEF SendToHost, Sent, DeviceType
  <1>3. CASE ~d.zlp /\ ~(d.buf.obj = "null" /\ d.residue > 0)
    <2> DEFINE chunk == Least(d.residue, Mps)
               w == EpWrite(d, In(0), BytesAt(d, chunk))
               flag == ZlpAfter(d, chunk)
               e == [w EXCEPT !.buf.off = @ + chunk, !.residue = @ - chunk, !.zlp = flag]
    <2>1. d.residue \in Nat /\ chunk \in Nat
      BY Sizes, LeastOf DEF DeviceType
    <2>2. SendToHost(d) = e
      BY <1>3 DEF SendToHost
    <2>3. Sent(d, w) /\ w.residue = d.residue /\ Fields \subseteq DOMAIN w
      BY WriteSent
    <2> HIDE DEF chunk, w, flag
    <2>4. /\ e.setup = w.setup /\ e.residue = w.residue - chunk
          /\ e.pma = w.pma /\ e.daddr = w.daddr /\ e.dc = w.dc
      BY <2>3 DEF Fields
    <2> HIDE DEF e
    <2>5. QED
      BY <2>1, <2>2, <2>3, <2>4 DEF Sent
  <1>4. d.zlp \in BOOLEAN
    BY DEF DeviceType
  <1>5. QED
    BY <1>1, <1>2, <1>3, <1>4

\* A transfer with no data is over when its status packet is armed.
LEMMA StatusSent ==
  ASSUME NEW d, DeviceType(d), d.dc \in RegisterType, d.setup.n = 0, d.residue = 0, ~d.zlp
  PROVE  SendToHost(d).residue = 0 /\ ~SendToHost(d).zlp
  <1> DEFINE chunk == Least(d.residue, Mps)
             w == EpWrite(d, In(0), BytesAt(d, chunk))
             flag == ZlpAfter(d, chunk)
             e == [w EXCEPT !.buf.off = @ + chunk, !.residue = @ - chunk, !.zlp = flag]
  <1>1. chunk = 0
    BY Sizes DEF Least
  <1>2. ~flag
    <2>1. d.len \in Nat
      BY DEF DeviceType
    <2>2. QED
      BY <2>1 DEF ZlpAfter
  <1>3. SendToHost(d) = e
    BY DEF SendToHost
  <1>4. w.residue = 0 /\ Fields \subseteq DOMAIN w
    BY WriteSent
  <1> HIDE DEF w, chunk, flag
  <1>5. e.residue = 0 /\ ~e.zlp
    BY <1>1, <1>2, <1>4 DEF Fields
  <1> HIDE DEF e
  <1>6. QED
    BY <1>3, <1>5

LEMMA KeptOn ==
  ASSUME NEW c, NEW d, NEW e, HidKept(c, d), HidKept(d, e)
  PROVE  HidKept(c, e)
  BY DEF HidKept

\* Only endpoint 0's registers change.
Aside(d, e) ==
  /\ e.setup = d.setup /\ e.residue = d.residue /\ e.zlp = d.zlp
  /\ e.pma = d.pma /\ e.daddr = d.daddr
  /\ \A ep \in Hid : e.dc.dtog[ep] = d.dc.dtog[ep] /\ e.dc.stat[ep] = d.dc.stat[ep]

LEMMA StalledAside ==
  ASSUME NEW d, DeviceType(d), d.dc \in RegisterType
  PROVE  Aside(d, StalledIn(d)) /\ StalledIn(d).dc.stat[In(0)] = "stall"
  <1> DEFINE v == EpSetStall(d.dc, In(0))
  <1>1. /\ \A ep \in Hid : v.dtog[ep] = d.dc.dtog[ep] /\ v.stat[ep] = d.dc.stat[ep]
        /\ v.stat[In(0)] = "stall"
    BY HidUsed, AddressesDiffer DEF AddressFacts, EpSetStall, RegisterType
  <1>2. StalledIn(d) = [d EXCEPT !.dc = v]
    BY DEF StalledIn
  <1> HIDE DEF v
  <1>3. StalledIn(d).dc = v
    BY <1>2 DEF DeviceType, Fields
  <1>4. QED
    BY <1>1, <1>2, <1>3 DEF Aside, DeviceType, Fields

LEMMA Rearmed0Aside ==
  ASSUME NEW d, DeviceType(d), d.dc \in RegisterType
  PROVE  Aside(d, Rearmed0(d)) /\ Rearmed0(d).dc.stat[In(0)] = d.dc.stat[In(0)]
  <1> DEFINE v == EpRearmed(d.dc, Out(0))
  <1>1. /\ \A ep \in Hid : v.dtog[ep] = d.dc.dtog[ep] /\ v.stat[ep] = d.dc.stat[ep]
        /\ v.stat[In(0)] = d.dc.stat[In(0)]
    BY HidUsed, AddressesDiffer DEF AddressFacts, EpRearmed, RegisterType
  <1>2. Rearmed0(d) = [d EXCEPT !.dc = v]
    BY DEF Rearmed0
  <1> HIDE DEF v
  <1>3. Rearmed0(d).dc = v
    BY <1>2 DEF DeviceType, Fields
  <1>4. QED
    BY <1>1, <1>2, <1>3 DEF Aside, DeviceType, Fields

LEMMA OpenTypes ==
  ASSUME NEW d, Open(d)
  PROVE  DeviceType(d) /\ d.dc \in RegisterType /\ d.residue \in Nat /\ d.len \in Nat
  BY DEF Open, Device, DeviceType, Registers

\* What the handler makes of a SETUP.
Taken(d, r, e) ==
  /\ e.setup = r /\ (e.residue > 0 => r.n > 0)
  /\ DOMAIN e.pma = DOMAIN d.pma /\ e.daddr \in {d.daddr, 0}
  /\ r.code \notin Selects => HidKept(d.dc, e.dc)
  /\ r.n = 0 => /\ e.residue = 0 /\ ~e.zlp
                /\ Opens(r) => e.dc.stat[In(0)] = "stall" \/ Zeroed(e.dc)

LEMMA AsideTaken ==
  ASSUME NEW d, NEW r, NEW e, NEW f, Taken(d, r, e), Aside(e, f),
         f.dc.stat[In(0)] = e.dc.stat[In(0)]
  PROVE  Taken(d, r, f)
  BY DEF Taken, Aside, HidKept, Zeroed

LEMMA SetupTaken ==
  ASSUME NEW d, NEW r \in Requests, Open(d)
  PROVE  Taken(d, r, Ep0Setup(d, r))
  <1> DEFINE b == Begun(d, r)
             h == Handled(b, r)
             n == Offered(h)
             o == [h EXCEPT !.residue = n]
             t == [d EXCEPT !.setup = r]
  <1>0. r.n \in Nat /\ ReqSize \in Nat
    BY RequestAssumption, ControlAssumption
  <1>1. /\ Open(b) /\ b.dc = d.dc /\ b.setup = r /\ b.residue = r.n /\ ~b.zlp
        /\ b.pma = d.pma /\ b.daddr = d.daddr
    BY <1>0 DEF Begun, Open, Device, DeviceType, Fields
  <1>2. /\ Open(t) /\ t.dc = d.dc /\ t.setup = r /\ t.pma = d.pma /\ t.daddr = d.daddr
    BY DEF Open, Device, DeviceType, Fields
  <1>3. Ep0Setup(d, r) =
          IF r.dir = "out" /\ r.n > ReqSize THEN StalledIn(t)
          ELSE IF r.dir = "out" /\ r.n > 0 THEN b
          ELSE IF Refused(b, r) THEN StalledIn(b)
          ELSE SendToHost(o)
    BY DEF Ep0Setup
  <1> HIDE DEF b, t
  <1>4. ASSUME r.n > 0 PROVE Taken(d, r, StalledIn(t)) /\ Taken(d, r, b)
    <2>1. Aside(t, StalledIn(t))
      BY <1>2, OpenTypes, StalledAside
    <2>2. Taken(d, r, StalledIn(t))
      BY <1>0, <1>2, <1>4, <2>1 DEF Taken, Aside, HidKept
    <2>3. Taken(d, r, b)
      BY <1>0, <1>1, <1>4 DEF Taken, HidKept
    <2>4. QED
      BY <2>2, <2>3
  <1>5. Taken(d, r, StalledIn(b))
    <2>1. Aside(b, StalledIn(b)) /\ StalledIn(b).dc.stat[In(0)] = "stall"
      BY <1>1, OpenTypes, StalledAside
    <2>2. QED
      BY <1>0, <1>1, <2>1 DEF Taken, Aside, HidKept
  <1>6. ASSUME ~Refused(b, r) PROVE Taken(d, r, SendToHost(o))
    <2>1. Onward(b, h)
      BY <1>1, <1>6, HandledOnward
    <2>2. Mild(b, h)
      BY <1>1, OpenTypes, HandledMild
    <2>3. r.code \notin Selects => HidKept(b.dc, h.dc)
      BY <1>1, OpenTypes, HandledHid
    <2>4. Opens(r) => Zeroed(h.dc)
      BY <1>1, HandledOpens
    <2> HIDE DEF h
    <2>5. Open(h) /\ h.setup = r /\ DeviceType(h) /\ h.dc \in RegisterType /\ h.len \in Nat
      BY <1>1, <2>1, OnwardOpen, OpenTypes DEF Onward
    <2>6. n \in Nat /\ n <= r.n
      BY <1>0, <2>5, LeastOf DEF Offered
    <2> HIDE DEF n
    <2>7. /\ DeviceType(o) /\ o.dc = h.dc /\ o.setup = r /\ o.residue = n
          /\ o.zlp = h.zlp /\ o.pma = h.pma /\ o.daddr = h.daddr
          /\ o.configuration = h.configuration
      BY <1>0, <2>5, <2>6 DEF DeviceType, Fields
    <2> HIDE DEF o
    <2>8. Sent(o, SendToHost(o))
      BY <2>5, <2>7, SendSent
    <2>9. r.n = 0 => SendToHost(o).residue = 0 /\ ~SendToHost(o).zlp
      <3>1. ~o.zlp
        BY <1>1, <2>2, <2>7 DEF Mild
      <3>2. QED
        BY <2>5, <2>6, <2>7, <3>1, StatusSent
    <2>10. Onward(o, SendToHost(o))
      <3>1. Open(o)
        BY <2>5, <2>7 DEF Open, Device
      <3>2. QED
        BY <3>1, SendOnward
    <2>11. SendToHost(o).residue \in Nat
      BY <2>10, OnwardOpen, OpenTypes
    <2> DEFINE s == SendToHost(o)
    <2> HIDE DEF s
    <2>12. s.setup = r /\ (s.residue > 0 => r.n > 0)
      BY <1>0, <2>6, <2>7, <2>8, <2>11 DEF Sent, s
    <2>13. DOMAIN s.pma = DOMAIN d.pma /\ s.daddr \in {d.daddr, 0}
      BY <1>1, <2>2, <2>7, <2>8 DEF Sent, Mild, s
    <2>14. r.code \notin Selects => HidKept(d.dc, s.dc)
      BY <1>1, <2>3, <2>7, <2>8 DEF Sent, HidKept, s
    <2>15. Opens(r) => Zeroed(s.dc)
      BY <2>4, <2>7, <2>8 DEF Sent, Zeroed, s
    <2>16. QED
      BY <2>9, <2>12, <2>13, <2>14, <2>15 DEF Taken, s
  <1>7. QED
    BY <1>0, <1>3, <1>4, <1>5, <1>6

\* What is left of a transfer when a packet was received or sent: no more than
\* there was, and the HID endpoints as they were.
Gone(d, e) ==
  /\ e.setup = d.setup /\ e.residue <= d.residue
  /\ DOMAIN e.pma = DOMAIN d.pma /\ e.daddr \in {d.daddr, 0}
  /\ HidKept(d.dc, e.dc)

LEMMA OutGone ==
  ASSUME NEW d, Open(d), d.residue > 0 => d.setup.n > 0
  PROVE  Gone(d, Ep0Out(d))
  <1> DEFINE p == OutPacket(d)
             q == Rewound(p)
             h == Handled(q, d.setup)
  <1>0. DeviceType(d) /\ d.dc \in RegisterType /\ d.residue \in Nat
    BY OpenTypes
  <1>1. Onward(d, p) /\ p.dc = d.dc /\ p.residue <= d.residue /\ p.pma = d.pma /\ p.daddr = d.daddr
    <2> DEFINE n == Least(d.dc.cnt[Out(0)], d.residue)
               z == Stored(d.req_data, 1, Loaded(d.pma, d.dc.buf_addr[Out(0)], n))
    <2>1. n \in Nat
      BY <1>0, AddressesDiffer, LeastOf DEF AddressFacts, RegisterType
    <2>2. p = [d EXCEPT !.req_data = z, !.buf = [obj |-> "req_data", off |-> n], !.residue = @ - n]
      BY DEF OutPacket
    <2> HIDE DEF n, z, p
    <2>3. p.dc = d.dc /\ p.residue = d.residue - n /\ p.pma = d.pma /\ p.daddr = d.daddr
      BY <1>0, <2>2 DEF DeviceType, Fields
    <2>4. QED
      BY <1>0, <2>1, <2>3, PacketOnward DEF p
  <1>2. Ep0Out(d) = IF d.residue = 0 THEN d
                    ELSE IF p.residue > 0 THEN p
                    ELSE IF Refused(q, d.setup) THEN StalledIn(q)
                    ELSE SendToHost(h)
    BY DEF Ep0Out
  <1> HIDE DEF p
  <1>3. /\ Open(q) /\ q.dc = d.dc /\ q.residue = p.residue /\ q.pma = d.pma /\ q.daddr = d.daddr
        /\ q.setup = d.setup
    <2>1. Open(p) /\ p.setup = d.setup
      BY <1>1, OnwardOpen DEF Onward
    <2>2. QED
      BY <1>1, <2>1 DEF Rewound, Open, Device, DeviceType, Fields
  <1> HIDE DEF q
  <1>4. Gone(d, d) /\ Gone(d, p)
    BY <1>0, <1>1 DEF Gone, HidKept, Onward
  <1>5. Gone(d, StalledIn(q))
    <2>1. Aside(q, StalledIn(q))
      BY <1>3, OpenTypes, StalledAside
    <2>2. QED
      BY <1>1, <1>3, <2>1 DEF Gone, Aside, HidKept
  <1>6. ASSUME d.residue # 0, ~Refused(q, d.setup) PROVE Gone(d, SendToHost(h))
    <2>1. d.setup \in Requests /\ d.setup.n > 0
      BY <1>0, <1>6 DEF DeviceType
    <2>2. d.setup.code \notin Selects
      BY <2>1, HostAssumption
    <2>3. Onward(q, h) /\ Mild(q, h) /\ HidKept(q.dc, h.dc)
      BY <1>3, <1>6, <2>1, <2>2, OpenTypes, HandledOnward, HandledMild, HandledHid
    <2> HIDE DEF h
    <2>4. Sent(h, SendToHost(h))
      BY <2>3, OnwardOpen, OpenTypes, SendSent
    <2>5. HidKept(h.dc, SendToHost(h).dc)
      BY <2>4 DEF Sent, HidKept
    <2>6. HidKept(d.dc, SendToHost(h).dc)
      BY <1>3, <2>3, <2>5, KeptOn
    <2>7. SendToHost(h).residue <= d.residue
      <3>1. Open(SendToHost(h)) /\ Open(h) /\ Open(p)
        BY <1>1, <2>3, OnwardOpen, SendOnward
      <3>2. SendToHost(h).residue \in Nat /\ h.residue \in Nat /\ p.residue \in Nat
        BY <3>1, OpenTypes
      <3>3. QED
        BY <1>0, <1>1, <1>3, <2>3, <2>4, <3>2 DEF Sent, Mild
    <2>8. QED
      BY <1>3, <2>3, <2>4, <2>6, <2>7 DEF Gone, Sent, Mild
  <1>7. QED
    BY <1>2, <1>4, <1>5, <1>6

\* usbd_ep0_in_handler.
GoneIn(d, e) ==
  /\ e.setup = d.setup /\ e.residue <= d.residue /\ DOMAIN e.pma = DOMAIN d.pma
  /\ \A ep \in Hid : e.dc.dtog[ep] = d.dc.dtog[ep] /\ e.dc.stat[ep] = d.dc.stat[ep]
  /\ d.residue = 0 /\ ~d.zlp => e.dc = d.dc /\ e.residue = 0 /\ ~e.zlp

LEMMA InGone ==
  ASSUME NEW d, Open(d)
  PROVE  GoneIn(d, Ep0In(d))
  <1> DEFINE s == IF d.residue # 0 \/ d.zlp THEN SendToHost(d) ELSE d
             e == [s EXCEPT !.daddr = s.dev_addr, !.dev_addr = 0]
  <1>0. DeviceType(d) /\ d.dc \in RegisterType /\ d.residue \in Nat
    BY OpenTypes
  <1>1. Onward(d, s)
    BY SendOnward, OnwardSelf
  <1>2. Ep0In(d) = e \/ Ep0In(d) = s
    BY DEF Ep0In
  <1>3. Sent(d, SendToHost(d))
    BY <1>0, SendSent
  <1>4. Sent(d, s) /\ (d.residue = 0 /\ ~d.zlp => s = d)
    BY <1>0, <1>3 DEF Sent
  <1> HIDE DEF s
  <1>5. Fields \subseteq DOMAIN s
    BY <1>1 DEF Onward, Later, Open, Device, DeviceType
  <1>6. GoneIn(d, s)
    BY <1>0, <1>4 DEF GoneIn, Sent
  <1>7. GoneIn(d, e)
    BY <1>5, <1>6 DEF GoneIn, Fields
  <1>8. QED
    BY <1>2, <1>6, <1>7
----------------------------------------------------------------------------
\* What the controller does for a host: registers of one pair of endpoints and
\* packet memory change.
Apart(d, e) ==
  /\ e.setup = d.setup /\ e.residue = d.residue /\ e.zlp = d.zlp /\ e.daddr = d.daddr
  /\ e.dc.buf_addr = d.dc.buf_addr

HidSame(c, e) == \A ep \in Hid : e.dtog[ep] = c.dtog[ep] /\ e.stat[ep] = c.stat[ep]

LEMMA HostSetupDoes ==
  ASSUME DeviceType(dev), dev.dc \in RegisterType, NEW r, HostSetup(r)
  PROVE  /\ Apart(dev, dev') /\ HidSame(dev.dc, dev'.dc)
         /\ dev'.dc.stat[In(0)] = "nak" /\ dev'.dc.stat[Out(0)] = "nak"
         /\ dev'.pma = Stored(dev.pma, dev.dc.buf_addr[Out(0)], <<<<"setup", r>>>>)
  BY HidUsed, AddressesDiffer
     DEF HostSetup, Apart, HidSame, Hid, AddressFacts, DeviceType, Fields, RegisterType

LEMMA HostInDoes ==
  ASSUME DeviceType(dev), dev.dc \in RegisterType, HostIn
  PROVE  Apart(dev, dev') /\ HidSame(dev.dc, dev'.dc) /\ dev'.pma = dev.pma
  BY HidUsed, AddressesDiffer
     DEF HostIn, Apart, HidSame, Hid, AddressFacts, DeviceType, Fields, RegisterType

LEMMA HostOutDoes ==
  ASSUME DeviceType(dev), dev.dc \in RegisterType, HostOut
  PROVE  Apart(dev, dev') /\ HidSame(dev.dc, dev'.dc) /\ DOMAIN dev'.pma = DOMAIN dev.pma
  BY HidUsed, AddressesDiffer
     DEF HostOut, Apart, HidSame, Hid, AddressFacts, DeviceType, Fields, RegisterType, Stored

LEMMA HostAnswerDoes ==
  ASSUME DeviceType(dev), dev.dc \in RegisterType, HostAnswer
  PROVE  /\ Apart(dev, dev') /\ dev'.pma = dev.pma
         /\ dev'.dc.dtog = [dev.dc.dtog EXCEPT ![In(1)] = 1 - @]
         /\ dev'.dc.stat = [dev.dc.stat EXCEPT ![In(1)] = "nak"]
  BY DEF HostAnswer, Apart, DeviceType, Fields, RegisterType

LEMMA HostReportDoes ==
  ASSUME DeviceType(dev), dev.dc \in RegisterType, HostReport,
         host.tog[Out(2)] = dev.dc.dtog[Out(2)]
  PROVE  /\ Apart(dev, dev')
         /\ dev'.pma = Stored(dev.pma, dev.dc.buf_addr[Out(2)], [i \in 1..Mps |-> <<"report", i>>])
         /\ dev'.dc.dtog = [dev.dc.dtog EXCEPT ![Out(2)] = 1 - @]
         /\ dev'.dc.stat = [dev.dc.stat EXCEPT ![Out(2)] = "nak"]
  <1> DEFINE m == Stored(dev.pma, dev.dc.buf_addr[Out(2)], [i \in 1..Mps |-> <<"report", i>>])
             e == [dev EXCEPT !.pma = m, !.dc.stat[Out(2)] = "nak", !.dc.dtog[Out(2)] = 1 - @]
  <1>1. dev' = e
    BY DEF HostReport
  <1> HIDE DEF m
  <1>2. /\ Apart(dev, e) /\ e.pma = m
        /\ e.dc.dtog = [dev.dc.dtog EXCEPT ![Out(2)] = 1 - @]
        /\ e.dc.stat = [dev.dc.stat EXCEPT ![Out(2)] = "nak"]
    BY DEF Apart, DeviceType, Fields, RegisterType
  <1> HIDE DEF e
  <1>3. QED
    BY <1>1, <1>2 DEF m
----------------------------------------------------------------------------
\* The host: a request it is busy with is one it may make, and while it selects a
\* configuration or setting it does not use the HID endpoints.
HostBusy ==
  /\ host.tog \in [Hid -> 0..1] /\ host.addr \in 0..1
  /\ host.configured \in BOOLEAN /\ host.halted \in BOOLEAN
  /\ host.stage # "idle" => host.req \in Requests
  /\ host.stage # "idle" /\ host.req.code \in Selects => ~host.configured
  /\ host.stage = "out_data" => host.req.n # 0

\* Nothing happens between a bus reset and its interrupt.
Quiet ==
  istr_reset => /\ pending = {} /\ host.stage = "idle"
                /\ ~host.configured /\ dev.daddr = -1

\* A SETUP that waits is the host's request, and endpoint 0 moves nothing until it
\* is served.
SetupWaits ==
  "setup" \in pending =>
    /\ dev.pma[dev.dc.buf_addr[Out(0)]] = <<"setup", host.req>>
    /\ host.stage = FirstStage(host.req) /\ "out0" \notin pending
    /\ dev.dc.stat[In(0)] = "nak" /\ dev.dc.stat[Out(0)] = "nak"

\* Only a transfer with data has some left.
DataLeft == dev.residue > 0 => dev.setup.n > 0

\* A request without data has been handled when its status packet is ready.
StatusReady ==
  host.stage = "in_status" /\ host.req.n = 0 =>
    /\ "out0" \notin pending
    /\ "setup" \notin pending =>
         /\ dev.residue = 0 /\ ~dev.zlp
         /\ Opens(host.req) => dev.dc.stat[In(0)] = "stall" \/ Zeroed(dev.dc)

HidOpen == host.configured => \A ep \in Hid : dev.dc.stat[ep] # "disabled"

Toggles ==
  host.configured /\ ~host.halted => \A ep \in Hid : host.tog[ep] = dev.dc.dtog[ep]

Memory == DOMAIN dev.pma = 0..(RamSize - 1)

Accord ==
  HostBusy /\ Quiet /\ SetupWaits /\ DataLeft /\ StatusReady /\ HidOpen /\ Toggles /\ Memory

LEMMA AccordInit ==
  ASSUME Init
  PROVE  Accord
  <1>1. PICK uses \in Profiles :
          host = [ uses |-> uses, stage |-> "idle", req |-> Idle, got |-> <<>>, left |-> 0,
                   addr |-> 0, aborts |-> 0, configured |-> FALSE, halted |-> FALSE,
                   tog |-> [ep \in Hid |-> 0] ]
    BY DEF Init, Hid
  <1>2. dev.residue = 0 /\ DOMAIN dev.pma = 0..(RamSize - 1) /\ pending = {} /\ istr_reset = FALSE
    BY DEF Init
  <1>3. QED
    BY <1>1, <1>2 DEF Accord, HostBusy, Quiet, SetupWaits, DataLeft, StatusReady, HidOpen,
       Toggles, Memory

\* An event is pending only when no bus reset is.
LEMMA NoReset ==
  ASSUME Accord, FlagType, pending # {}
  PROVE  istr_reset = FALSE
  BY DEF Accord, Quiet, FlagType

\* Where the host is not, the device may only keep the HID endpoints.
LEMMA HidStep ==
  ASSUME Accord, HidKept(dev.dc, dev'.dc), host' = host
  PROVE  HidOpen' /\ Toggles'
  BY DEF Accord, HidOpen, Toggles, HidKept

LEMMA ServeSetupAccord ==
  ASSUME IInv, Accord, ServeSetup
  PROVE  Accord'
  <1> DEFINE r == host.req
  <1>1. Open(dev) /\ "setup" \in pending /\ istr_reset = FALSE
    BY PendingOpen, NoReset DEF ServeSetup, IInv
  <1>2. SetupWaits /\ HostBusy /\ StatusReady /\ HidOpen /\ Toggles /\ Memory
    BY DEF Accord
  <1>3. dev' = Rearmed0(Ep0Setup(dev, r))
    BY <1>1, <1>2 DEF ServeSetup, SetupWaits
  <1>4. host.stage # "idle" /\ r \in Requests
    BY <1>1, <1>2 DEF SetupWaits, FirstStage, HostBusy
  <1>5. Taken(dev, r, dev')
    <2> DEFINE e == Ep0Setup(dev, r)
    <2>1. Taken(dev, r, e) /\ Later(dev, e)
      BY <1>1, <1>4, SetupTaken, SetupLater
    <2> HIDE DEF e
    <2>2. Aside(e, Rearmed0(e)) /\ Rearmed0(e).dc.stat[In(0)] = e.dc.stat[In(0)]
      BY <2>1, OpenTypes, Rearmed0Aside DEF Later
    <2>3. QED
      BY <1>3, <2>1, <2>2, AsideTaken DEF e
  <1>6. host' = host /\ istr_reset' = FALSE /\ "setup" \notin pending' /\ pending' \subseteq pending
    BY <1>1 DEF ServeSetup
  <1>7. HostBusy' /\ Quiet' /\ SetupWaits'
    BY <1>2, <1>6 DEF HostBusy, Quiet, SetupWaits
  <1>8. DataLeft' /\ Memory'
    BY <1>2, <1>5 DEF Taken, DataLeft, Memory
  <1>9. StatusReady'
    BY <1>1, <1>2, <1>5, <1>6 DEF Taken, StatusReady
  <1>10. HidOpen' /\ Toggles'
    <2>1. CASE r.code \in Selects
      BY <1>2, <1>4, <1>6, <2>1 DEF HostBusy, HidOpen, Toggles
    <2>2. CASE r.code \notin Selects
      BY <1>5, <1>6, <2>2, HidStep DEF Taken
    <2>3. QED
      BY <2>1, <2>2
  <1>11. QED
    BY <1>7, <1>8, <1>9, <1>10 DEF Accord

LEMMA ServeOut0Accord ==
  ASSUME IInv, Accord, ServeOut0
  PROVE  Accord'
  <1>1. Open(dev) /\ "out0" \in pending /\ istr_reset = FALSE
    BY PendingOpen, NoReset DEF ServeOut0, IInv
  <1>2. SetupWaits /\ HostBusy /\ StatusReady /\ DataLeft /\ Memory
    BY DEF Accord
  <1>3. Gone(dev, dev')
    <2> DEFINE e == Ep0Out(dev)
    <2>1. Gone(dev, e) /\ Onward(dev, e)
      BY <1>1, <1>2, OutGone, OutOnward DEF DataLeft
    <2> HIDE DEF e
    <2>2. Aside(e, Rearmed0(e))
      BY <2>1, OnwardOpen, OpenTypes, Rearmed0Aside
    <2>3. dev' = Rearmed0(e)
      BY DEF ServeOut0, e
    <2>4. QED
      BY <2>1, <2>2, <2>3 DEF Gone, Aside, HidKept
  <1>4. host' = host /\ istr_reset' = FALSE /\ pending' \subseteq pending /\ "setup" \notin pending'
    BY <1>1, <1>2 DEF ServeOut0, SetupWaits
  <1>5. HostBusy' /\ Quiet' /\ SetupWaits'
    BY <1>2, <1>4 DEF HostBusy, Quiet, SetupWaits
  <1>6. DataLeft' /\ Memory'
    <2>1. dev.residue \in Nat /\ dev'.residue \in Nat
      <3>1. IInv'
        BY HandlerKeeps DEF Isr
      <3>2. QED
        BY <3>1 DEF IInv, Device, DeviceType
    <2>2. QED
      BY <1>2, <1>3, <2>1 DEF Gone, DataLeft, Memory
  <1>7. StatusReady'
    BY <1>1, <1>2, <1>4 DEF StatusReady
  <1>8. HidOpen' /\ Toggles'
    BY <1>3, <1>4, HidStep DEF Gone
  <1>9. QED
    BY <1>5, <1>6, <1>7, <1>8 DEF Accord

LEMMA ServeIn0Accord ==
  ASSUME IInv, Accord, ServeIn0
  PROVE  Accord'
  <1>1. Open(dev) /\ "in0" \in pending /\ istr_reset = FALSE
    BY PendingOpen, NoReset DEF ServeIn0, IInv
  <1>2. SetupWaits /\ HostBusy /\ StatusReady /\ DataLeft /\ Memory
    BY DEF Accord
  <1>3. GoneIn(dev, dev')
    BY <1>1, InGone DEF ServeIn0
  <1>4. host' = host /\ istr_reset' = FALSE /\ pending' \subseteq pending /\ "setup" \notin pending
    BY <1>1, <1>2 DEF ServeIn0
  <1>5. HostBusy' /\ Quiet' /\ SetupWaits'
    BY <1>2, <1>4 DEF HostBusy, Quiet, SetupWaits
  <1>6. DataLeft' /\ Memory'
    <2>1. dev.residue \in Nat /\ dev'.residue \in Nat
      <3>1. IInv'
        BY HandlerKeeps DEF Isr
      <3>2. QED
        BY <3>1 DEF IInv, Device, DeviceType
    <2>2. QED
      BY <1>2, <1>3, <2>1 DEF GoneIn, DataLeft, Memory
  <1>7. StatusReady'
    BY <1>2, <1>3, <1>4 DEF StatusReady, GoneIn
  <1>8. HidOpen' /\ Toggles'
    <2>1. HidKept(dev.dc, dev'.dc)
      BY <1>3 DEF GoneIn, HidKept
    <2>2. QED
      BY <1>4, <2>1, HidStep
  <1>9. QED
    BY <1>5, <1>6, <1>7, <1>8 DEF Accord

LEMMA ServeIn1Accord ==
  ASSUME IInv, Accord, ServeIn1
  PROVE  Accord'
  <1>1. dev' = dev /\ host' = host /\ istr_reset' = istr_reset /\ pending' \subseteq pending
        /\ "setup" \notin pending /\ istr_reset = FALSE
    BY NoReset DEF ServeIn1, IInv
  <1>2. QED
    BY <1>1 DEF Accord, HostBusy, Quiet, SetupWaits, DataLeft, StatusReady, HidOpen,
       Toggles, Memory

\* usbd_hid_out_handler.
LEMMA ServeOut2Does ==
  ASSUME DeviceType(dev), dev.dc \in RegisterType, ServeOut2
  PROVE  /\ Apart(dev, dev') /\ DOMAIN dev'.pma = DOMAIN dev.pma
         /\ dev'.dc.dtog = dev.dc.dtog
         /\ \A ep \in Hid : dev'.dc.stat[ep] = "valid"
         /\ dev'.dc.stat[In(0)] = dev.dc.stat[In(0)]
  <1> DEFINE b == [i \in 1..Mps |-> <<"answer", i>>]
             m == Stored(dev.pma, dev.dc.buf_addr[In(1)], b)
             v == EpArmed(dev.dc, In(1), Len(b))
             w == [dev.written EXCEPT ![In(1)] = b]
             d == [[[dev EXCEPT !.pma = m] EXCEPT !.dc = v] EXCEPT !.written = w]
             x == EpRearmed(v, Out(2))
  <1>1. DOMAIN m = DOMAIN dev.pma
    BY DEF Stored
  <1>2. /\ v.dtog = dev.dc.dtog /\ v.buf_addr = dev.dc.buf_addr
        /\ v.stat = [dev.dc.stat EXCEPT ![In(1)] = "valid"] /\ "stat" \in DOMAIN v
    BY DEF EpArmed, RegisterType
  <1>3. dev' = [d EXCEPT !.dc = EpRearmed(@, Out(2))]
    <2>1. /\ [dev EXCEPT !.pma = m].dc = dev.dc
          /\ [[dev EXCEPT !.pma = m] EXCEPT !.dc = v].written = dev.written
      BY DEF DeviceType, Fields
    <2>2. EpWrite(dev, In(1), b) = d
      BY <2>1 DEF EpWrite
    <2>3. QED
      BY <2>2 DEF ServeOut2
  <1> HIDE DEF b, m, v, w
  <1>4. x.dtog = v.dtog /\ x.buf_addr = v.buf_addr /\ x.stat = [v.stat EXCEPT ![Out(2)] = "valid"]
    BY <1>2 DEF EpRearmed
  <1> HIDE DEF x
  <1>5. dev'.dc = x /\ dev'.pma = m /\ Apart(dev, [dev' EXCEPT !.dc = dev.dc])
        /\ Fields \subseteq DOMAIN dev'
    BY <1>3 DEF Apart, DeviceType, Fields, x
  <1>6. Apart(dev, dev')
    BY <1>2, <1>4, <1>5 DEF Apart, Fields
  <1>7. QED
    BY <1>1, <1>2, <1>4, <1>5, <1>6, AddressesDiffer DEF Hid, AddressFacts, RegisterType

LEMMA ServeOut2Accord ==
  ASSUME IInv, Accord, ServeOut2
  PROVE  Accord'
  <1>1. /\ DeviceType(dev) /\ dev.dc \in RegisterType /\ istr_reset = FALSE
        /\ "setup" \notin pending /\ pending' = {} /\ host' = host /\ istr_reset' = FALSE
    BY PendingOpen, OpenTypes, NoReset DEF ServeOut2, IInv
  <1>2. /\ Apart(dev, dev') /\ DOMAIN dev'.pma = DOMAIN dev.pma
        /\ dev'.dc.dtog = dev.dc.dtog
        /\ \A ep \in Hid : dev'.dc.stat[ep] = "valid"
        /\ dev'.dc.stat[In(0)] = dev.dc.stat[In(0)]
    BY <1>1, ServeOut2Does
  <1>3. SetupWaits /\ HostBusy /\ StatusReady /\ DataLeft /\ Memory
    BY DEF Accord
  <1>4. HostBusy' /\ Quiet' /\ SetupWaits' /\ DataLeft' /\ Memory'
    BY <1>1, <1>2, <1>3 DEF HostBusy, Quiet, SetupWaits, DataLeft, Memory, Apart
  <1>5. StatusReady'
    BY <1>1, <1>2, <1>3 DEF StatusReady, Apart, Zeroed
  <1>6. HidOpen' /\ Toggles'
    <2>1. HidKept(dev.dc, dev'.dc)
      BY <1>2 DEF HidKept
    <2>2. QED
      BY <1>1, <2>1, HidStep
  <1>7. QED
    BY <1>4, <1>5, <1>6 DEF Accord

LEMMA HandleResetAccord ==
  ASSUME IInv, Accord, HandleReset
  PROVE  Accord'
  <1>1. /\ host' = host /\ pending = {} /\ pending' = {} /\ istr_reset' = FALSE
        /\ host.stage = "idle" /\ ~host.configured
    BY DEF HandleReset, Accord, Quiet
  <1>2. dev'.residue = dev.residue /\ dev'.setup = dev.setup /\ dev'.pma = dev.pma
    BY DEF HandleReset, SetAddress, IInv, Device, DeviceType, Fields
  <1>3. QED
    BY <1>1, <1>2 DEF Accord, HostBusy, Quiet, SetupWaits, DataLeft, StatusReady, HidOpen,
       Toggles, Memory
----------------------------------------------------------------------------
\* No host acts between a bus reset and its interrupt, except to reset again.
LEMMA HostAwake ==
  ASSUME Accord, FlagType, Addressed
  PROVE  istr_reset = FALSE
  BY DEF Accord, Quiet, HostBusy, Addressed, FlagType

LEMMA HostSetupAccord ==
  ASSUME IInv, Accord, NEW r \in host.uses, HostSetup(r)
  PROVE  Accord'
  <1>1. /\ DeviceType(dev) /\ dev.dc \in RegisterType /\ HostRecord(host) /\ r \in Requests
        /\ istr_reset = FALSE
    BY HostAwake DEF IInv, Device, Registers, HostType, HostRecord, Requests, HostSetup
  <1>2. /\ Apart(dev, dev') /\ HidSame(dev.dc, dev'.dc)
        /\ dev'.dc.stat[In(0)] = "nak" /\ dev'.dc.stat[Out(0)] = "nak"
        /\ dev'.pma = Stored(dev.pma, dev.dc.buf_addr[Out(0)], <<<<"setup", r>>>>)
    BY <1>1, HostSetupDoes
  <1>3. /\ host'.stage = FirstStage(r) /\ host'.req = r
        /\ host'.configured = (host.configured /\ r.code \notin Selects)
        /\ host'.halted = host.halted /\ host'.tog = host.tog /\ host'.addr = host.addr
    BY <1>1 DEF HostSetup, HostRecord
  <1>4. /\ pending' = pending \union {"setup"} /\ "out0" \notin pending
        /\ istr_reset' = FALSE
    BY <1>1 DEF HostSetup
  <1>5. HostBusy /\ DataLeft /\ HidOpen /\ Toggles /\ Memory
    BY DEF Accord
  <1>6. HostBusy'
    BY <1>1, <1>3, <1>5 DEF HostBusy, FirstStage
  <1>7. Quiet' /\ DataLeft' /\ HidOpen' /\ Toggles'
    BY <1>2, <1>3, <1>4, <1>5 DEF Quiet, DataLeft, HidOpen, Toggles, Apart, HidSame, HostBusy
  <1>8. Memory'
    BY <1>2, <1>5 DEF Memory, Stored
  <1>9. SetupWaits'
    <2> DEFINE a == dev.dc.buf_addr[Out(0)]
    <2>1. a \in DOMAIN dev.pma
      <3>1. dev.dc.buf_len[Out(0)] = Mps /\ Layout(dev.dc)
        BY DEF HostSetup, IInv, Device, Registers, OpenPlaced, Used
      <3>2. a = BtableSize + Mps
        BY <3>1, Sizes DEF Layout, Placed0
      <3>3. QED
        BY <1>5, <3>2, Sizes DEF Memory
    <2>2. dev'.dc.buf_addr[Out(0)] = a
      BY <1>2 DEF Apart
    <2>3. a \in Int
      BY <1>5, <2>1 DEF Memory
    <2> HIDE DEF a
    <2>4. dev'.pma[a] = <<"setup", r>>
      BY <1>2, <2>1, <2>3 DEF Stored, a
    <2>5. QED
      BY <1>2, <1>3, <1>4, <2>2, <2>4 DEF SetupWaits
  <1>10. StatusReady'
    BY <1>4 DEF StatusReady
  <1>11. QED
    BY <1>6, <1>7, <1>8, <1>9, <1>10 DEF Accord

LEMMA DoneDoes ==
  ASSUME NEW h, HostRecord(h)
  PROVE  /\ Done(h).stage = "idle" /\ Done(h).addr = h.addr /\ Done(h).tog = h.tog
         /\ Done(h).configured = h.configured /\ Done(h).halted = h.halted
  BY DEF Done, HostRecord

\* What the host makes of a status packet.
LEMMA AcknowledgedDoes ==
  ASSUME NEW h, HostRecord(h), h.tog \in [Hid -> 0..1]
  PROVE  LET a == Acknowledged(h)
         IN /\ a.stage = "idle"
            /\ a.addr = (IF h.req.code = "SET_ADDRESS" THEN h.req.val ELSE h.addr)
            /\ a.tog \in [Hid -> 0..1]
            /\ h.req.code \in Selects =>
                 /\ a.configured = Opens(h.req) /\ a.halted = FALSE
                 /\ \A ep \in Hid : a.tog[ep] = 0
            /\ h.req.code \notin Selects =>
                 /\ a.configured = h.configured
                 /\ a.halted = TRUE \/ (a.halted = h.halted /\ a.tog = h.tog)
  <1> DEFINE d == Done(h)
             fresh == [ep \in Hid |-> 0]
  <1>1. HostRecord(d) /\ d.stage = "idle" /\ d.addr = h.addr /\ d.tog = h.tog
        /\ d.configured = h.configured /\ d.halted = h.halted
    BY DoneType, DoneDoes
  <1>2. CASE h.req.code = "SET_ADDRESS"
    <2>1. Acknowledged(h) = [d EXCEPT !.addr = h.req.val]
      BY <1>2 DEF Acknowledged
    <2> HIDE DEF d
    <2>2. QED
      BY <1>1, <1>2, <2>1 DEF HostRecord, Selects
  <1>3. CASE h.req.code \in Selects
    <2> DEFINE same == h.req.val = (IF h.req.code = "SET_INTERFACE" THEN 0 ELSE 1)
    <2>1. Acknowledged(h) = [d EXCEPT !.configured = same, !.halted = FALSE, !.tog = fresh]
      BY <1>3 DEF Acknowledged, Selects, Hid
    <2>2. same \in BOOLEAN /\ Opens(h.req) \in BOOLEAN /\ (same <=> Opens(h.req))
      BY <1>3 DEF Opens
    <2> HIDE DEF d
    <2>3. PICK b \in BOOLEAN : b = same
      BY <2>2
    <2>4. Acknowledged(h) = [d EXCEPT !.configured = b, !.halted = FALSE, !.tog = fresh]
      BY <2>1, <2>3
    <2> HIDE DEF same, fresh
    <2>5. LET a == Acknowledged(h)
          IN a.stage = "idle" /\ a.addr = h.addr /\ a.tog = fresh /\ a.configured = b
             /\ a.halted = FALSE
      BY <1>1, <2>4 DEF HostRecord
    <2>6. fresh \in [Hid -> 0..1] /\ \A ep \in Hid : fresh[ep] = 0
      BY DEF fresh
    <2>7. b = Opens(h.req)
      BY <2>2, <2>3
    <2>8. QED
      BY <1>3, <2>5, <2>6, <2>7 DEF Selects
  <1>4. CASE h.req.code = "CLEAR_HALT" /\ h.req.val \in DOMAIN h.tog
    <2>1. Acknowledged(h) = [d EXCEPT !.halted = TRUE, !.tog[h.req.val] = 0]
      BY <1>4 DEF Acknowledged
    <2> HIDE DEF d
    <2>2. LET a == Acknowledged(h)
          IN /\ a.stage = "idle" /\ a.addr = h.addr /\ a.configured = d.configured
             /\ a.halted = TRUE /\ a.tog = [h.tog EXCEPT ![h.req.val] = 0]
      BY <1>1, <2>1 DEF HostRecord
    <2>3. [h.tog EXCEPT ![h.req.val] = 0] \in [Hid -> 0..1]
      <3>1. h.tog \in [Hid -> 0..1] /\ 0 \in 0..1
        OBVIOUS
      <3> DEFINE f == [h.tog EXCEPT ![h.req.val] = 0]
      <3>2. \A ep \in Hid : f[ep] \in 0..1
        BY <3>1
      <3>3. f = [ep \in Hid |-> f[ep]]
        BY <3>1
      <3> HIDE DEF f
      <3>4. f \in [Hid -> 0..1]
        BY <3>2, <3>3
      <3>5. QED
        BY <3>4 DEF f
    <2>4. QED
      BY <1>1, <1>4, <2>2, <2>3 DEF Selects
  <1>5. CASE /\ h.req.code \notin {"SET_ADDRESS"} \union Selects
             /\ ~(h.req.code = "CLEAR_HALT" /\ h.req.val \in DOMAIN h.tog)
    <2>1. Acknowledged(h) = d
      BY <1>5 DEF Acknowledged, Selects
    <2>2. QED
      BY <1>1, <1>5, <2>1
  <1>6. QED
    BY <1>2, <1>3, <1>4, <1>5

LEMMA HostInAccord ==
  ASSUME IInv, Accord, HostIn
  PROVE  Accord'
  <1>1. /\ DeviceType(dev) /\ dev.dc \in RegisterType /\ HostRecord(host) /\ istr_reset = FALSE
        /\ host.stage \in {"in_data", "in_status"} /\ dev.dc.stat[In(0)] = "valid"
    BY HostAwake DEF IInv, Device, Registers, HostType, HostIn
  <1>2. Apart(dev, dev') /\ HidSame(dev.dc, dev'.dc) /\ dev'.pma = dev.pma
    BY <1>1, HostInDoes
  <1>3. HostBusy /\ SetupWaits /\ DataLeft /\ StatusReady /\ HidOpen /\ Toggles /\ Memory
    BY DEF Accord
  <1>4. pending' = pending \union {"in0"} /\ istr_reset' = FALSE /\ "setup" \notin pending
    BY <1>1, <1>3 DEF HostIn, SetupWaits
  <1>5. Quiet' /\ SetupWaits' /\ DataLeft' /\ Memory'
    BY <1>2, <1>3, <1>4 DEF Quiet, SetupWaits, DataLeft, Memory, Apart
  <1>6. CASE host.stage = "in_status"
    <2>1. host' = Acknowledged(host)
      BY <1>6 DEF HostIn
    <2>2. host.req \in Requests
      BY <1>3, <1>6 DEF HostBusy
    <2>3. host.req.code = "SET_ADDRESS" => host.req.val \in 0..1
      BY <2>2, RequestAssumption
    <2>4. host.req.code \in Selects => host.req.n = 0
      BY <2>2, HostAssumption
    <2>5. /\ host'.stage = "idle"
          /\ host'.addr = (IF host.req.code = "SET_ADDRESS" THEN host.req.val ELSE host.addr)
          /\ host'.tog \in [Hid -> 0..1]
          /\ host.req.code \in Selects =>
               /\ host'.configured = Opens(host.req) /\ host'.halted = FALSE
               /\ \A ep \in Hid : host'.tog[ep] = 0
          /\ host.req.code \notin Selects =>
               /\ host'.configured = host.configured
               /\ host'.halted = TRUE \/ (host'.halted = host.halted /\ host'.tog = host.tog)
      BY <1>1, <1>3, <2>1, AcknowledgedDoes DEF HostBusy
    <2>6. HostBusy' /\ StatusReady'
      <3>1. Opens(host.req) \in BOOLEAN
        BY DEF Opens
      <3>2. QED
        BY <1>3, <2>3, <2>5, <3>1 DEF HostBusy, StatusReady
    <2>7. HidOpen' /\ Toggles'
      <3>1. CASE host.req.code \in Selects
        <4>1. Opens(host.req) => Zeroed(dev.dc)
          BY <1>1, <1>3, <1>4, <1>6, <2>4, <3>1 DEF StatusReady
        <4>2. QED
          BY <1>2, <2>5, <3>1, <4>1 DEF HidOpen, Toggles, HidSame, Zeroed
      <3>2. CASE host.req.code \notin Selects
        BY <1>2, <1>3, <2>5, <3>2 DEF HidOpen, Toggles, HidSame
      <3>3. QED
        BY <3>1, <3>2
    <2>8. QED
      BY <1>5, <2>6, <2>7 DEF Accord
  <1>7. CASE host.stage = "in_data"
    <2>1. /\ host'.stage \in {"in_data", "out_status"} /\ host'.req = host.req
          /\ host'.configured = host.configured /\ host'.halted = host.halted
          /\ host'.tog = host.tog /\ host'.addr = host.addr
      BY <1>1, <1>7 DEF HostIn, HostRecord
    <2>2. HostBusy' /\ StatusReady'
      BY <1>3, <1>7, <2>1 DEF HostBusy, StatusReady
    <2>3. HidOpen' /\ Toggles'
      BY <1>2, <1>3, <2>1 DEF HidOpen, Toggles, HidSame
    <2>4. QED
      BY <1>5, <2>2, <2>3 DEF Accord
  <1>8. QED
    BY <1>1, <1>6, <1>7

LEMMA HostOutAccord ==
  ASSUME IInv, Accord, HostOut
  PROVE  Accord'
  <1>1. /\ DeviceType(dev) /\ dev.dc \in RegisterType /\ HostRecord(host) /\ istr_reset = FALSE
        /\ host.stage \in {"out_data", "out_status"} /\ dev.dc.stat[Out(0)] = "valid"
    BY HostAwake DEF IInv, Device, Registers, HostType, HostOut
  <1>2. Apart(dev, dev') /\ HidSame(dev.dc, dev'.dc) /\ DOMAIN dev'.pma = DOMAIN dev.pma
    BY <1>1, HostOutDoes
  <1>3. HostBusy /\ SetupWaits /\ DataLeft /\ HidOpen /\ Toggles /\ Memory
    BY DEF Accord
  <1>4. pending' = pending \union {"out0"} /\ istr_reset' = FALSE /\ "setup" \notin pending
    BY <1>1, <1>3 DEF HostOut, SetupWaits
  <1>5. /\ host'.stage \in {"idle", "out_data", "in_status"}
        /\ host'.stage # "idle" => host.stage = "out_data" /\ host'.req = host.req
        /\ host'.configured = host.configured /\ host'.halted = host.halted
        /\ host'.tog = host.tog /\ host'.addr = host.addr
    <2>1. CASE host.stage = "out_status"
      <3>1. host' = Done(host)
        BY <2>1 DEF HostOut
      <3>2. QED
        BY <1>1, <3>1, DoneDoes
    <2>2. CASE host.stage # "out_status"
      BY <1>1, <2>2 DEF HostOut, HostRecord
    <2>3. QED
      BY <2>1, <2>2
  <1>6. Quiet' /\ SetupWaits' /\ DataLeft' /\ Memory'
    BY <1>2, <1>3, <1>4 DEF Quiet, SetupWaits, DataLeft, Memory, Apart
  <1>7. HostBusy' /\ StatusReady'
    BY <1>3, <1>5 DEF HostBusy, StatusReady
  <1>8. HidOpen' /\ Toggles'
    BY <1>2, <1>3, <1>5 DEF HidOpen, Toggles, HidSame
  <1>9. QED
    BY <1>6, <1>7, <1>8 DEF Accord

LEMMA HostStalledAccord ==
  ASSUME IInv, Accord, HostStalled
  PROVE  Accord'
  <1>1. /\ HostRecord(host) /\ istr_reset = FALSE /\ dev' = dev /\ pending' = pending
        /\ istr_reset' = FALSE /\ dev.dc.stat[In(0)] = "stall"
    BY HostAwake DEF IInv, HostType, HostStalled
  <1>2. HostBusy /\ SetupWaits /\ DataLeft /\ HidOpen /\ Toggles /\ Memory
    BY DEF Accord
  <1>3. /\ host'.stage = "idle" /\ host'.configured = host.configured
        /\ host'.halted = host.halted /\ host'.tog = host.tog /\ host'.addr = host.addr
    BY <1>1, DoneDoes DEF HostStalled
  <1>4. "setup" \notin pending
    BY <1>1, <1>2 DEF SetupWaits
  <1>5. QED
    BY <1>1, <1>2, <1>3, <1>4 DEF Accord, HostBusy, Quiet, SetupWaits, DataLeft, StatusReady,
       HidOpen, Toggles, Memory

\* A toggle changes for both.
LEMMA TogglesFlip ==
  ASSUME NEW f \in [Hid -> 0..1], NEW ep \in Hid
  PROVE  [f EXCEPT ![ep] = 1 - @] \in [Hid -> 0..1]
  OBVIOUS

LEMMA HostReportAccord ==
  ASSUME IInv, Accord, HostReport
  PROVE  Accord'
  <1>1. /\ DeviceType(dev) /\ dev.dc \in RegisterType /\ HostRecord(host) /\ istr_reset = FALSE
        /\ host.configured /\ dev.dc.stat[Out(2)] = "valid" /\ istr_reset' = FALSE
    BY HostAwake DEF IInv, Device, Registers, HostType, HostReport
  <1>2. HostBusy /\ SetupWaits /\ DataLeft /\ StatusReady /\ HidOpen /\ Toggles /\ Memory
    BY DEF Accord
  <1>3. host' = [host EXCEPT !.tog[Out(2)] = 1 - @]
    BY DEF HostReport
  <1>4. /\ host'.stage = host.stage /\ host'.req = host.req /\ host'.addr = host.addr
        /\ host'.configured = host.configured /\ host'.halted = host.halted
        /\ host'.tog = [host.tog EXCEPT ![Out(2)] = 1 - @]
    BY <1>1, <1>3 DEF HostRecord
  <1>5. HostBusy'
    BY <1>2, <1>4, TogglesFlip DEF HostBusy, Hid
  <1>6. CASE host.tog[Out(2)] = dev.dc.dtog[Out(2)]
    <2> DEFINE m == Stored(dev.pma, dev.dc.buf_addr[Out(2)], [i \in 1..Mps |-> <<"report", i>>])
    <2>1. /\ Apart(dev, dev') /\ dev'.pma = m
          /\ dev'.dc.dtog = [dev.dc.dtog EXCEPT ![Out(2)] = 1 - @]
          /\ dev'.dc.stat = [dev.dc.stat EXCEPT ![Out(2)] = "nak"]
      BY <1>1, <1>6, HostReportDoes
    <2>2. pending' = pending \union {"out2"}
      BY <1>6 DEF HostReport
    <2>3. Quiet' /\ DataLeft'
      BY <1>1, <1>2, <2>1 DEF Quiet, DataLeft, Apart
    <2>4. Memory'
      BY <1>2, <2>1 DEF Memory, Stored
    <2>5. SetupWaits'
      <3> DEFINE a == dev.dc.buf_addr[Out(0)]
      <3>1. ASSUME "setup" \in pending PROVE m[a] = dev.pma[a]
        <4>1. Placed0(dev.dc) /\ Layout(dev.dc) /\ dev.dc.buf_len[Out(2)] = Mps
          BY <1>1, <3>1 DEF IInv, Device, Registers, OpenPlaced, Used
        <4>2. PlacedHid(dev.dc)
          BY <4>1, Sizes DEF Layout, PlacedHid
        <4>3. a = BtableSize + Mps /\ dev.dc.buf_addr[Out(2)] = BtableSize
          BY <4>1, <4>2 DEF Layout
        <4>4. a \in DOMAIN dev.pma /\ a - BtableSize = Mps /\ Mps \notin 0..(Mps - 1)
          BY <1>2, <4>3, Sizes DEF Memory
        <4> DEFINE b == [i \in 1..Mps |-> <<"report", i>>]
        <4>5. Len(b) = Mps
          BY Sizes
        <4> HIDE DEF a, b
        <4>6. m[a] = dev.pma[a]
          BY <4>3, <4>4, <4>5 DEF Stored, b
        <4>7. QED
          BY <4>6 DEF a
      <3> HIDE DEF m
      <3>2. "setup" \in pending =>
              /\ dev'.dc.stat[In(0)] = dev.dc.stat[In(0)]
              /\ dev'.dc.stat[Out(0)] = dev.dc.stat[Out(0)]
        BY <1>1, <2>1, AddressesDiffer DEF AddressFacts, RegisterType
      <3>3. QED
        BY <1>2, <1>4, <2>1, <2>2, <3>1, <3>2 DEF SetupWaits, Apart
    <2>6. StatusReady'
      <3>1. ASSUME host.stage = "in_status", host.req.n = 0
            PROVE  ~Opens(host.req)
        BY <1>1, <1>2, <3>1 DEF HostBusy, Opens
      <3>2. QED
        BY <1>2, <1>4, <2>1, <2>2, <3>1 DEF StatusReady, Apart
    <2>7. HidOpen'
      BY <1>1, <1>2, <1>4, <2>1, HidUsed DEF HidOpen, RegisterType
    <2>8. Toggles'
      BY <1>1, <1>2, <1>4, <1>6, <2>1, HidUsed DEF Toggles, HostBusy, RegisterType
    <2>9. QED
      BY <1>5, <2>3, <2>4, <2>5, <2>6, <2>7, <2>8 DEF Accord
  <1>7. CASE host.tog[Out(2)] # dev.dc.dtog[Out(2)]
    <2>1. dev' = dev /\ pending' = pending
      BY <1>7 DEF HostReport
    <2>2. host.halted
      BY <1>1, <1>2, <1>7 DEF Toggles, HostBusy, Hid
    <2>3. QED
      BY <1>1, <1>2, <1>4, <1>5, <2>1, <2>2 DEF Accord, HostBusy, Quiet, SetupWaits, DataLeft,
         StatusReady, HidOpen, Toggles, Memory
  <1>8. QED
    BY <1>6, <1>7

LEMMA HostAnswerAccord ==
  ASSUME IInv, Accord, HostAnswer
  PROVE  Accord'
  <1>1. /\ DeviceType(dev) /\ dev.dc \in RegisterType /\ HostRecord(host) /\ istr_reset = FALSE
        /\ host.configured /\ istr_reset' = FALSE /\ pending' = pending \union {"in1"}
    BY HostAwake DEF IInv, Device, Registers, HostType, HostAnswer
  <1>2. HostBusy /\ SetupWaits /\ DataLeft /\ StatusReady /\ HidOpen /\ Toggles /\ Memory
    BY DEF Accord
  <1>3. /\ Apart(dev, dev') /\ dev'.pma = dev.pma
        /\ dev'.dc.dtog = [dev.dc.dtog EXCEPT ![In(1)] = 1 - @]
        /\ dev'.dc.stat = [dev.dc.stat EXCEPT ![In(1)] = "nak"]
    BY <1>1, HostAnswerDoes
  <1> DEFINE new == host.tog[In(1)] = dev.dc.dtog[In(1)]
  <1>4. /\ host'.stage = host.stage /\ host'.req = host.req /\ host'.addr = host.addr
        /\ host'.configured = host.configured /\ host'.halted = host.halted
        /\ host'.tog = IF new THEN [host.tog EXCEPT ![In(1)] = 1 - @] ELSE host.tog
    <2>1. host' = IF new THEN [host EXCEPT !.tog[In(1)] = 1 - @] ELSE host
      BY DEF HostAnswer
    <2>2. QED
      BY <1>1, <2>1 DEF HostRecord
  <1>5. HostBusy'
    BY <1>2, <1>4, TogglesFlip DEF HostBusy, Hid
  <1>6. Quiet' /\ DataLeft' /\ Memory'
    BY <1>1, <1>2, <1>3 DEF Quiet, DataLeft, Memory, Apart
  <1>7. SetupWaits'
    <2>1. /\ dev'.dc.stat[In(0)] = dev.dc.stat[In(0)]
          /\ dev'.dc.stat[Out(0)] = dev.dc.stat[Out(0)]
      BY <1>1, <1>3, AddressesDiffer DEF AddressFacts, RegisterType
    <2>2. QED
      BY <1>1, <1>2, <1>3, <1>4, <2>1 DEF SetupWaits, Apart
  <1>8. StatusReady'
    <2>1. ASSUME host.stage = "in_status", host.req.n = 0
          PROVE  ~Opens(host.req)
      BY <1>1, <1>2, <2>1 DEF HostBusy, Opens
    <2>2. QED
      BY <1>1, <1>2, <1>3, <1>4, <2>1 DEF StatusReady, Apart
  <1>9. HidOpen'
    BY <1>1, <1>2, <1>3, <1>4, HidUsed DEF HidOpen, RegisterType
  <1>10. Toggles'
    <2>1. host.halted \/ new
      BY <1>1, <1>2 DEF Toggles, HostBusy, Hid
    <2>2. CASE host.halted
      BY <1>4, <2>2 DEF Toggles
    <2>3. CASE new
      BY <1>1, <1>2, <1>3, <1>4, <2>3, HidUsed DEF Toggles, HostBusy, RegisterType
    <2>4. QED
      BY <2>1, <2>2, <2>3
  <1>11. QED
    BY <1>5, <1>6, <1>7, <1>8, <1>9, <1>10 DEF Accord

LEMMA HostResetAccord ==
  ASSUME IInv, Accord, HostReset
  PROVE  Accord'
  <1>1. HostRecord(host) /\ Fields \subseteq DOMAIN dev /\ pending' = {} /\ istr_reset' = TRUE
    BY DEF IInv, Device, DeviceType, HostType, HostReset
  <1>2. /\ dev'.daddr = -1 /\ dev'.residue = dev.residue /\ dev'.setup = dev.setup
        /\ dev'.pma = dev.pma
    BY <1>1 DEF HostReset, Fields
  <1>3. /\ host'.stage = "idle" /\ host'.addr = 0 /\ host'.configured = FALSE
        /\ host'.halted = FALSE /\ host'.tog = [ep \in Hid |-> 0]
        /\ host'.configured \in BOOLEAN /\ host'.halted \in BOOLEAN
    <2> DEFINE d == Done(host)
               fresh == [ep \in Hid |-> 0]
    <2>1. HostRecord(d) /\ d.stage = "idle"
      BY <1>1, DoneType, DoneDoes
    <2>2. host' = [d EXCEPT !.addr = 0, !.configured = FALSE, !.halted = FALSE, !.tog = fresh]
      BY DEF HostReset, Hid
    <2> HIDE DEF d, fresh
    <2>3. /\ host'.stage = "idle" /\ host'.addr = 0 /\ host'.configured = FALSE
          /\ host'.halted = FALSE /\ host'.tog = fresh
          /\ host'.configured \in BOOLEAN /\ host'.halted \in BOOLEAN
      BY <2>1, <2>2 DEF HostRecord
    <2>4. QED
      BY <2>3 DEF fresh
  <1>4. DataLeft /\ Memory
    BY DEF Accord
  <1>5. host'.tog \in [Hid -> 0..1]
    <2>1. [ep \in Hid |-> 0] \in [Hid -> 0..1]
      OBVIOUS
    <2>2. QED
      BY <1>3, <2>1
  <1>6. HostBusy'
    <2>1. host'.configured \in BOOLEAN /\ host'.halted \in BOOLEAN /\ host'.addr \in 0..1
      BY <1>3
    <2>2. host'.stage # "out_data"
      BY <1>3
    <2>3. QED
      BY <1>3, <1>5, <2>1, <2>2 DEF HostBusy
  <1>7. Quiet' /\ SetupWaits' /\ DataLeft' /\ Memory'
    BY <1>1, <1>2, <1>3, <1>4 DEF Quiet, SetupWaits, DataLeft, Memory
  <1>8. StatusReady' /\ HidOpen' /\ Toggles'
    BY <1>3 DEF StatusReady, HidOpen, Toggles
  <1>9. QED
    BY <1>6, <1>7, <1>8 DEF Accord

LEMMA AccordKept ==
  ASSUME IInv, Accord, [Next]_vars
  PROVE  Accord'
  <1>1. CASE Isr
    BY <1>1, ServeSetupAccord, ServeOut0Accord, ServeIn0Accord, ServeIn1Accord, ServeOut2Accord,
       HandleResetAccord DEF Isr
  <1>2. CASE Host
    BY <1>2, HostSetupAccord, HostInAccord, HostOutAccord, HostStalledAccord, HostReportAccord,
       HostAnswerAccord, HostResetAccord DEF Host
  <1>3. CASE UNCHANGED vars
    BY <1>3 DEF vars, Accord, HostBusy, Quiet, SetupWaits, DataLeft, StatusReady, HidOpen,
       Toggles, Memory
  <1>4. QED
    BY <1>1, <1>2, <1>3 DEF Next

\* What the host believes of the device is so in every state: a SETUP that waits is
\* its request, a status packet that is ready means the request was handled, and
\* the HID endpoints of a device it takes for configured are open, with its toggles.
THEOREM InAccord == Spec => []Accord
  <1>1. Init => Accord
    BY AccordInit
  <1>2. IInv /\ Accord /\ [Next]_vars => Accord'
    BY AccordKept
  <1>3. QED
    BY <1>1, <1>2, Invariance, PTL DEF Spec

\* Host and device agree on the next data toggle of the HID endpoints, through every
\* usbd_set_configuration, usbd_set_interface, bus reset and abandoned request.
THEOREM TogglesInStep == Spec => []TogglesAgree
  <1>1. Accord => TogglesAgree
    BY DEF Accord, Toggles, TogglesAgree, Hid
  <1>2. QED
    BY <1>1, InAccord, PTL

\* usbd_ep_open never finds packet memory full: after any sequence of bus resets,
\* configurations and settings the HID endpoints of a configured device are open,
\* with buffers inside packet memory.
THEOREM BuffersOpen == Spec => []BuffersInside
  <1>1. Accord /\ BuffersHeld => BuffersInside
    BY DEF Accord, HidOpen, BuffersInside, Hid
  <1>2. QED
    BY <1>1, InAccord, BuffersGood, PTL
----------------------------------------------------------------------------
\* While the status of a transfer is to come, a completion on endpoint 0 IN is one
\* that was overtaken by the SETUP.
Overtaken ==
  host.stage \in {"in_status", "out_data"} /\ "in0" \in pending /\ "setup" \notin pending => late

LEMMA OvertakenKept ==
  ASSUME IInv, Overtaken, [Next]_vars
  PROVE  Overtaken'
  <1>0. HostRecord(host)
    BY DEF IInv, HostType
  <1>1. ASSUME Isr PROVE Overtaken'
    BY <1>1 DEF Isr, ServeSetup, ServeOut0, ServeIn0, ServeIn1, ServeOut2, HandleReset, Overtaken
  <1>2. ASSUME NEW r \in host.uses, HostSetup(r) PROVE Overtaken'
    BY <1>2 DEF HostSetup, Overtaken
  <1>3. ASSUME HostIn PROVE Overtaken'
    <2>1. CASE host.stage = "in_status"
      <3>1. Acknowledged(host).stage = "idle"
        <4> DEFINE d == Done(host)
        <4>1. HostRecord(d) /\ d.stage = "idle"
          BY <1>0, DoneType, DoneDoes
        <4>2. \A x, y, z : [d EXCEPT !.configured = x, !.halted = y, !.tog = z].stage = "idle"
          <5> HIDE DEF d
          <5>1. QED
            BY <4>1 DEF HostRecord
        <4>3. \A x, y : /\ [d EXCEPT !.addr = x].stage = "idle"
                        /\ [d EXCEPT !.halted = TRUE, !.tog[x] = y].stage = "idle"
          <5> HIDE DEF d
          <5>1. QED
            BY <4>1 DEF HostRecord
        <4>4. QED
          BY <4>1, <4>2, <4>3 DEF Acknowledged
      <3>2. host' = Acknowledged(host)
        BY <1>3, <2>1 DEF HostIn
      <3>3. QED
        BY <3>1, <3>2 DEF Overtaken
    <2>2. CASE host.stage # "in_status"
      <3>1. host'.stage \in {"in_data", "out_status"}
        BY <1>0, <1>3, <2>2 DEF HostIn, HostRecord
      <3>2. QED
        BY <3>1 DEF Overtaken
    <2>3. QED
      BY <2>1, <2>2
  <1>4. ASSUME HostOut PROVE Overtaken'
    <2>1. CASE host.stage = "out_status"
      <3>1. host'.stage = "idle"
        BY <1>0, <1>4, <2>1, DoneDoes DEF HostOut
      <3>2. QED
        BY <3>1 DEF Overtaken
    <2>2. CASE host.stage # "out_status"
      BY <1>4, <2>2 DEF HostOut, Overtaken
    <2>3. QED
      BY <2>1, <2>2
  <1>5. ASSUME HostStalled PROVE Overtaken'
    BY <1>0, <1>5, DoneDoes DEF HostStalled, Overtaken
  <1>6. ASSUME HostReport \/ HostAnswer PROVE Overtaken'
    <2>1. host'.stage = host.stage /\ late' = late
      BY <1>0, <1>6 DEF HostReport, HostAnswer, HostRecord
    <2>2. pending' \subseteq pending \union {"in1", "out2"} /\ pending \subseteq pending'
      BY <1>6 DEF HostReport, HostAnswer
    <2>3. QED
      BY <2>1, <2>2 DEF Overtaken
  <1>7. ASSUME HostReset PROVE Overtaken'
    BY <1>7 DEF HostReset, Overtaken
  <1>8. ASSUME UNCHANGED vars PROVE Overtaken'
    BY <1>8 DEF vars, Overtaken
  <1>9. QED
    BY <1>1, <1>2, <1>3, <1>4, <1>5, <1>6, <1>7, <1>8 DEF Next, Host

\* Only the completion of an IN packet puts an address in force.
LEMMA AddressGiven ==
  ASSUME IInv, Accord, [Next]_vars, ~ServeIn0
  PROVE  dev'.daddr \in {dev.daddr, 0, -1}
  <1>0. DeviceType(dev) /\ dev.dc \in RegisterType
    BY DEF IInv, Device, Registers
  <1>1. ASSUME ServeSetup PROVE dev'.daddr \in {dev.daddr, 0, -1}
    <2>1. Open(dev)
      BY <1>1, PendingOpen DEF ServeSetup
    <2>2. PICK r \in Requests : dev' = Rearmed0(Ep0Setup(dev, r))
      BY <1>1 DEF ServeSetup
    <2> DEFINE e == Ep0Setup(dev, r)
    <2>3. Taken(dev, r, e) /\ Later(dev, e)
      BY <2>1, SetupTaken, SetupLater
    <2> HIDE DEF e
    <2>4. Aside(e, Rearmed0(e))
      BY <2>3, OpenTypes, Rearmed0Aside DEF Later
    <2>5. QED
      BY <2>2, <2>3, <2>4 DEF Taken, Aside, e
  <1>2. ASSUME ServeOut0 PROVE dev'.daddr \in {dev.daddr, 0, -1}
    <2>1. Open(dev) /\ DataLeft
      BY <1>2, PendingOpen DEF ServeOut0, Accord
    <2> DEFINE e == Ep0Out(dev)
    <2>2. Gone(dev, e) /\ Onward(dev, e)
      BY <2>1, OutGone, OutOnward DEF DataLeft
    <2> HIDE DEF e
    <2>3. Aside(e, Rearmed0(e))
      BY <2>2, OnwardOpen, OpenTypes, Rearmed0Aside
    <2>4. dev' = Rearmed0(e)
      BY <1>2 DEF ServeOut0, e
    <2>5. QED
      BY <2>2, <2>3, <2>4 DEF Gone, Aside
  <1>3. ASSUME ServeIn1 \/ HostStalled \/ UNCHANGED vars PROVE dev'.daddr \in {dev.daddr, 0, -1}
    BY <1>3 DEF ServeIn1, HostStalled, vars
  <1>4. ASSUME ServeOut2 PROVE dev'.daddr \in {dev.daddr, 0, -1}
    BY <1>0, <1>4, ServeOut2Does DEF Apart
  <1>5. ASSUME HandleReset PROVE dev'.daddr \in {dev.daddr, 0, -1}
    BY <1>0, <1>5 DEF HandleReset, SetAddress, DeviceType, Fields
  <1>6. ASSUME NEW r \in host.uses, HostSetup(r) PROVE dev'.daddr \in {dev.daddr, 0, -1}
    BY <1>0, <1>6, HostSetupDoes DEF Apart
  <1>7. ASSUME HostIn \/ HostOut \/ HostAnswer PROVE dev'.daddr \in {dev.daddr, 0, -1}
    BY <1>0, <1>7, HostInDoes, HostOutDoes, HostAnswerDoes DEF Apart
  <1>8. ASSUME HostReport PROVE dev'.daddr \in {dev.daddr, 0, -1}
    <2>1. CASE host.tog[Out(2)] = dev.dc.dtog[Out(2)]
      BY <1>0, <1>8, <2>1, HostReportDoes DEF Apart
    <2>2. CASE host.tog[Out(2)] # dev.dc.dtog[Out(2)]
      BY <1>8, <2>2 DEF HostReport
    <2>3. QED
      BY <2>1, <2>2
  <1>9. ASSUME HostReset PROVE dev'.daddr \in {dev.daddr, 0, -1}
    BY <1>0, <1>9 DEF HostReset, DeviceType, Fields
  <1>10. QED
    BY <1>1, <1>2, <1>3, <1>4, <1>5, <1>6, <1>7, <1>8, <1>9 DEF Next, Isr, Host

\* USBD_IRQHandler puts an address in force only when the status packet of
\* SET_ADDRESS has gone out, unless that SETUP overtook a completion.
THEOREM AddressLast == Spec => AddressAfterStatus
  <1> DEFINE Right ==
        dev'.daddr # dev.daddr /\ dev'.daddr > 0 /\ ~late
          => ~(host.req.code = "SET_ADDRESS" /\ host.stage = "in_status")
  <1>1. Init => Overtaken
    BY DEF Init, Overtaken
  <1>2. IInv /\ Overtaken /\ [Next]_vars => Overtaken'
    BY OvertakenKept
  <1>3. IInv /\ Accord /\ Overtaken /\ [Next]_vars => [Right]_vars
    <2>1. SUFFICES ASSUME IInv, Accord, Overtaken, [Next]_vars PROVE Right
      OBVIOUS
    <2>2. CASE ServeIn0
      BY <2>1, <2>2 DEF ServeIn0, Overtaken
    <2>3. CASE ~ServeIn0
      <3>1. dev'.daddr \in {dev.daddr, 0, -1}
        BY <2>1, <2>3, AddressGiven
      <3>2. QED
        BY <3>1
    <2>4. QED
      BY <2>2, <2>3
  <1>4. QED
    BY <1>1, <1>2, <1>3, Invariance, InAccord, PTL DEF Spec, AddressAfterStatus
----------------------------------------------------------------------------
\* k bytes of an object from the m-th on, and how much of it a request gets.
Copy(v, m, k) == [i \in 1..k |-> <<v, m + i>>]
Whole(r) == Least(r.n, ObjectLength(r))

\* The device stands at byte m of the object a request asks for.
Standing(d, r, m) ==
  /\ d.buf = [obj |-> r.val, off |-> m] /\ d.residue = Whole(r) - m
  /\ d.zlp => d.residue = 0

\* Its next packet is ready.
Holding(d, r, m) ==
  LET k == Least(Whole(r) - m, Mps)
  IN /\ Standing(d, r, m + k) /\ d.dc.cnt[In(0)] = k
     /\ Packet(d.dc, d.pma, In(0)) = Copy(r.val, m, k)

\* A request to read that a handler answers.
Reads(r) ==
  /\ r \in Requests /\ r.dir = "in" /\ r.n > 0 /\ ~Unset(r)

\* A request for an object there is.
Known(r) == Whole(r) \in Nat /\ r.val \notin {"req_data", "null"}

LEMMA CopyOf ==
  ASSUME NEW v, NEW m \in Nat, NEW k \in Nat
  PROVE  /\ Copy(v, m, k) \in Seq({v} \X Nat) /\ Len(Copy(v, m, k)) = k
         /\ \A i \in 1..k : Copy(v, m, k)[i] = <<v, m + i>>
  <1>1. \A i \in 1..k : <<v, m + i>> \in {v} \X Nat
    OBVIOUS
  <1>2. QED
    BY <1>1 DEF Copy

LEMMA Joined ==
  ASSUME NEW S, NEW s \in Seq(S), NEW t \in Seq(S), NEW u \in Seq(S),
         Len(u) = Len(s) + Len(t), \A i \in 1..Len(s) : u[i] = s[i],
         \A i \in 1..Len(t) : u[Len(s) + i] = t[i]
  PROVE  s \o t = u
  <1>0. Len(s) \in Nat /\ Len(t) \in Nat
    BY LenProperties
  <1>1. /\ s \o t \in Seq(S) /\ Len(s \o t) = Len(s) + Len(t)
        /\ \A i \in 1..(Len(s) + Len(t)) :
             (s \o t)[i] = IF i <= Len(s) THEN s[i] ELSE t[i - Len(s)]
    BY ConcatProperties
  <1> DEFINE w == s \o t
  <1> HIDE DEF w
  <1>2. ASSUME NEW i \in 1..(Len(s) + Len(t))
        PROVE  w[i] = u[i]
    <2>1. w[i] = IF i <= Len(s) THEN s[i] ELSE t[i - Len(s)]
      BY <1>1 DEF w
    <2>2. CASE i <= Len(s)
      BY <1>0, <2>1, <2>2
    <2>3. CASE i > Len(s)
      <3>1. i - Len(s) \in 1..Len(t) /\ Len(s) + (i - Len(s)) = i /\ ~(i <= Len(s))
        BY <1>0, <2>3
      <3>2. u[Len(s) + (i - Len(s))] = t[i - Len(s)]
        BY <3>1
      <3>3. QED
        BY <2>1, <3>1, <3>2
    <2>4. QED
      BY <1>0, <2>2, <2>3
  <1>3. w \in Seq(S) /\ Len(w) = Len(u)
    BY <1>1 DEF w
  <1>4. w = u
    <2>1. \A i \in 1..Len(w) : w[i] = u[i]
      BY <1>1, <1>2 DEF w
    <2>2. QED
      BY <1>3, <2>1, SeqEqual
  <1>5. QED
    BY <1>4 DEF w

LEMMA CopiesJoin ==
  ASSUME NEW v, NEW m \in Nat, NEW k \in Nat
  PROVE  Copy(v, 0, m) \o Copy(v, m, k) = Copy(v, 0, m + k)
  <1> DEFINE S == {v} \X Nat
             s == Copy(v, 0, m)
             t == Copy(v, m, k)
             u == Copy(v, 0, m + k)
  <1>1. s \in Seq(S) /\ Len(s) = m /\ t \in Seq(S) /\ Len(t) = k /\ u \in Seq(S) /\ Len(u) = m + k
    <2>1. 0 \in Nat /\ m + k \in Nat
      OBVIOUS
    <2>2. QED
      BY <2>1, CopyOf
  <1>2. \A i \in 1..m : u[i] = s[i]
    <2>1. \A i \in 1..m : i \in 1..(m + k)
      OBVIOUS
    <2>2. QED
      BY <2>1 DEF Copy
  <1>3. \A i \in 1..k : u[m + i] = t[i]
    <2>1. \A i \in 1..k : m + i \in 1..(m + k) /\ 0 + (m + i) = m + i
      OBVIOUS
    <2>2. QED
      BY <2>1 DEF Copy
  <1> HIDE DEF S, s, t, u
  <1>4. s \o t = u
    BY <1>1, <1>2, <1>3, Joined
  <1>5. QED
    BY <1>4 DEF s, t, u

\* What a handler offers to a request to read, and how much of it the host gets.
LEMMA HandledReads ==
  ASSUME NEW d, NEW r, DeviceType(d), Reads(r), ~Refused(d, r)
  PROVE  /\ Handled(d, r).buf = [obj |-> r.val, off |-> 0] /\ r.val \notin {"req_data", "null"}
         /\ Handled(d, r).len = ObjectLength(r) /\ ObjectLength(r) \in Nat
  <1>0. /\ r \in Requests /\ r.code \in {"GET_DESCRIPTOR", "GET_STATUS", "GET_REPORT"} /\ ~Unset(r)
        /\ r.to \in {"device", "interface", "class"}
    BY RequestAssumption, HostAssumption DEF Reads
  <1>1. \A obj, n : Answer(d, obj, n).buf = [obj |-> obj, off |-> 0] /\ Answer(d, obj, n).len = n
    BY DEF Answer, DeviceType, Fields
  <1>2. CASE r.code = "GET_DESCRIPTOR"
    <2>1. /\ r.to \in {"device", "interface"}
          /\ r.to = "interface" => r.val = "report"
          /\ r.to = "device" => r.val \in Descriptors
      <3>1. r.to # "class"
        BY <1>0, <1>2, HostAssumption
      <3>2. r.to = "interface" => r.val = "report"
        BY <1>0, <1>2, RequestAssumption DEF Unset
      <3>3. r.to = "device" => r.val \in Descriptors
        BY <1>2 DEF Refused
      <3>4. QED
        BY <1>0, <3>1, <3>2, <3>3
    <2>2. r.val \in Descriptors
      BY <2>1, ControlAssumption
    <2>3. r.val \notin {"req_data", "null"}
      BY <2>2, HostAssumption
    <2>4. ObjectLength(r) = Length[r.val] /\ Length[r.val] \in Nat
      BY <1>2, <2>2, ControlAssumption DEF ObjectLength
    <2>5. Handled(d, r) = Answer(d, r.val, Length[r.val])
      BY <1>2, <2>1 DEF Handled, HidDescriptor, StdDevice
    <2>6. QED
      BY <1>1, <2>3, <2>4, <2>5
  <1>3. CASE r.code = "GET_STATUS"
    <2>1. r.to = "device" /\ r.val = "status"
      BY <1>0, <1>3, RequestAssumption, HostAssumption
    <2>2. Handled(d, r) = Answer(d, "status", 2)
      BY <1>3, <2>1 DEF Handled, StdDevice
    <2>3. QED
      BY <1>1, <1>3, <2>1, <2>2 DEF ObjectLength
  <1>4. CASE r.code = "GET_REPORT"
    <2>1. r.to = "class" /\ r.val = "report_byte"
      BY <1>0, <1>4, RequestAssumption, HostAssumption
    <2>2. Handled(d, r) = Answer(d, "report_byte", 1)
      BY <1>4, <2>1 DEF Handled, HidClass
    <2>3. QED
      BY <1>1, <1>4, <2>1, <2>2 DEF ObjectLength
  <1>5. QED
    BY <1>0, <1>2, <1>3, <1>4

\* What is written to an open endpoint 0 is what it is ready to send.
LEMMA WriteHolds ==
  ASSUME NEW d, NEW v, NEW m \in Nat, NEW k \in Nat, NEW bytes, Open(d), k <= Mps,
         DOMAIN d.pma = 0..(RamSize - 1), bytes = Copy(v, m, k)
  PROVE  LET e == EpWrite(d, In(0), bytes)
         IN /\ e.dc.stat[In(0)] = "valid" /\ e.dc.cnt[In(0)] = k
            /\ e.dc.buf_addr = d.dc.buf_addr /\ DOMAIN e.pma = DOMAIN d.pma
            /\ Packet(e.dc, e.pma, In(0)) = Copy(v, m, k)
            /\ e.buf = d.buf /\ e.residue = d.residue /\ e.zlp = d.zlp
            /\ Fields \subseteq DOMAIN e
  <1> DEFINE a == d.dc.buf_addr[In(0)]
             x == EpArmed(d.dc, In(0), Len(bytes))
             p == Stored(d.pma, d.dc.buf_addr[In(0)], bytes)
             w == [d.written EXCEPT ![In(0)] = bytes]
             e == [[[d EXCEPT !.pma = p] EXCEPT !.dc = x] EXCEPT !.written = w]
  <1>1. DeviceType(d) /\ d.dc \in RegisterType /\ a = BtableSize
    BY Sizes DEF Open, Device, Registers, Layout
  <1>2. EpWrite(d, In(0), bytes) = e
    <2>1. /\ [d EXCEPT !.pma = p].dc = d.dc
          /\ [[d EXCEPT !.pma = p] EXCEPT !.dc = x].written = d.written
      BY <1>1 DEF DeviceType, Fields
    <2>2. QED
      BY <2>1 DEF EpWrite
  <1>3. Len(bytes) = k /\ \A i \in 1..k : bytes[i] = <<v, m + i>>
    BY DEF Copy
  <1>4. /\ x.stat[In(0)] = "valid" /\ x.cnt[In(0)] = k /\ x.buf_addr = d.dc.buf_addr
    BY <1>1, <1>3, AddressesDiffer DEF AddressFacts, EpArmed, RegisterType
  <1>5. DOMAIN p = DOMAIN d.pma /\ \A i \in 1..k : p[BtableSize + i - 1] = <<v, m + i>>
    <2>1. DOMAIN p = DOMAIN d.pma
      BY DEF Stored
    <2>2. ASSUME NEW i \in 1..k
          PROVE  p[BtableSize + i - 1] = <<v, m + i>>
      <3> DEFINE b == BtableSize + i - 1
      <3>1. b \in DOMAIN d.pma /\ b - BtableSize \in 0..(k - 1) /\ b - BtableSize + 1 = i
        BY Sizes
      <3> HIDE DEF b
      <3>2. p[b] = bytes[i]
        BY <1>1, <1>3, <3>1 DEF Stored
      <3>3. QED
        BY <1>3, <3>2 DEF b
    <2>3. QED
      BY <2>1, <2>2
  <1>6. Packet(x, p, In(0)) = Copy(v, m, k)
    <2> HIDE DEF p, x
    <2>1. QED
      BY <1>1, <1>4, <1>5 DEF Packet, Loaded, Copy
  <1> HIDE DEF p, x, w
  <1>7. /\ e.dc = x /\ e.pma = p /\ e.buf = d.buf /\ e.residue = d.residue /\ e.zlp = d.zlp
        /\ Fields \subseteq DOMAIN e
    BY <1>1 DEF DeviceType, Fields
  <1> HIDE DEF e
  <1>8. QED
    BY <1>2, <1>4, <1>5, <1>6, <1>7

\* usbd_send_to_host, from byte m on.
LEMMA SendHolds ==
  ASSUME NEW d, NEW r, NEW m \in 0..Whole(r), Open(d), Whole(r) \in Nat,
         r.val \notin {"req_data", "null"}, DOMAIN d.pma = 0..(RamSize - 1), Standing(d, r, m)
  PROVE  Holding(SendToHost(d), r, m) /\ SendToHost(d).dc.stat[In(0)] = "valid"
  <1> DEFINE k == Least(Whole(r) - m, Mps)
  <1>0. /\ m \in Nat /\ Whole(r) - m \in Nat /\ k \in Nat /\ k <= Mps /\ k <= Whole(r) - m
        /\ d.residue = Whole(r) - m /\ d.buf = [obj |-> r.val, off |-> m]
        /\ DeviceType(d) /\ d.zlp \in BOOLEAN
    <2>1. m \in Nat /\ Whole(r) - m \in Nat /\ Mps \in Nat
      BY Sizes
    <2>2. k \in Nat /\ k <= Mps /\ k <= Whole(r) - m
      BY <2>1, LeastOf
    <2>3. DeviceType(d)
      BY DEF Open, Device
    <2>4. QED
      BY <2>1, <2>2, <2>3 DEF Standing, DeviceType
  <1> HIDE DEF k
  <1>1. CASE d.zlp
    <2> DEFINE z == [d EXCEPT !.zlp = FALSE]
               w == EpWrite(z, In(0), <<>>)
    <2>1. /\ Open(z) /\ z.pma = d.pma /\ z.buf = d.buf /\ z.residue = d.residue /\ ~z.zlp
      BY <1>0 DEF Open, Device, DeviceType, Fields
    <2>2. k = 0 /\ d.residue = 0 /\ Whole(r) - m = 0
      BY <1>0, <1>1, Sizes DEF Standing, Least, k
    <2>3. <<>> = Copy(r.val, m, 0)
      BY DEF Copy
    <2>4. SendToHost(d) = w
      BY <1>1 DEF SendToHost
    <2> HIDE DEF z
    <2>5. /\ w.dc.stat[In(0)] = "valid" /\ w.dc.cnt[In(0)] = 0
          /\ Packet(w.dc, w.pma, In(0)) = Copy(r.val, m, 0)
          /\ w.buf = z.buf /\ w.residue = z.residue /\ w.zlp = z.zlp
      BY <1>0, <2>1, <2>3, Sizes, WriteHolds
    <2> HIDE DEF w
    <2>6. m + k = m /\ Standing(w, r, m)
      BY <1>0, <2>1, <2>2, <2>5 DEF Standing
    <2>7. QED
      BY <2>2, <2>4, <2>5, <2>6 DEF Holding, k
  <1>2. CASE ~d.zlp
    <2> DEFINE b == BytesAt(d, k)
               w == EpWrite(d, In(0), b)
               flag == ZlpAfter(d, k)
               e == [w EXCEPT !.buf.off = @ + k, !.residue = @ - k, !.zlp = flag]
    <2>1. Least(d.residue, Mps) = k /\ d.buf.obj # "null" /\ d.buf.obj # "req_data"
      BY <1>0 DEF k
    <2>2. SendToHost(d) = e
      BY <1>2, <2>1 DEF SendToHost
    <2>3. b = Copy(r.val, m, k)
      BY <1>0, <2>1 DEF BytesAt, Copy
    <2>4. flag => d.residue = k
      BY DEF ZlpAfter
    <2> HIDE DEF b, flag
    <2>5. /\ w.dc.stat[In(0)] = "valid" /\ w.dc.cnt[In(0)] = k
          /\ Packet(w.dc, w.pma, In(0)) = Copy(r.val, m, k)
          /\ w.buf = d.buf /\ w.residue = d.residue /\ Fields \subseteq DOMAIN w
      BY <1>0, <2>3, WriteHolds
    <2> HIDE DEF w
    <2>6. /\ e.dc = w.dc /\ e.pma = w.pma /\ e.buf = [obj |-> r.val, off |-> m + k]
          /\ e.residue = Whole(r) - (m + k) /\ (e.zlp => e.residue = 0)
      <3>1. /\ e.dc = w.dc /\ e.pma = w.pma /\ e.buf = [w.buf EXCEPT !.off = @ + k]
            /\ e.residue = w.residue - k /\ e.zlp = flag
        BY <2>5 DEF Fields
      <3>2. [w.buf EXCEPT !.off = @ + k] = [obj |-> r.val, off |-> m + k]
        BY <1>0, <2>5
      <3> HIDE DEF e
      <3>3. QED
        BY <1>0, <2>4, <2>5, <3>1, <3>2
    <2> HIDE DEF e
    <2>7. QED
      BY <2>2, <2>5, <2>6 DEF Holding, Standing, k
  <1>3. QED
    BY <1>0, <1>1, <1>2

\* What the handler makes of a SETUP that asks for an object.
LEMMA SetupReads ==
  ASSUME NEW d, NEW r, Open(d), Reads(r), DOMAIN d.pma = 0..(RamSize - 1)
  PROVE  LET e == Ep0Setup(d, r)
         IN \/ e.dc.stat[In(0)] = "stall"
            \/ Known(r) /\ e.dc.stat[In(0)] = "valid" /\ Holding(e, r, 0)
  <1> DEFINE b == Begun(d, r)
             h == Handled(b, r)
             n == Offered(h)
             o == [h EXCEPT !.residue = n]
  <1>0. r \in Requests /\ r.n \in Nat /\ r.dir = "in"
    BY RequestAssumption DEF Reads
  <1>1. /\ Open(b) /\ b.setup = r /\ ~b.zlp /\ b.pma = d.pma
    BY <1>0 DEF Begun, Open, Device, DeviceType, Fields
  <1>2. Ep0Setup(d, r) = IF Refused(b, r) THEN StalledIn(b) ELSE SendToHost(o)
    BY <1>0 DEF Ep0Setup
  <1> HIDE DEF b
  <1>3. StalledIn(b).dc.stat[In(0)] = "stall"
    BY <1>1, OpenTypes, StalledAside
  <1>4. ASSUME ~Refused(b, r)
        PROVE  /\ Known(r)
               /\ Holding(SendToHost(o), r, 0) /\ SendToHost(o).dc.stat[In(0)] = "valid"
    <2>1. Onward(b, h)
      BY <1>0, <1>1, <1>4, HandledOnward
    <2>2. Mild(b, h)
      BY <1>0, <1>1, OpenTypes, HandledMild
    <2>3. /\ h.buf = [obj |-> r.val, off |-> 0] /\ r.val \notin {"req_data", "null"}
          /\ h.len = ObjectLength(r) /\ ObjectLength(r) \in Nat
      BY <1>1, <1>4, OpenTypes, HandledReads
    <2> HIDE DEF h
    <2>4. Open(h) /\ h.setup = r
      BY <1>1, <2>1, OnwardOpen DEF Onward
    <2>5. n = Whole(r) /\ Whole(r) \in Nat
      <3>1. \A x, y \in Nat : Least(x, y) = Least(y, x)
        BY DEF Least
      <3>2. Least(ObjectLength(r), r.n) = Least(r.n, ObjectLength(r))
        BY <1>0, <2>3, <3>1
      <3>3. Offered(h) = Least(ObjectLength(r), r.n)
        BY <2>3, <2>4 DEF Offered
      <3>4. Least(r.n, ObjectLength(r)) \in Nat
        BY <1>0, <2>3, LeastOf
      <3>5. QED
        BY <3>2, <3>3, <3>4 DEF Whole
    <2> HIDE DEF n
    <2>6. Open(o) /\ DOMAIN o.pma = DOMAIN d.pma /\ Standing(o, r, 0)
      <3>1. /\ DeviceType(o) /\ o.dc = h.dc /\ o.configuration = h.configuration
            /\ o.buf = h.buf /\ o.residue = n /\ o.zlp = h.zlp /\ o.pma = h.pma
        BY <1>0, <2>4, <2>5 DEF Open, Device, DeviceType, Fields
      <3> HIDE DEF o
      <3>2. ~h.zlp /\ DOMAIN h.pma = DOMAIN d.pma
        BY <1>1, <2>2 DEF Mild
      <3>3. QED
        BY <2>3, <2>4, <2>5, <3>1, <3>2 DEF Standing, Open, Device
    <2> HIDE DEF o
    <2>7. 0 \in 0..Whole(r)
      BY <2>5
    <2>8. Known(r)
      BY <2>3, <2>5 DEF Known
    <2>9. QED
      BY <2>6, <2>7, <2>8, SendHolds DEF Known
  <1>5. QED
    BY <1>2, <1>3, <1>4

\* What touches neither endpoint 0's IN registers nor its buffer leaves its packet.
Same0(d, e) ==
  /\ e.buf = d.buf /\ e.residue = d.residue /\ e.zlp = d.zlp
  /\ e.dc.stat[In(0)] = d.dc.stat[In(0)] /\ e.dc.cnt[In(0)] = d.dc.cnt[In(0)]
  /\ e.dc.buf_addr = d.dc.buf_addr
  /\ \A a \in BtableSize..(BtableSize + Mps - 1) : e.pma[a] = d.pma[a]

LEMMA StillHolding ==
  ASSUME NEW d, NEW e, NEW r, NEW m \in 0..Whole(r), Open(d), Whole(r) \in Nat,
         Same0(d, e), Holding(d, r, m)
  PROVE  Holding(e, r, m)
  <1> DEFINE k == Least(Whole(r) - m, Mps)
  <1>1. d.dc.buf_addr[In(0)] = BtableSize
    BY DEF Open, Device, Registers, Layout
  <1>2. k \in Nat /\ k <= Mps
    <2>1. Whole(r) - m \in Nat /\ Mps \in Nat
      BY Sizes
    <2>2. QED
      BY <2>1, LeastOf
  <1>3. Standing(d, r, m + k) /\ d.dc.cnt[In(0)] = k /\ Packet(d.dc, d.pma, In(0)) = Copy(r.val, m, k)
    BY DEF Holding
  <1> HIDE DEF k
  <1>4. \A i \in 1..k : BtableSize + i - 1 \in BtableSize..(BtableSize + Mps - 1)
    BY <1>2, Sizes
  <1>5. Packet(e.dc, e.pma, In(0)) = Packet(d.dc, d.pma, In(0))
    BY <1>1, <1>3, <1>4 DEF Packet, Loaded, Same0
  <1>6. Standing(e, r, m + k) /\ e.dc.cnt[In(0)] = k
    BY <1>3 DEF Standing, Same0
  <1>7. QED
    BY <1>3, <1>5, <1>6 DEF Holding, k

LEMMA Rearmed0Same ==
  ASSUME NEW d, DeviceType(d), d.dc \in RegisterType
  PROVE  Same0(d, Rearmed0(d))
  <1> DEFINE v == EpRearmed(d.dc, Out(0))
  <1>1. /\ v.stat[In(0)] = d.dc.stat[In(0)] /\ v.cnt = d.dc.cnt /\ v.buf_addr = d.dc.buf_addr
    BY AddressesDiffer DEF AddressFacts, EpRearmed, RegisterType
  <1>2. Rearmed0(d) = [d EXCEPT !.dc = v]
    BY DEF Rearmed0
  <1> HIDE DEF v
  <1>3. /\ Rearmed0(d).dc = v /\ Rearmed0(d).pma = d.pma /\ Rearmed0(d).buf = d.buf
        /\ Rearmed0(d).residue = d.residue /\ Rearmed0(d).zlp = d.zlp
    BY <1>2 DEF DeviceType, Fields
  <1>4. QED
    BY <1>1, <1>3 DEF Same0

\* A read that the device has begun to answer: the host has the first m bytes, and
\* the packet that follows them is in the buffer when endpoint 0 is ready.
Underway(d, r, m, sent) ==
  /\ d.dc.stat[In(0)] # "stall"
  /\ sent => d.dc.stat[In(0)] = "nak" /\ Standing(d, r, m)
  /\ d.dc.stat[In(0)] = "valid" => Holding(d, r, m)

Serving == host.stage = "in_data" /\ "setup" \notin pending /\ ~late /\ ~Unset(host.req)

Reading ==
  Serving =>
    \/ dev.dc.stat[In(0)] = "stall" /\ "in0" \notin pending
    \/ Known(host.req) /\ \E m \in 0..Whole(host.req) :
         host.got = Copy(host.req.val, 0, m) /\ Underway(dev, host.req, m, "in0" \in pending)

\* Only a request with data to read is read, and nothing was read before SETUP is
\* served.
ReadOnly ==
  /\ host.stage = "in_data" =>
       host.req.dir = "in" /\ host.req.n > 0 /\ "out0" \notin pending
  /\ "setup" \in pending => host.got = <<>>

Aligned == Reading /\ ReadOnly /\ InDataWhole

\* The host looks on.
LEMMA HostLooksOn ==
  ASSUME Accord, Aligned, host' = host, pending' \subseteq pending, late' = late
  PROVE  ReadOnly' /\ InDataWhole' /\ (Serving' /\ "setup" \notin pending => Serving)
  BY DEF Aligned, ReadOnly, InDataWhole, Serving

LEMMA ServeSetupReads ==
  ASSUME IInv, Accord, Aligned, ServeSetup
  PROVE  Aligned'
  <1> DEFINE r == host.req
  <1>1. Open(dev) /\ "setup" \in pending
    BY PendingOpen DEF ServeSetup, IInv
  <1>2. SetupWaits /\ HostBusy /\ Memory
    BY DEF Accord
  <1>3. dev' = Rearmed0(Ep0Setup(dev, r))
    BY <1>1, <1>2 DEF ServeSetup, SetupWaits
  <1>4. host' = host /\ pending' = pending \ {"setup"} /\ (late' <=> "in0" \in pending)
    BY DEF ServeSetup
  <1>5. host.stage = FirstStage(r) /\ host.got = <<>> /\ r \in Requests
    BY <1>1, <1>2 DEF SetupWaits, HostBusy, FirstStage, Aligned, ReadOnly
  <1>6. ReadOnly' /\ InDataWhole'
    BY <1>4, <1>5 DEF Aligned, ReadOnly, InDataWhole, FirstStage
  <1>7. ASSUME Serving' PROVE Reading'
    <2>1. Reads(r) /\ "in0" \notin pending'
      BY <1>4, <1>5, <1>7 DEF Serving, Reads, Aligned, ReadOnly
    <2> DEFINE e == Ep0Setup(dev, r)
    <2>2. Later(dev, e)
      BY <1>1, <1>5, SetupLater
    <2>3. \/ e.dc.stat[In(0)] = "stall"
          \/ Known(r) /\ e.dc.stat[In(0)] = "valid" /\ Holding(e, r, 0)
      BY <1>1, <1>2, <2>1, SetupReads DEF Memory
    <2> HIDE DEF e
    <2>4. Open(e) /\ Same0(e, Rearmed0(e))
      BY <2>2, OpenTypes, Rearmed0Same DEF Later
    <2>5. CASE e.dc.stat[In(0)] = "stall"
      BY <1>3, <2>1, <2>4, <2>5 DEF Reading, Same0, e
    <2>6. CASE Known(r) /\ e.dc.stat[In(0)] = "valid" /\ Holding(e, r, 0)
      <3>1. 0 \in 0..Whole(r)
        BY <2>6 DEF Known
      <3>2. Holding(Rearmed0(e), r, 0)
        BY <2>4, <2>6, <3>1, StillHolding DEF Known
      <3>3. Underway(dev', r, 0, "in0" \in pending')
        BY <1>3, <2>1, <2>4, <2>6, <3>2 DEF Underway, Same0, e
      <3>4. <<>> = Copy(r.val, 0, 0)
        BY DEF Copy
      <3>5. QED
        BY <1>4, <1>5, <2>6, <3>1, <3>3, <3>4 DEF Reading
    <2>7. QED
      BY <2>3, <2>5, <2>6
  <1>8. QED
    BY <1>6, <1>7 DEF Aligned, Reading

LEMMA ServeIn0Reads ==
  ASSUME IInv, Accord, Aligned, ServeIn0
  PROVE  Aligned'
  <1> DEFINE r == host.req
  <1>1. Open(dev) /\ "in0" \in pending /\ "setup" \notin pending
    BY PendingOpen DEF ServeIn0, IInv
  <1>2. host' = host /\ pending' = pending \ {"in0"} /\ late' = late /\ dev' = Ep0In(dev)
    BY DEF ServeIn0
  <1>3. ReadOnly' /\ InDataWhole' /\ (Serving' => Serving)
    BY <1>1, <1>2, HostLooksOn
  <1>4. ASSUME Serving PROVE Reading'
    <2>1. PICK m \in 0..Whole(r) : host.got = Copy(r.val, 0, m) /\ Underway(dev, r, m, TRUE)
      BY <1>1, <1>4 DEF Aligned, Reading
    <2>2. Known(r)
      BY <1>1, <1>4 DEF Aligned, Reading
    <2>3. dev.dc.stat[In(0)] = "nak" /\ Standing(dev, r, m)
      BY <2>1 DEF Underway
    <2> DEFINE s == IF dev.residue # 0 \/ dev.zlp THEN SendToHost(dev) ELSE dev
               e == [s EXCEPT !.daddr = s.dev_addr, !.dev_addr = 0]
    <2>4. dev' = e \/ dev' = s
      BY <1>2 DEF Ep0In
    <2>5. Open(s)
      BY <1>1, SendOnward, OnwardOpen
    <2>6. Underway(s, r, m, FALSE)
      <3>1. Holding(SendToHost(dev), r, m) /\ SendToHost(dev).dc.stat[In(0)] = "valid"
        BY <1>1, <2>2, <2>3, SendHolds DEF Known, Accord, Memory
      <3>2. QED
        BY <2>3, <3>1 DEF Underway
    <2> HIDE DEF s
    <2>7. e.dc = s.dc /\ e.pma = s.pma /\ e.buf = s.buf /\ e.residue = s.residue /\ e.zlp = s.zlp
      BY <2>5 DEF Open, Device, DeviceType, Fields
    <2> HIDE DEF e
    <2>8. Underway(dev', r, m, FALSE)
      BY <2>4, <2>6, <2>7 DEF Underway, Holding, Standing
    <2>9. Underway(dev', r, m, "in0" \in pending')
      BY <1>2, <2>8 DEF Underway
    <2>10. QED
      BY <1>2, <2>1, <2>2, <2>9 DEF Reading
  <1>5. QED
    BY <1>3, <1>4 DEF Aligned, Reading

\* A step that leaves endpoint 0's IN side alone.
LEMMA AsideReads ==
  ASSUME Accord, Aligned, Serving, Open(dev), Same0(dev, dev'), host'.got = host.got,
         host'.req = host.req, "in0" \in pending <=> "in0" \in pending'
  PROVE  Reading'
  <1> DEFINE r == host.req
  <1>1. CASE dev.dc.stat[In(0)] = "stall" /\ "in0" \notin pending
    BY <1>1 DEF Same0, Reading
  <1>2. CASE ~(dev.dc.stat[In(0)] = "stall" /\ "in0" \notin pending)
    <2>1. Known(r)
      BY <1>2 DEF Aligned, Reading
    <2>2. PICK m \in 0..Whole(r) :
            host.got = Copy(r.val, 0, m) /\ Underway(dev, r, m, "in0" \in pending)
      BY <1>2 DEF Aligned, Reading
    <2>3. dev.dc.stat[In(0)] = "valid" => Holding(dev', r, m)
      BY <2>1, <2>2, StillHolding DEF Underway, Known
    <2>4. Underway(dev', r, m, "in0" \in pending')
      BY <2>2, <2>3 DEF Underway, Same0, Standing
    <2>5. QED
      BY <2>1, <2>2, <2>4 DEF Reading
  <1>3. QED
    BY <1>1, <1>2

\* The answer is written behind endpoint 0's IN buffer.
LEMMA ServeOut2Same ==
  ASSUME Open(dev), PlacedHid(dev.dc), Memory, ServeOut2
  PROVE  Same0(dev, dev')
  <1> DEFINE b == [i \in 1..Mps |-> <<"answer", i>>]
             m == Stored(dev.pma, dev.dc.buf_addr[In(1)], b)
             v == EpArmed(dev.dc, In(1), Len(b))
             w == [dev.written EXCEPT ![In(1)] = b]
             d == [[[dev EXCEPT !.pma = m] EXCEPT !.dc = v] EXCEPT !.written = w]
             x == EpRearmed(v, Out(2))
  <1>0. DeviceType(dev) /\ dev.dc \in RegisterType /\ dev.dc.buf_addr[In(1)] = BtableSize + Mps
    BY OpenTypes DEF Open, Device, Registers, Layout
  <1>1. \A a \in BtableSize..(BtableSize + Mps - 1) : m[a] = dev.pma[a]
    <2>1. TAKE a \in BtableSize..(BtableSize + Mps - 1)
    <2>2. a \in DOMAIN dev.pma /\ ~(a - (BtableSize + Mps) >= 0) /\ Len(b) = Mps
      BY Sizes DEF Memory
    <2> HIDE DEF b
    <2>3. a - (BtableSize + Mps) \notin 0..(Len(b) - 1)
      BY <2>2, Sizes
    <2>4. QED
      BY <1>0, <2>2, <2>3 DEF Stored
  <1>2. /\ v.cnt[In(0)] = dev.dc.cnt[In(0)] /\ v.buf_addr = dev.dc.buf_addr
        /\ v.stat[In(0)] = dev.dc.stat[In(0)] /\ "stat" \in DOMAIN v
    BY <1>0, AddressesDiffer DEF AddressFacts, EpArmed, RegisterType
  <1>3. dev' = [d EXCEPT !.dc = EpRearmed(@, Out(2))]
    <2>1. /\ [dev EXCEPT !.pma = m].dc = dev.dc
          /\ [[dev EXCEPT !.pma = m] EXCEPT !.dc = v].written = dev.written
      BY <1>0 DEF DeviceType, Fields
    <2>2. EpWrite(dev, In(1), b) = d
      BY <2>1 DEF EpWrite
    <2>3. QED
      BY <2>2 DEF ServeOut2
  <1> HIDE DEF b, m, v, w
  <1>4. /\ x.cnt = v.cnt /\ x.buf_addr = v.buf_addr
        /\ x.stat[In(0)] = v.stat[In(0)]
    BY <1>2, AddressesDiffer DEF AddressFacts, EpRearmed
  <1> HIDE DEF x
  <1>5. /\ dev'.dc = x /\ dev'.pma = m /\ dev'.buf = dev.buf /\ dev'.residue = dev.residue
        /\ dev'.zlp = dev.zlp
    BY <1>0, <1>3 DEF DeviceType, Fields, x
  <1>6. QED
    BY <1>1, <1>2, <1>4, <1>5 DEF Same0

LEMMA HostAnswerSame ==
  ASSUME DeviceType(dev), dev.dc \in RegisterType, HostAnswer
  PROVE  Same0(dev, dev')
  <1>1. /\ dev'.dc.stat = [dev.dc.stat EXCEPT ![In(1)] = "nak"] /\ dev'.dc.cnt = dev.dc.cnt
        /\ dev'.dc.buf_addr = dev.dc.buf_addr /\ dev'.pma = dev.pma /\ dev'.buf = dev.buf
        /\ dev'.residue = dev.residue /\ dev'.zlp = dev.zlp
    BY DEF HostAnswer, DeviceType, Fields, RegisterType
  <1>2. dev'.dc.stat[In(0)] = dev.dc.stat[In(0)]
    BY <1>1, AddressesDiffer DEF AddressFacts, RegisterType
  <1>3. QED
    BY <1>1, <1>2 DEF Same0

LEMMA IsrReads ==
  ASSUME IInv, Accord, Aligned, Isr
  PROVE  Aligned'
  <1>1. CASE ServeOut0
    <2>1. /\ host' = host /\ pending' \subseteq pending /\ late' = late
          /\ "out0" \in pending /\ "setup" \notin pending
      BY <1>1 DEF ServeOut0, Accord, SetupWaits
    <2>2. ~Serving
      BY <2>1 DEF Serving, Aligned, ReadOnly
    <2>3. QED
      BY <2>1, <2>2, HostLooksOn DEF Aligned, Reading
  <1>2. CASE ServeIn1 \/ ServeOut2
    <2>1. /\ host' = host /\ pending' \subseteq pending /\ late' = late
          /\ "setup" \notin pending /\ Open(dev) /\ ("in0" \in pending <=> "in0" \in pending')
      BY <1>2, PendingOpen DEF ServeIn1, ServeOut2, IInv
    <2>2. ReadOnly' /\ InDataWhole' /\ (Serving' => Serving)
      BY <2>1, HostLooksOn
    <2>3. Same0(dev, dev')
      <3>1. CASE ServeIn1
        BY <3>1 DEF ServeIn1, Same0
      <3>2. CASE ServeOut2
        BY <2>1, <3>2, ServeOut2Same DEF ServeOut2, IInv, Accord
      <3>3. QED
        BY <1>2, <3>1, <3>2
    <2>4. QED
      BY <2>1, <2>2, <2>3, AsideReads DEF Aligned, Reading
  <1>3. CASE HandleReset
    <2>1. host' = host /\ pending' = pending /\ pending = {} /\ host.stage = "idle"
      BY <1>3 DEF HandleReset, Accord, Quiet
    <2>2. QED
      BY <2>1 DEF Aligned, Reading, Serving, ReadOnly, InDataWhole
  <1>4. QED
    BY <1>1, <1>2, <1>3, ServeSetupReads, ServeIn0Reads DEF Isr

LEMMA HostSetupReads ==
  ASSUME IInv, Aligned, NEW r \in host.uses, HostSetup(r)
  PROVE  Aligned'
  <1>1. r \in Requests /\ HostRecord(host)
    BY DEF IInv, HostType, HostRecord, Requests
  <1>2. r.n \in Nat
    BY <1>1, RequestAssumption
  <1>3. /\ host'.stage = FirstStage(r) /\ host'.req = r /\ host'.got = <<>>
        /\ pending' = pending \union {"setup"} /\ "out0" \notin pending
    BY <1>1 DEF HostSetup, HostRecord
  <1>4. QED
    BY <1>2, <1>3 DEF Aligned, Reading, Serving, ReadOnly, InDataWhole, FirstStage

\* The host takes a packet.
LEMMA HostInReads ==
  ASSUME IInv, Accord, Aligned, HostIn
  PROVE  Aligned'
  <1> DEFINE r == host.req
             packet == Packet(dev.dc, dev.pma, In(0))
             got == host.got \o packet
  <1>1. /\ DeviceType(dev) /\ dev.dc \in RegisterType /\ HostRecord(host)
        /\ host.stage \in {"in_data", "in_status"} /\ dev.dc.stat[In(0)] = "valid"
        /\ pending' = pending \union {"in0"} /\ late' = late
    BY DEF IInv, Device, Registers, HostType, HostIn
  <1>2. "setup" \notin pending
    BY <1>1 DEF Accord, SetupWaits
  <1>3. /\ dev'.buf = dev.buf /\ dev'.residue = dev.residue /\ dev'.zlp = dev.zlp
        /\ dev'.dc.stat[In(0)] = "nak"
    BY <1>1, AddressesDiffer DEF AddressFacts, HostIn, DeviceType, Fields, RegisterType
  <1>4. CASE host.stage = "in_status"
    <2>1. host' = Acknowledged(host) /\ host.tog \in [Hid -> 0..1]
      BY <1>4 DEF HostIn, Accord, HostBusy
    <2>2. host'.stage = "idle"
      BY <1>1, <2>1, AcknowledgedDoes
    <2>3. QED
      BY <1>1, <1>2, <2>2 DEF Aligned, Reading, Serving, ReadOnly, InDataWhole
  <1>5. CASE host.stage = "in_data"
    <2>1. /\ host'.req = r /\ host'.got = got
          /\ host'.stage = IF Len(packet) < Mps \/ Len(got) >= r.n THEN "out_status"
                           ELSE "in_data"
      BY <1>1, <1>5 DEF HostIn, HostRecord
    <2>2. ReadOnly'
      BY <1>1, <1>2, <1>5, <2>1 DEF Aligned, ReadOnly
    <2>3. CASE ~Serving
      BY <1>1, <1>2, <1>5, <2>1, <2>2, <2>3 DEF Aligned, Reading, Serving, InDataWhole
    <2>4. CASE Serving
      <3>1. Known(r)
        BY <1>1, <2>4 DEF Aligned, Reading
      <3>2. PICK m \in 0..Whole(r) : host.got = Copy(r.val, 0, m) /\ Holding(dev, r, m)
        BY <1>1, <2>4 DEF Aligned, Reading, Underway
      <3> DEFINE k == Least(Whole(r) - m, Mps)
      <3>3. /\ Whole(r) \in Nat /\ m \in Nat /\ Whole(r) - m \in Nat /\ k \in Nat
            /\ k <= Mps /\ k <= Whole(r) - m /\ (k < Mps => k = Whole(r) - m)
        <4>1. m \in Nat /\ Whole(r) \in Nat /\ Whole(r) - m \in Nat /\ Mps \in Nat
          BY <3>1, Sizes DEF Known
        <4>2. QED
          BY <4>1, LeastOf DEF Least
      <3>4. packet = Copy(r.val, m, k) /\ Standing(dev, r, m + k)
        BY <3>2 DEF Holding
      <3> HIDE DEF k, packet
      <3>5. got = Copy(r.val, 0, m + k) /\ Len(packet) = k /\ Len(got) = m + k
        <4>1. Len(packet) = k
          BY <3>3, <3>4, CopyOf
        <4>2. got = Copy(r.val, 0, m + k)
          BY <3>2, <3>3, <3>4, CopiesJoin
        <4>3. 0 \in Nat /\ m + k \in Nat
          BY <3>3
        <4> HIDE DEF got
        <4>4. Len(got) = m + k
          BY <4>2, <4>3, CopyOf
        <4>5. QED
          BY <4>1, <4>2, <4>4
      <3> HIDE DEF got
      <3>6. CASE Len(packet) < Mps \/ Len(got) >= r.n
        <4>1. m + k = Whole(r)
          <5>1. r.n \in Nat /\ Whole(r) <= r.n
            <6>1. r.n \in Nat
              BY <1>5, RequestAssumption DEF Accord, HostBusy
            <6>2. QED
              BY <3>3, <6>1 DEF Whole, Least
          <5>2. QED
            BY <3>3, <3>5, <3>6, <5>1, Sizes
        <4>2. got = Expected(r)
          BY <3>3, <3>5, <4>1 DEF Expected, Copy, Whole
        <4>3. QED
          BY <1>1, <2>1, <2>2, <3>6, <4>2 DEF Aligned, Reading, Serving, InDataWhole
      <3>7. CASE ~(Len(packet) < Mps \/ Len(got) >= r.n)
        <4>1. host'.stage = "in_data" /\ m + k \in 0..Whole(r)
          BY <2>1, <3>3, <3>7
        <4>2. Underway(dev', r, m + k, TRUE)
          BY <1>3, <3>4 DEF Underway, Standing
        <4>3. QED
          BY <1>1, <2>1, <2>2, <3>1, <3>5, <4>1, <4>2 DEF Aligned, Reading, InDataWhole
      <3>8. QED
        BY <3>6, <3>7
    <2>5. QED
      BY <2>3, <2>4
  <1>6. QED
    BY <1>1, <1>4, <1>5

LEMMA HostReads ==
  ASSUME Serial, IInv, Accord, Aligned, Host
  PROVE  Aligned'
  <1>0. HostRecord(host) /\ DeviceType(dev) /\ dev.dc \in RegisterType
    BY DEF IInv, HostType, Device, Registers
  <1>1. CASE HostOut
    <2>1. /\ "setup" \notin pending /\ pending' = pending \union {"out0"}
          /\ host.stage \in {"out_data", "out_status"}
      BY <1>1 DEF HostOut, Accord, SetupWaits
    <2>2. host'.stage \in {"idle", "out_data", "in_status"}
      <3>1. CASE host.stage = "out_status"
        BY <1>0, <1>1, <3>1, DoneDoes DEF HostOut
      <3>2. CASE host.stage # "out_status"
        BY <1>0, <1>1, <2>1, <3>2 DEF HostOut, HostRecord
      <3>3. QED
        BY <3>1, <3>2
    <2>3. QED
      BY <2>1, <2>2 DEF Aligned, Reading, Serving, ReadOnly, InDataWhole
  <1>2. CASE HostStalled
    <2>1. host'.stage = "idle" /\ host'.got = <<>>
      BY <1>0, <1>2 DEF HostStalled, Done, HostRecord
    <2>2. QED
      BY <2>1 DEF Aligned, Reading, Serving, ReadOnly, InDataWhole
  <1>3. CASE HostReport
    <2>1. host'.stage = "idle" /\ "setup" \notin pending'
      BY <1>0, <1>3 DEF HostReport, HostRecord
    <2>2. QED
      BY <2>1 DEF Aligned, Reading, Serving, ReadOnly, InDataWhole
  <1>4. CASE HostAnswer
    <2>1. /\ host'.got = host.got /\ host'.req = host.req /\ host'.stage = host.stage
          /\ late' = late /\ pending' = pending \union {"in1"}
      BY <1>0, <1>4 DEF HostAnswer, HostRecord
    <2>2. ReadOnly' /\ InDataWhole' /\ (Serving' => Serving)
      BY <2>1 DEF Aligned, ReadOnly, InDataWhole, Serving
    <2>3. ASSUME Serving PROVE Reading'
      <3>1. Same0(dev, dev')
        BY <1>0, <1>4, HostAnswerSame
      <3>2. Open(dev)
        BY <1>4 DEF IInv, HostAnswer, Open, Device, Registers, OpenPlaced, Used, Layout, PlacedHid
      <3>3. QED
        BY <2>1, <2>3, <3>1, <3>2, AsideReads
    <2>4. QED
      BY <2>2, <2>3 DEF Aligned, Reading
  <1>5. CASE HostReset
    <2>1. host'.stage = "idle" /\ pending' = {}
      <3>1. HostRecord(Done(host)) /\ Done(host).stage = "idle"
        BY <1>0, DoneType, DoneDoes
      <3>2. \A h, x, y : HostRecord(h) =>
              [h EXCEPT !.addr = 0, !.configured = x, !.halted = x, !.tog = y].stage = h.stage
        BY DEF HostRecord
      <3>3. QED
        BY <1>5, <3>1, <3>2 DEF HostReset
    <2>2. QED
      BY <2>1 DEF Aligned, Reading, Serving, ReadOnly, InDataWhole
  <1>6. QED
    BY <1>1, <1>2, <1>3, <1>4, <1>5, HostSetupReads, HostInReads DEF Host

\* What the host reads on endpoint 0 is the beginning of the object it asked for,
\* as long as it asked for or as long as it is, whatever the sizes: every packet
\* that usbd_send_to_host puts into the buffer follows the one before.  The
\* host keeps endpoint 0 and the HID endpoints apart in time, as their buffers
\* overlap (see Overlaps).
THEOREM ReadsWhole == ASSUME Serial PROVE Spec => []InDataWhole
  <1>1. Init => Aligned
    BY DEF Init, Aligned, Reading, Serving, ReadOnly, InDataWhole
  <1>2. IInv /\ Accord /\ Aligned /\ [Next]_vars => Aligned'
    <2>1. SUFFICES ASSUME IInv, Accord, Aligned, [Next]_vars PROVE Aligned'
      OBVIOUS
    <2>2. CASE UNCHANGED vars
      BY <2>1, <2>2 DEF vars, Aligned, Reading, Serving, ReadOnly, InDataWhole
    <2>3. QED
      BY <2>1, <2>2, IsrReads, HostReads DEF Next
  <1>3. Aligned => InDataWhole
    BY DEF Aligned
  <1>4. QED
    BY <1>1, <1>2, <1>3, Invariance, InAccord, PTL DEF Spec
=============================================================================
