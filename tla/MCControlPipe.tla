--------------------------- MODULE MCControlPipe ---------------------------
(* Constants for model checking ControlPipe: packets of two bytes, packet      *)
(* memory of eight packets, objects that are shorter than a packet, as long as *)
(* one, and longer.  A behaviour is about the requests of one profile.         *)
EXTENDS ControlPipe

MCDescriptors == {"string", "report"}
MCLength == [v \in MCDescriptors |-> IF v = "string" THEN 3 ELSE 1]

Describe(to, v, n) == Request(to, "GET_DESCRIPTOR", v, "in", n)
Status(n)     == Request("device", "GET_STATUS", "status", "in", n)
SetReportOf(n) == Request("class", "SET_REPORT", 0, "out", n)
GetReport     == Request("class", "GET_REPORT", "report_byte", "in", 1)
Address       == Request("device", "SET_ADDRESS", 1, "out", 0)
Configure(v)  == Request("device", "SET_CONFIGURATION", v, "out", 0)
Alternate(v)  == Request("interface", "SET_INTERFACE", v, "out", 0)
Halt(c, ep)   == Request("endpoint", c, ep, "out", 0)

MCProfiles ==
  { {Describe("device", "string", 4), Status(4), Address},
    {Describe("device", "string", 1), Describe("device", "string", 2), Describe("device", "missing", 2),
     Describe("interface", "hid", 2), Describe("interface", "report", 2)},
    {Describe("interface", "physical", 2), SetReportOf(2), SetReportOf(3), GetReport},
    {SetReportOf(2), SetReportOf(4), Address},
    {Address} \union {Configure(v) : v \in 0..2} \union {Alternate(v) : v \in 0..1},
    {Configure(1)} \union {Halt(c, ep) : c \in {"SET_HALT", "CLEAR_HALT"}, ep \in {Out(2), In(1)}},
    {Configure(1), Halt("CLEAR_HALT", In(0))} \union {Halt("SET_HALT", ep) : ep \in {In(0), Out(0)}} }

\* For the run in which both pairs of endpoints are in use at once.
BothProfiles == { {Configure(1), Describe("device", "string", 4)} }
=============================================================================
