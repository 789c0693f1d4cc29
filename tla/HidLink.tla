------------------------------ MODULE HidLink ------------------------------
(***************************************************************************)
(* How DAP commands and answers cross USB: HID reports arrive on interrupt  *)
(* endpoint 2 OUT, each is processed inside the USB interrupt, and the      *)
(* answer is left in endpoint 1 IN for the host to collect.  The interrupt  *)
(* handler runs beside the USB controller, which changes the endpoint       *)
(* registers under it; the handler changes a status by loading it and       *)
(* storing which of its bits to toggle.  The host can reset the bus at any  *)
(* moment.  What a command does is DapCommands; here an answer is known by  *)
(* the command it answers.                                                  *)
(***************************************************************************)
EXTENDS Integers, Sequences

CONSTANTS
  Window,        \* commands the host sends before it collects an answer
  MaxReports,    \* bound: reports the host sends after one enumeration
  MaxResets      \* bound: bus resets the host makes of its own accord

ASSUME LinkAssumption ==
  Window \in Nat \ {0} /\ MaxReports \in Nat /\ MaxResets \in Nat

VARIABLES
  out_stat,      \* EP2R.STAT_RX
  in_stat,       \* EP1R.STAT_TX
  ctr_out,       \* EP2R.CTR_RX: a report has arrived
  ctr_in,        \* EP1R.CTR_TX: an answer has been collected
  ctr_setup,     \* EP0R.CTR_RX: a SET_CONFIGURATION has arrived
  istr_reset,    \* ISTR.RESET
  enabled,       \* DADDR.EF and EP0 open: the device answers on endpoint 0
  out_pma,       \* packet memory of endpoint 2 OUT
  in_pma,        \* packet memory of endpoint 1 IN
  isr,           \* where USBD_IRQHandler is
  w_reset,       \* the RESET bit of its wIstr
  seen,          \* the status bits it has loaded
  req,           \* usbd_hid_out_handler's req_buffer
  host,          \* external: "reset", "setup" or "configured"
  resets,        \* external: bus resets so far, retries not counted
  sent,          \* external: reports sent since the last one
  asked,         \* external: the commands among them
  got,           \* external: answers collected since the last one
  ran            \* history: the commands processed, in order

endpoints == <<out_stat, in_stat, ctr_out, ctr_in, ctr_setup>>
device    == <<istr_reset, enabled>>
pma       == <<out_pma, in_pma>>
handler   == <<isr, w_reset, seen, req>>
outside   == <<host, resets, sent, asked, got>>
vars      == <<endpoints, device, pma, handler, outside, ran>>
----------------------------------------------------------------------------
\* The two status bits of an endpoint direction.
Disabled == <<0, 0>>
Stall    == <<0, 1>>
Nak      == <<1, 0>>
Valid    == <<1, 1>>
Statuses == {Disabled, Stall, Nak, Valid}

\* Mutant: the bits are added up without a carry being dropped.
ToggledSum(now, want) == [i \in 1..2 |-> now[i] + seen[i] + want[i]]

\* PCD_SET_EP_TX_STATUS and PCD_SET_EP_RX_STATUS: the bits in which the loaded
\* status differs from the wanted one are toggled in the status of now.
Toggled(now, want) == [i \in 1..2 |-> (now[i] + seen[i] + want[i]) % 2]

\* A report: a command of the n-th report since reset number s, or no bytes.
Report(s, n, full) == [reset |-> s, n |-> n, full |-> full]
NoReport == Report(0, 0, FALSE)

Outstanding == Len(asked) - Len(got)
Pending == ctr_setup \/ ctr_in \/ ctr_out

Init ==
  /\ out_stat = Disabled /\ in_stat = Disabled
  /\ ctr_out = FALSE /\ ctr_in = FALSE /\ ctr_setup = FALSE
  /\ istr_reset = TRUE /\ enabled = FALSE
  /\ out_pma = NoReport /\ in_pma = NoReport
  /\ isr = "exit" /\ w_reset = FALSE /\ seen = Disabled /\ req = NoReport
  /\ host = "reset" /\ resets = 1 /\ sent = 0 /\ asked = <<>> /\ got = <<>>
  /\ ran = <<>>
----------------------------------------------------------------------------
\* External: the host sends a report; the controller accepts it only while the
\* endpoint is valid, and then answers NAK to the next.
HostSend ==
  /\ host = "configured" /\ out_stat = Valid /\ sent < MaxReports
  /\ \E full \in BOOLEAN :
       /\ full => Outstanding < Window
       /\ out_pma' = Report(resets, sent + 1, full)
       /\ asked' = IF full THEN Append(asked, out_pma') ELSE asked
  /\ sent' = sent + 1
  /\ out_stat' = Nak /\ ctr_out' = TRUE
  /\ UNCHANGED <<in_stat, ctr_in, ctr_setup, device, in_pma, handler, host, resets, got, ran>>

\* External: the host polls for the answer it waits for.
HostPoll ==
  /\ host = "configured" /\ Outstanding > 0 /\ in_stat = Valid
  /\ got' = Append(got, in_pma)
  /\ in_stat' = Nak /\ ctr_in' = TRUE
  /\ UNCHANGED <<out_stat, ctr_out, ctr_setup, device, pma, handler, host, resets, sent, asked, ran>>

\* External: a bus reset clears the endpoint registers and the address.
Reset(number) ==
  /\ out_stat' = Disabled /\ in_stat' = Disabled
  /\ ctr_out' = FALSE /\ ctr_in' = FALSE /\ ctr_setup' = FALSE
  /\ istr_reset' = TRUE /\ enabled' = FALSE
  /\ host' = "reset" /\ resets' = number /\ sent' = 0 /\ asked' = <<>> /\ got' = <<>>
  /\ UNCHANGED <<pma, handler, ran>>

HostReset == resets <= MaxResets /\ Reset(resets + 1)

\* External: the device does not answer enumeration; the host tries again, with
\* a reset that is not numbered because no report was sent since the last one.
HostRetry == host = "reset" /\ ~enabled /\ ~istr_reset /\ isr = "exit" /\ Reset(resets)

\* External: enumeration ends with SET_CONFIGURATION.
HostSetup ==
  /\ host = "reset" /\ enabled
  /\ host' = "setup" /\ ctr_setup' = TRUE
  /\ UNCHANGED <<out_stat, in_stat, ctr_out, ctr_in, device, pma, handler, resets, sent, asked, got, ran>>
----------------------------------------------------------------------------
\* The interrupt handler starts with a look at ISTR.
Enter ==
  /\ isr = "exit" /\ (Pending \/ istr_reset)
  /\ w_reset' = istr_reset
  /\ isr' = IF Pending THEN "loop" ELSE "flags"
  /\ UNCHANGED <<endpoints, device, pma, seen, req, outside, ran>>

\* Nothing is pending any more: on to the flags of the wIstr last loaded.
LoopEnd ==
  /\ isr = "loop" /\ ~Pending
  /\ isr' = "flags"
  /\ UNCHANGED <<endpoints, device, pma, w_reset, seen, req, outside, ran>>

\* The pending endpoint of the lowest number is served: 0, then 1, then 2.
ServeSetup ==
  /\ isr = "loop" /\ ctr_setup
  /\ w_reset' = istr_reset
  /\ ctr_setup' = FALSE
  /\ isr' = "open_out"
  /\ UNCHANGED <<out_stat, in_stat, ctr_out, ctr_in, device, pma, seen, req, outside, ran>>

\* The IN callback has nothing to do.
ServeIn ==
  /\ isr = "loop" /\ ~ctr_setup /\ ctr_in
  /\ w_reset' = istr_reset
  /\ ctr_in' = FALSE
  /\ UNCHANGED <<out_stat, in_stat, ctr_out, ctr_setup, device, pma, isr, seen, req, outside, ran>>

\* Mutant: the endpoint is re-armed with the acknowledgement.
AcknowledgeRearmed == ctr_out' = FALSE /\ out_stat' = Valid

\* PCD_CLEAR_RX_EP_CTR leaves the endpoint at NAK.
Acknowledge == ctr_out' = FALSE /\ UNCHANGED out_stat

ServeOut ==
  /\ isr = "loop" /\ ~ctr_setup /\ ~ctr_in /\ ctr_out
  /\ w_reset' = istr_reset
  /\ Acknowledge
  /\ isr' = "read"
  /\ UNCHANGED <<in_stat, ctr_in, ctr_setup, device, pma, seen, req, outside, ran>>
----------------------------------------------------------------------------
\* usbd_hid_out_handler: the report is copied out of packet memory.
ReadReport ==
  /\ isr = "read"
  /\ req' = out_pma
  /\ isr' = IF req'.full THEN "process" ELSE "rearm"
  /\ UNCHANGED <<endpoints, device, pma, w_reset, seen, outside, ran>>

Process ==
  /\ isr = "process"
  /\ ran' = Append(ran, req)
  /\ isr' = "answer"
  /\ UNCHANGED <<endpoints, device, pma, w_reset, seen, req, outside>>

WriteAnswer ==
  /\ isr = "answer"
  /\ in_pma' = req
  /\ isr' = "offer"
  /\ UNCHANGED <<endpoints, device, out_pma, w_reset, seen, req, outside, ran>>

\* The first half of a status change: the endpoint register is loaded.
LoadStatus ==
  /\ \/ isr \in {"offer", "open_in"} /\ seen' = in_stat
     \/ isr \in {"rearm", "open_out"} /\ seen' = out_stat
  /\ isr' = CASE isr = "offer"    -> "offer_store"
              [] isr = "rearm"    -> "rearm_store"
              [] isr = "open_out" -> "open_out_store"
              [] isr = "open_in"  -> "open_in_store"
  /\ UNCHANGED <<endpoints, device, pma, w_reset, req, outside, ran>>

OfferAnswer ==
  /\ isr = "offer_store"
  /\ in_stat' = Toggled(in_stat, Valid)
  /\ isr' = "rearm"
  /\ UNCHANGED <<out_stat, ctr_out, ctr_in, ctr_setup, device, pma, w_reset, seen, req, outside, ran>>

\* Mutant: the endpoint stays at NAK.
RearmedNak == Nak

Rearmed == Valid

\* The OUT endpoint takes the next report.
Rearm ==
  /\ isr = "rearm_store"
  /\ out_stat' = Toggled(out_stat, Rearmed)
  /\ isr' = "loop"
  /\ UNCHANGED <<in_stat, ctr_out, ctr_in, ctr_setup, device, pma, w_reset, seen, req, outside, ran>>
----------------------------------------------------------------------------
\* usbd_set_configuration opens the endpoints in the descriptors' order.
OpenOut ==
  /\ isr = "open_out_store"
  /\ out_stat' = Toggled(out_stat, Valid)
  /\ isr' = "open_in"
  /\ UNCHANGED <<in_stat, ctr_out, ctr_in, ctr_setup, device, pma, w_reset, seen, req, outside, ran>>

\* Mutant: the IN endpoint is opened ready to send.
OpenedInValid == Valid

OpenedIn == Nak

\* With the status stage the host takes the device for configured, unless it
\* has reset the bus meanwhile.
OpenIn ==
  /\ isr = "open_in_store"
  /\ in_stat' = Toggled(in_stat, OpenedIn)
  /\ host' = IF host = "setup" THEN "configured" ELSE host
  /\ isr' = "loop"
  /\ UNCHANGED <<out_stat, ctr_out, ctr_in, ctr_setup, device, pma, w_reset, seen, req,
                 resets, sent, asked, got, ran>>

\* Mutant: the device is not enabled after a reset.
EnabledNever == enabled

EnabledByReset == TRUE

\* USBD_EVENT_RESET: address 0, endpoint 0 opened; the flag is cleared after it.
HandleReset ==
  /\ isr = "flags" /\ w_reset
  /\ enabled' = EnabledByReset
  /\ isr' = "clear_reset"
  /\ UNCHANGED <<endpoints, istr_reset, pma, w_reset, seen, req, outside, ran>>

ClearReset ==
  /\ isr = "clear_reset"
  /\ istr_reset' = FALSE
  /\ isr' = "exit"
  /\ UNCHANGED <<endpoints, enabled, pma, w_reset, seen, req, outside, ran>>

Exit ==
  /\ isr = "flags" /\ ~w_reset
  /\ isr' = "exit"
  /\ UNCHANGED <<endpoints, device, pma, w_reset, seen, req, outside, ran>>
----------------------------------------------------------------------------
Handler ==
  \/ Enter \/ LoopEnd \/ ServeSetup \/ ServeIn \/ ServeOut
  \/ ReadReport \/ Process \/ WriteAnswer \/ LoadStatus \/ OfferAnswer \/ Rearm
  \/ OpenOut \/ OpenIn
  \/ HandleReset \/ ClearReset \/ Exit

Host == HostSend \/ HostPoll \/ HostReset \/ HostRetry \/ HostSetup

Next == Handler \/ Host

Spec == Init /\ [][Next]_vars

\* The processor executes the handler; the host polls for what it waits for
\* and enumerates a device it has reset.
FairSpec ==
  Spec /\ WF_vars(Handler) /\ WF_vars(HostPoll) /\ WF_vars(HostRetry) /\ WF_vars(HostSetup)
----------------------------------------------------------------------------
Places ==
  { "exit", "loop", "read", "process", "answer", "offer", "offer_store", "rearm",
    "rearm_store", "open_out", "open_out_store", "open_in", "open_in_store",
    "flags", "clear_reset" }

Reports == [reset : Nat, n : Nat, full : BOOLEAN]

\* The type of every variable: toggling bits always ends in a status.
TypeOK ==
  /\ out_stat \in Statuses /\ in_stat \in Statuses /\ seen \in Statuses
  /\ ctr_out \in BOOLEAN /\ ctr_in \in BOOLEAN /\ ctr_setup \in BOOLEAN
  /\ istr_reset \in BOOLEAN /\ enabled \in BOOLEAN /\ w_reset \in BOOLEAN
  /\ out_pma \in Reports /\ in_pma \in Reports /\ req \in Reports
  /\ isr \in Places
  /\ host \in {"reset", "setup", "configured"} /\ resets \in Nat
  /\ sent \in Nat /\ asked \in Seq(Reports) /\ got \in Seq(Reports) /\ ran \in Seq(Reports)

\* Every command is run at most once and in the order sent, over resets too,
\* and however many the host has in flight: no report overwrites one that the
\* handler has not read.
RunOnceInOrder ==
  \A i \in 1..(Len(ran) - 1) :
    \/ ran[i].reset < ran[i + 1].reset
    \/ ran[i].reset = ran[i + 1].reset /\ ran[i].n < ran[i + 1].n

\* The host's k-th answer answers its k-th command: none is left over from a
\* command it gave up with a reset, although the handler finishes that command
\* and offers its answer after the reset.
AnswersMatch == \A k \in 1..Len(got) : k <= Len(asked) /\ got[k] = asked[k]

\* The handler never writes an answer into packet memory the controller may be
\* sending from.
AnswerNotTorn == [][in_pma' # in_pma => in_stat # Valid]_vars

\* A command is answered and the next one can be sent, unless the host resets.
Answered ==
  (host = "configured" /\ Outstanding > 0)
    ~> (host # "configured" \/ (Outstanding = 0 /\ out_stat = Valid))

\* However a reset falls, even between the handling of one reset and the
\* clearing of its flag, the device is configured in the end.
Recovers == (host = "reset") ~> (host = "configured")
----------------------------------------------------------------------------
\* The command that has arrived and not been run.
Todo ==
  IF isr = "process" THEN req
  ELSE IF (ctr_out \/ isr = "read") /\ out_pma.full THEN out_pma ELSE NoReport

\* To a host that waits for each answer, the endpoints, their packet memory and
\* the interrupt handler are one exchange of reports, over any bus resets.
Exchange == INSTANCE ReportExchange WITH
  Command <- { r \in Reports : r.full }, NoCommand <- NoReport, todo <- Todo

\* A host that waits for each answer sees its commands run at most once and
\* collects the answer to the last one, whatever it gave up with a reset.
ImplementsExchange == Exchange!Spec
============================================================================
