---------------------------- MODULE HidLinkProofs ----------------------------
(***************************************************************************)
(* Theorems about HidLink for every window and every number of reports and  *)
(* resets.  The argument: from the arrival of a report until the handler    *)
(* re-arms the endpoint, the endpoint accepts no other one, or the bus has  *)
(* been reset and a report can come only after the handler has been left.   *)
(***************************************************************************)
EXTENDS HidLink, SequenceTheorems, TLAPS

\* Where a report is being handled, and where endpoints are being opened.
Busy == {"read", "process", "answer", "offer", "offer_store", "rearm", "rearm_store"}
Opening == {"open_out", "open_out_store", "open_in", "open_in_store"}

\* Report a was sent before b.
Before(a, b) == a.reset < b.reset \/ (a.reset = b.reset /\ a.n < b.n)

\* Report a is not newer than the last one sent.
Past(a) == a.reset < resets \/ (a.reset = resets /\ a.n <= sent)

RanBefore(a) == \A i \in 1..Len(ran) : Before(ran[i], a)

\* What the host takes the device for, and where the handler is.
HostInv ==
  /\ host # "configured" => sent = 0 /\ ~ctr_out
  /\ ctr_setup => host = "setup"
  /\ isr \in Opening => host # "configured" /\ ~ctr_setup
  /\ isr \in Busy => host # "setup"
  /\ isr \in Busy \cup Opening /\ host = "reset" => ~enabled

\* A report is in packet memory, or being handled: the endpoint takes no other.
ArmInv ==
  /\ ctr_out => out_stat # Valid /\ isr \notin Busy
  /\ host = "configured" /\ isr \in Busy => out_stat # Valid

\* How old the reports are that the device holds.
OrderInv ==
  /\ Past(out_pma)
  /\ \A i \in 1..Len(ran) : Past(ran[i])
  /\ ctr_out \/ isr = "read" => RanBefore(out_pma)
  /\ isr = "process" => RanBefore(req) /\ Past(req)

IInv == TypeOK /\ HostInv /\ ArmInv /\ OrderInv /\ RunOnceInOrder

\* Where a command's answer is on its way, from running it to offering the answer.
Answering == {"process", "answer", "offer", "offer_store"}

Last(s) == s[Len(s)]

\* A command is in packet memory and has not been read.
Carried == (ctr_out \/ isr = "read") /\ out_pma.full

\* With a window of 1, how the host's last command, the handler's and the last one
\* run agree while the host takes the device for configured.
AnswerInv ==
  /\ host # "configured" => asked = <<>> /\ got = <<>>
  /\ host = "setup" /\ isr = "open_in_store" => seen = in_stat
  /\ isr = "process" => req.full
  /\ host = "configured" =>
       /\ in_stat \in {Nak, Valid}
       /\ Len(asked) \in {Len(got), Len(got) + 1}
       /\ Carried \/ isr \in Answering =>
            in_stat = Nak /\ Len(asked) = Len(got) + 1
       /\ Carried => out_pma = Last(asked)
       /\ isr \in Answering => req = Last(asked)
       /\ isr = "offer_store" => seen = Nak
       /\ isr \in {"offer", "offer_store"} => in_pma = req
       /\ isr \in Answering \ {"process"} => ran # <<>> /\ Last(ran) = req
       /\ in_stat = Valid =>
            /\ Len(asked) = Len(got) + 1
            /\ in_pma = Last(asked) /\ ran # <<>> /\ Last(ran) = in_pma
----------------------------------------------------------------------------
\* Toggling the bits that differ ends in a status, whatever was loaded.
LEMMA ToggledStatus ==
  ASSUME NEW now \in Statuses, NEW want \in Statuses, seen \in Statuses
  PROVE  Toggled(now, want) \in Statuses
  BY DEF Toggled, Statuses, Disabled, Stall, Nak, Valid

\* What appending a report does to a sequence of reports.
LEMMA Appended ==
  ASSUME NEW s \in Seq(Reports), NEW r \in Reports
  PROVE  /\ Append(s, r) \in Seq(Reports)
         /\ Len(Append(s, r)) = Len(s) + 1
         /\ \A i \in 1..Len(s) : Append(s, r)[i] = s[i]
         /\ Append(s, r)[Len(s) + 1] = r
  OBVIOUS

LEMMA Elements ==
  ASSUME NEW s \in Seq(Reports)
  PROVE  Len(s) \in Nat /\ \A i \in 1..Len(s) : s[i] \in Reports
  OBVIOUS

LEMMA NoneSent == <<>> \in Seq(Reports)
  OBVIOUS

\* Every step keeps the types.
LEMMA TypesKept ==
  ASSUME TypeOK, Next
  PROVE  TypeOK'
  <1> USE DEF TypeOK, endpoints, device, pma, handler, outside
  <1>0. {Disabled, Nak, Valid} \subseteq Statuses
    BY DEF Statuses
  <1>1. ASSUME HostSend PROVE TypeOK'
    <2>1. out_pma' \in Reports
      BY <1>1 DEF HostSend, Report, Reports
    <2>2. sent' \in Nat /\ asked' \in Seq(Reports)
      BY <1>1, <2>1, Appended DEF HostSend
    <2>3. QED
      BY <1>0, <1>1, <2>1, <2>2 DEF HostSend
  <1>2. ASSUME HostPoll PROVE TypeOK'
    <2>1. got' \in Seq(Reports)
      BY <1>2, Appended DEF HostPoll
    <2>2. QED
      BY <1>0, <1>2, <2>1 DEF HostPoll
  <1>3. ASSUME HostReset \/ HostRetry PROVE TypeOK'
    <2>1. PICK number \in {resets, resets + 1} : Reset(number)
      BY <1>3 DEF HostReset, HostRetry
    <2>2. resets' \in Nat
      BY <2>1 DEF Reset
    <2>3. QED
      BY <1>0, <2>1, <2>2, NoneSent DEF Reset
  <1>4. ASSUME HostSetup PROVE TypeOK'
    BY <1>4 DEF HostSetup
  <1>5. ASSUME Enter \/ LoopEnd \/ ServeSetup \/ ServeIn \/ ServeOut PROVE TypeOK'
    BY <1>5 DEF Enter, LoopEnd, ServeSetup, ServeIn, ServeOut, Acknowledge, Places
  <1>6. ASSUME ReadReport \/ WriteAnswer PROVE TypeOK'
    BY <1>6 DEF ReadReport, WriteAnswer, Places
  <1>7. ASSUME Process PROVE TypeOK'
    <2>1. ran' \in Seq(Reports)
      BY <1>7, Appended DEF Process
    <2>2. QED
      BY <1>7, <2>1 DEF Process, Places
  <1>8. ASSUME LoadStatus PROVE TypeOK'
    <2>1. seen' \in Statuses
      BY <1>8 DEF LoadStatus
    <2>2. isr' \in Places
      BY <1>8 DEF LoadStatus, Places
    <2>3. QED
      BY <1>8, <2>1, <2>2 DEF LoadStatus
  <1>9. ASSUME OfferAnswer \/ OpenIn PROVE TypeOK'
    <2>1. in_stat' \in Statuses
      BY <1>0, <1>9, ToggledStatus DEF OfferAnswer, OpenIn, OpenedIn
    <2>2. QED
      BY <1>9, <2>1 DEF OfferAnswer, OpenIn, Places
  <1>10. ASSUME Rearm \/ OpenOut PROVE TypeOK'
    <2>1. out_stat' \in Statuses
      BY <1>0, <1>10, ToggledStatus DEF Rearm, OpenOut, Rearmed
    <2>2. QED
      BY <1>10, <2>1 DEF Rearm, OpenOut, Places
  <1>11. ASSUME HandleReset \/ ClearReset \/ Exit PROVE TypeOK'
    BY <1>11 DEF HandleReset, ClearReset, Exit, EnabledByReset, Places
  <1>12. QED
    BY <1>1, <1>2, <1>3, <1>4, <1>5, <1>6, <1>7, <1>8, <1>9, <1>10, <1>11
    DEF Next, Handler, Host

\* Between the arrival of a report and the re-arming, the endpoint takes no other.
LEMMA EndpointHeld ==
  ASSUME TypeOK, HostInv, ArmInv, Next
  PROVE  HostInv' /\ ArmInv'
  <1> USE DEF TypeOK, HostInv, ArmInv, Busy, Opening, endpoints, device, pma, handler, outside
  <1>1. ASSUME HostSend PROVE HostInv' /\ ArmInv'
    BY <1>1 DEF HostSend, Nak, Valid
  <1>2. ASSUME HostPoll PROVE HostInv' /\ ArmInv'
    BY <1>2 DEF HostPoll
  <1>3. ASSUME HostReset \/ HostRetry PROVE HostInv' /\ ArmInv'
    BY <1>3 DEF HostReset, HostRetry, Reset
  <1>4. ASSUME HostSetup PROVE HostInv' /\ ArmInv'
    BY <1>4 DEF HostSetup
  <1>5. ASSUME Enter \/ LoopEnd \/ ServeSetup \/ ServeIn PROVE HostInv' /\ ArmInv'
    BY <1>5 DEF Enter, LoopEnd, ServeSetup, ServeIn
  <1>6. ASSUME ServeOut PROVE HostInv' /\ ArmInv'
    BY <1>6 DEF ServeOut, Acknowledge
  <1>7. ASSUME ReadReport \/ Process \/ WriteAnswer PROVE HostInv' /\ ArmInv'
    BY <1>7 DEF ReadReport, Process, WriteAnswer
  <1>8. ASSUME LoadStatus PROVE HostInv' /\ ArmInv'
    BY <1>8 DEF LoadStatus
  <1>9. ASSUME OfferAnswer PROVE HostInv' /\ ArmInv'
    BY <1>9 DEF OfferAnswer
  <1>10. ASSUME Rearm \/ OpenOut PROVE HostInv' /\ ArmInv'
    BY <1>10 DEF Rearm, OpenOut
  <1>11. ASSUME OpenIn PROVE HostInv' /\ ArmInv'
    BY <1>11 DEF OpenIn
  <1>12. ASSUME HandleReset \/ ClearReset \/ Exit PROVE HostInv' /\ ArmInv'
    BY <1>12 DEF HandleReset, ClearReset, Exit
  <1>13. QED
    BY <1>1, <1>2, <1>3, <1>4, <1>5, <1>6, <1>7, <1>8, <1>9, <1>10, <1>11, <1>12
    DEF Next, Handler, Host

\* The reports that the device holds are handled in the order they were sent in.
LEMMA OrderKept ==
  ASSUME IInv, Next, TypeOK'
  PROVE  OrderInv' /\ RunOnceInOrder'
  <1> USE DEF IInv, TypeOK, endpoints, device, pma, handler, outside
  <1>0. /\ \A i \in 1..Len(ran) : ran[i] \in Reports
        /\ Len(ran) \in Nat /\ sent \in Nat
    BY Elements DEF IInv, TypeOK
  <1>1. ASSUME UNCHANGED <<out_pma, req, ran>>,
               \A a \in Reports : Past(a) => Past(a)',
               ctr_out' \/ isr' = "read" => ctr_out \/ isr = "read",
               isr' = "process" => isr = "process"
        PROVE  OrderInv' /\ RunOnceInOrder'
    BY <1>0, <1>1 DEF OrderInv, RanBefore, RunOnceInOrder
  <1>2. ASSUME UNCHANGED <<resets, sent>> PROVE \A a : Past(a) <=> Past(a)'
    BY <1>2 DEF Past
  <1>3. ASSUME HostSend PROVE OrderInv' /\ RunOnceInOrder'
    <2>1. out_pma'.reset = resets /\ out_pma'.n = sent + 1 /\ out_pma' \in Reports
      BY <1>3 DEF HostSend, Report
    <2>2. sent' = sent + 1
      BY <1>3, <2>1, Appended DEF HostSend
    <2>3. UNCHANGED <<isr, req, resets, ran>> /\ isr \notin Busy
      BY <1>3 DEF HostSend, ArmInv
    <2>4. \A a \in Reports : Past(a) => Past(a)' /\ Before(a, out_pma')
      <3>1. SUFFICES ASSUME NEW a \in Reports, Past(a) PROVE Past(a)' /\ Before(a, out_pma')
        OBVIOUS
      <3>2. a.reset \in Nat /\ a.n \in Nat /\ resets \in Nat
        BY DEF Reports
      <3>3. a.reset < resets \/ (a.reset = resets /\ a.n <= sent)
        BY <3>1 DEF Past
      <3>4. resets' = resets /\ sent' = sent + 1
        BY <2>2, <2>3
      <3>5. Past(a)'
        BY <1>0, <3>2, <3>3, <3>4 DEF Past
      <3>6. Before(a, out_pma')
        BY <1>0, <2>1, <3>2, <3>3 DEF Before
      <3>7. QED
        BY <3>5, <3>6
    <2>5. Past(out_pma)'
      BY <1>0, <2>1, <2>2, <2>3 DEF Past
    <2>6. (\A i \in 1..Len(ran) : Past(ran[i]))' /\ RanBefore(out_pma)'
      BY <1>0, <2>3, <2>4 DEF OrderInv, RanBefore
    <2>7. QED
      BY <2>3, <2>5, <2>6 DEF OrderInv, RunOnceInOrder, Busy
  <1>4. ASSUME HostReset \/ HostRetry PROVE OrderInv' /\ RunOnceInOrder'
    <2>1. UNCHANGED <<out_pma, req, ran, isr>> /\ ~ctr_out'
      BY <1>4 DEF HostReset, HostRetry, Reset
    <2>2. resets' = resets + 1 \/ (resets' = resets /\ sent' = sent)
      BY <1>4 DEF HostReset, HostRetry, Reset, HostInv
    <2>3. \A a \in Reports : Past(a) => Past(a)'
      <3>1. CASE resets' = resets + 1
        <4>1. SUFFICES ASSUME NEW a \in Reports, Past(a) PROVE a.reset < resets + 1
          BY <3>1 DEF Past
        <4>2. a.reset \in Nat /\ resets \in Nat
          BY DEF Reports
        <4>3. a.reset < resets \/ a.reset = resets
          BY <4>1 DEF Past
        <4>4. QED
          BY <4>2, <4>3
      <3>2. QED
        BY <2>2, <3>1 DEF Past
    <2>4. QED
      BY <1>1, <2>1, <2>3
  <1>5. ASSUME HostPoll \/ HostSetup PROVE OrderInv' /\ RunOnceInOrder'
    BY <1>1, <1>2, <1>5 DEF HostPoll, HostSetup
  <1>6. ASSUME Enter \/ LoopEnd \/ ServeSetup \/ ServeIn \/ ServeOut
        PROVE  OrderInv' /\ RunOnceInOrder'
    BY <1>1, <1>2, <1>6 DEF Enter, LoopEnd, ServeSetup, ServeIn, ServeOut, Acknowledge
  <1>7. ASSUME ReadReport PROVE OrderInv' /\ RunOnceInOrder'
    <2>1. req' = out_pma /\ UNCHANGED <<out_pma, ran, resets, sent, ctr_out>>
          /\ isr = "read" /\ isr' # "read"
      BY <1>7 DEF ReadReport
    <2>2. RanBefore(out_pma) /\ Past(out_pma)
      BY <2>1 DEF OrderInv
    <2>3. RanBefore(req)' /\ Past(req)' /\ RanBefore(out_pma)' /\ Past(out_pma)'
      BY <2>1, <2>2 DEF RanBefore, Past
    <2>4. QED
      BY <1>2, <2>1, <2>3 DEF OrderInv, RunOnceInOrder
  <1>8. ASSUME Process PROVE OrderInv' /\ RunOnceInOrder'
    <2>1. ran' = Append(ran, req) /\ UNCHANGED <<out_pma, req, resets, sent, ctr_out>>
          /\ isr = "process" /\ isr' = "answer"
      BY <1>8 DEF Process
    <2>2. RanBefore(req) /\ Past(req) /\ ~ctr_out'
      BY <2>1 DEF OrderInv, ArmInv, Busy
    <2>3. /\ Len(ran') = Len(ran) + 1 /\ ran'[Len(ran) + 1] = req
          /\ \A i \in 1..Len(ran) : ran'[i] = ran[i]
      BY <2>1, Appended
    <2>4. \A i \in 1..Len(ran') : Past(ran'[i])
      <3>1. \A i \in 1..Len(ran') : i \in 1..Len(ran) \/ i = Len(ran) + 1
        BY <1>0, <2>3
      <3>2. QED
        BY <2>2, <2>3, <3>1 DEF OrderInv
    <2>5. (\A i \in 1..Len(ran) : Past(ran[i]))'
      BY <1>2, <2>1, <2>4
    <2>6. RunOnceInOrder'
      <3>1. SUFFICES ASSUME NEW i \in 1..Len(ran)
                     PROVE  Before(ran'[i], ran'[i + 1])
        BY <1>0, <2>3 DEF RunOnceInOrder, Before
      <3>2. CASE i = Len(ran)
        BY <2>2, <2>3, <3>2 DEF RanBefore
      <3>3. CASE i # Len(ran)
        <4>1. i \in 1..(Len(ran) - 1) /\ i \in 1..Len(ran) /\ i + 1 \in 1..Len(ran)
          BY <1>0, <3>3
        <4>2. ran'[i] = ran[i] /\ ran'[i + 1] = ran[i + 1]
          BY <2>3, <4>1
        <4>3. QED
          BY <4>1, <4>2 DEF RunOnceInOrder, Before
      <3>4. QED
        BY <3>2, <3>3
    <2>7. QED
      BY <1>2, <2>1, <2>2, <2>5, <2>6 DEF OrderInv
  <1>9. ASSUME WriteAnswer \/ LoadStatus \/ OfferAnswer \/ Rearm PROVE OrderInv' /\ RunOnceInOrder'
    BY <1>1, <1>2, <1>9 DEF WriteAnswer, LoadStatus, OfferAnswer, Rearm
  <1>10. ASSUME OpenOut \/ OpenIn PROVE OrderInv' /\ RunOnceInOrder'
    BY <1>1, <1>2, <1>10 DEF OpenOut, OpenIn
  <1>11. ASSUME HandleReset \/ ClearReset \/ Exit PROVE OrderInv' /\ RunOnceInOrder'
    BY <1>1, <1>2, <1>11 DEF HandleReset, ClearReset, Exit
  <1>12. QED
    BY <1>3, <1>4, <1>5, <1>6, <1>7, <1>8, <1>9, <1>10, <1>11 DEF Next, Handler, Host

\* The initial state satisfies the invariant.
LEMMA InvStarts ==
  ASSUME Init
  PROVE  IInv
  <1>1. TypeOK
    BY NoneSent DEF Init, TypeOK, Statuses, Places, Reports, Report, NoReport
  <1>2. HostInv /\ ArmInv
    BY DEF Init, HostInv, ArmInv, Busy, Opening
  <1>3. OrderInv /\ RunOnceInOrder
    BY DEF Init, OrderInv, Past, RanBefore, RunOnceInOrder, Report, NoReport
  <1>4. QED
    BY <1>1, <1>2, <1>3 DEF IInv

\* Every step, and stuttering, keeps the invariant.
LEMMA InvKept ==
  ASSUME IInv, [Next]_vars
  PROVE  IInv'
  <1>1. CASE Next
    <2>1. TypeOK'
      BY <1>1, TypesKept DEF IInv
    <2>2. HostInv' /\ ArmInv'
      BY <1>1, EndpointHeld DEF IInv
    <2>3. OrderInv' /\ RunOnceInOrder'
      BY <1>1, <2>1, OrderKept
    <2>4. QED
      BY <2>1, <2>2, <2>3 DEF IInv
  <1>2. CASE UNCHANGED vars
    BY <1>2 DEF vars, endpoints, device, pma, handler, outside, IInv, TypeOK, HostInv, ArmInv,
                OrderInv, Past, RanBefore, RunOnceInOrder
  <1>3. QED
    BY <1>1, <1>2

\* The invariant holds in every reachable state.
THEOREM Invariance == Spec => []IInv
  BY InvStarts, InvKept, PTL DEF Spec

\* Toggling bits of a status that changed since it was loaded still ends in a
\* status, and the handler is always at a place of its own.
THEOREM TypeCorrect == Spec => []TypeOK
  <1>1. IInv => TypeOK
    BY DEF IInv
  <1>2. QED
    BY <1>1, Invariance, PTL

\* Every command is run at most once and in the order sent, however many the host
\* has in flight and wherever its bus resets fall.
THEOREM RunOnce == Spec => []RunOnceInOrder
  <1>1. IInv => RunOnceInOrder
    BY DEF IInv
  <1>2. QED
    BY <1>1, Invariance, PTL
----------------------------------------------------------------------------
\* With a window of 1, the command and the answer on their way are the last ones.
LEMMA AnswersKept ==
  ASSUME Window = 1, IInv, AnswerInv, AnswersMatch, Next, TypeOK'
  PROVE  AnswerInv' /\ AnswersMatch'
  <1> USE DEF endpoints, device, pma, handler, outside
  <1>0. /\ Len(asked) \in Nat /\ Len(got) \in Nat /\ Len(ran) \in Nat
        /\ asked \in Seq(Reports) /\ got \in Seq(Reports) /\ ran \in Seq(Reports)
        /\ HostInv /\ ArmInv
    BY Elements DEF IInv, TypeOK
  <1>1. ASSUME HostSend PROVE AnswerInv' /\ AnswersMatch'
    <2>1. /\ host = "configured" /\ out_stat = Valid /\ ctr_out'
          /\ UNCHANGED <<isr, seen, req, in_stat, in_pma, got, ran, host>>
          /\ out_pma'.full => Outstanding < Window /\ asked' = Append(asked, out_pma')
          /\ ~out_pma'.full => asked' = asked
          /\ out_pma' \in Reports
      BY <1>1, <1>0 DEF HostSend, Report, IInv, TypeOK
    <2>2. isr \notin Answering /\ isr # "read" /\ ~ctr_out
      BY <1>0, <2>1 DEF ArmInv, Busy, Answering
    <2>3. CASE out_pma'.full
      <3>1. Len(asked) = Len(got) /\ in_stat = Nak
        BY <1>0, <2>1, <2>3 DEF Outstanding, AnswerInv
      <3>2. /\ Len(asked') = Len(asked) + 1 /\ Last(asked)' = out_pma'
            /\ \A i \in 1..Len(asked) : asked'[i] = asked[i]
        <4>1. asked' = Append(asked, out_pma')
          BY <2>1, <2>3
        <4>2. /\ Len(asked') = Len(asked) + 1 /\ asked'[Len(asked) + 1] = out_pma'
              /\ \A i \in 1..Len(asked) : asked'[i] = asked[i]
          BY <1>0, <2>1, <4>1, Appended
        <4>3. QED
          BY <4>2 DEF Last
      <3>3. AnswerInv'
        BY <2>1, <2>2, <3>1, <3>2 DEF AnswerInv, Answering, Nak, Valid
      <3>4. AnswersMatch'
        BY <1>0, <2>1, <3>1, <3>2 DEF AnswersMatch
      <3>5. QED
        BY <3>3, <3>4
    <2>4. CASE ~out_pma'.full
      <3>1. AnswersMatch'
        BY <2>1, <2>4 DEF AnswersMatch
      <3>2. ~Carried'
        BY <2>1, <2>4 DEF Carried
      <3>3. AnswerInv'
        BY <2>1, <2>2, <2>4, <3>2 DEF AnswerInv, Last
      <3>4. QED
        BY <3>1, <3>3
    <2>5. QED
      BY <2>3, <2>4
  <1>2. ASSUME HostPoll PROVE AnswerInv' /\ AnswersMatch'
    <2>1. /\ host = "configured" /\ in_stat = Valid /\ in_stat' = Nak
          /\ got' = Append(got, in_pma)
          /\ UNCHANGED <<isr, seen, req, ctr_out, out_pma, in_pma, asked, ran, host>>
      BY <1>2 DEF HostPoll
    <2>2. Len(asked) = Len(got) + 1 /\ in_pma = Last(asked)
      BY <2>1 DEF AnswerInv
    <2>3. ~Carried /\ isr \notin Answering
      BY <2>1 DEF AnswerInv, Nak, Valid
    <2>4. /\ Len(got') = Len(got) + 1 /\ got'[Len(got) + 1] = in_pma
          /\ \A i \in 1..Len(got) : got'[i] = got[i]
      BY <1>0, <2>1, Appended DEF IInv, TypeOK
    <2>5. AnswersMatch'
      <3>1. SUFFICES ASSUME NEW k \in 1..(Len(got) + 1) PROVE got'[k] = asked[k]
        BY <1>0, <2>1, <2>2, <2>4 DEF AnswersMatch
      <3>2. CASE k \in 1..Len(got)
        BY <1>0, <2>4, <3>2 DEF AnswersMatch
      <3>3. CASE k = Len(got) + 1
        BY <2>2, <2>4, <3>3 DEF Last
      <3>4. QED
        BY <1>0, <3>2, <3>3
    <2>6. ~Carried' /\ isr' \notin Answering
      BY <2>1, <2>3 DEF Carried
    <2>7. AnswerInv'
      BY <1>0, <2>1, <2>2, <2>4, <2>6 DEF AnswerInv, Answering, Nak, Valid
    <2>8. QED
      BY <2>5, <2>7
  <1>3. ASSUME HostReset \/ HostRetry PROVE AnswerInv' /\ AnswersMatch'
    <2>1. host' = "reset" /\ asked' = <<>> /\ got' = <<>> /\ UNCHANGED <<isr, req>>
      BY <1>3 DEF HostReset, HostRetry, Reset
    <2>2. Len(got') = 0
      BY <2>1
    <2>3. QED
      BY <2>1, <2>2 DEF AnswerInv, AnswersMatch
  <1>4. ASSUME HostSetup PROVE AnswerInv' /\ AnswersMatch'
    <2>1. host = "reset" /\ host' = "setup" /\ enabled /\ UNCHANGED <<isr, req, asked, got>>
      BY <1>4 DEF HostSetup
    <2>2. isr # "open_in_store"
      BY <1>0, <2>1 DEF HostInv, Opening
    <2>3. QED
      BY <2>1, <2>2 DEF AnswerInv, AnswersMatch
  <1>5. ASSUME Enter \/ LoopEnd \/ ServeSetup \/ ServeIn \/ ServeOut
        PROVE  AnswerInv' /\ AnswersMatch'
    <2>1. /\ UNCHANGED <<host, asked, got, ran, req, seen, in_stat, in_pma, out_pma>>
          /\ isr' \notin Answering /\ isr' # "open_in_store"
          /\ ctr_out' \/ isr' = "read" => ctr_out \/ isr = "read"
      BY <1>5 DEF Enter, LoopEnd, ServeSetup, ServeIn, ServeOut, Acknowledge, Answering
    <2>2. Carried' => Carried
      BY <2>1 DEF Carried
    <2>3. QED
      BY <2>1, <2>2 DEF AnswerInv, AnswersMatch, Answering, Last
  <1>6. ASSUME ReadReport PROVE AnswerInv' /\ AnswersMatch'
    <2>1. /\ isr = "read" /\ isr' = IF out_pma.full THEN "process" ELSE "rearm"
          /\ req' = out_pma
          /\ UNCHANGED <<host, asked, got, ran, seen, in_stat, in_pma, out_pma, ctr_out>>
      BY <1>6 DEF ReadReport
    <2>2. Carried' => Carried
      BY <2>1 DEF Carried
    <2>3. isr' = "process" => Carried /\ req'.full
      BY <2>1 DEF Carried
    <2>4. isr' \in Answering => isr' = "process"
      BY <2>1 DEF Answering
    <2>5. QED
      BY <2>1, <2>2, <2>3, <2>4 DEF AnswerInv, AnswersMatch, Answering, Last, Nak, Valid
  <1>7. ASSUME Process PROVE AnswerInv' /\ AnswersMatch'
    <2>1. /\ isr = "process" /\ isr' = "answer" /\ ran' = Append(ran, req)
          /\ UNCHANGED <<host, asked, got, req, seen, in_stat, in_pma, out_pma, ctr_out>>
      BY <1>7 DEF Process
    <2>2. ran' # <<>> /\ Last(ran)' = req
      <3>1. Len(ran') = Len(ran) + 1 /\ ran'[Len(ran) + 1] = req
        BY <1>0, <2>1, Appended DEF IInv, TypeOK
      <3>2. Len(ran') # 0
        BY <1>0, <3>1
      <3>3. QED
        BY <3>1, <3>2 DEF Last
    <2>3. Carried' => Carried
      BY <2>1 DEF Carried
    <2>4. host = "configured" => in_stat = Nak
      BY <2>1 DEF AnswerInv, Answering
    <2>5. QED
      BY <2>1, <2>2, <2>3, <2>4 DEF AnswerInv, AnswersMatch, Answering, Last, Nak, Valid
  <1>8. ASSUME WriteAnswer PROVE AnswerInv' /\ AnswersMatch'
    <2>1. /\ isr = "answer" /\ isr' = "offer" /\ in_pma' = req
          /\ UNCHANGED <<host, asked, got, ran, req, seen, in_stat, out_pma, ctr_out>>
      BY <1>8 DEF WriteAnswer
    <2>2. Carried' => Carried
      BY <2>1 DEF Carried
    <2>3. QED
      BY <2>1, <2>2 DEF AnswerInv, AnswersMatch, Answering, Last, Nak, Valid
  <1>9. ASSUME LoadStatus PROVE AnswerInv' /\ AnswersMatch'
    <2>1. /\ UNCHANGED <<host, asked, got, ran, req, in_stat, in_pma, out_pma, ctr_out>>
          /\ isr' # "read" /\ isr' # "process"
          /\ isr' \in Answering => isr = "offer" /\ isr' = "offer_store"
          /\ isr' = "offer_store" \/ isr' = "open_in_store" => seen' = in_stat
      <3>1. CASE isr = "offer"
        BY <1>9, <3>1 DEF LoadStatus, Answering
      <3>2. CASE isr = "rearm"
        BY <1>9, <3>2 DEF LoadStatus, Answering
      <3>3. CASE isr = "open_out"
        BY <1>9, <3>3 DEF LoadStatus, Answering
      <3>4. CASE isr = "open_in"
        BY <1>9, <3>4 DEF LoadStatus, Answering
      <3>5. QED
        BY <1>9, <3>1, <3>2, <3>3, <3>4 DEF LoadStatus
    <2>2. Carried' => Carried
      BY <2>1 DEF Carried
    <2>3. QED
      BY <2>1, <2>2 DEF AnswerInv, AnswersMatch, Answering, Last, Nak, Valid
  <1>10. ASSUME OfferAnswer PROVE AnswerInv' /\ AnswersMatch'
    <2>1. /\ isr = "offer_store" /\ isr' = "rearm" /\ in_stat' = Toggled(in_stat, Valid)
          /\ UNCHANGED <<host, asked, got, ran, req, seen, in_pma, out_pma, ctr_out>>
      BY <1>10 DEF OfferAnswer
    <2>2. host = "configured" => in_stat' = Valid
      <3>1. host = "configured" => in_stat = Nak /\ seen = Nak
        BY <2>1 DEF AnswerInv, Answering
      <3>2. QED
        BY <2>1, <3>1 DEF Toggled, Nak, Valid
    <2>3. ~Carried'
      BY <1>0, <2>1 DEF Carried, ArmInv, Busy
    <2>4. QED
      BY <2>1, <2>2, <2>3 DEF AnswerInv, AnswersMatch, Answering, Last
  <1>11. ASSUME Rearm \/ OpenOut PROVE AnswerInv' /\ AnswersMatch'
    <2>1. /\ isr' \in {"loop", "open_in"}
          /\ UNCHANGED <<host, asked, got, ran, req, seen, in_stat, in_pma, out_pma, ctr_out>>
      BY <1>11 DEF Rearm, OpenOut
    <2>2. Carried' => Carried
      BY <2>1 DEF Carried
    <2>3. QED
      BY <2>1, <2>2 DEF AnswerInv, AnswersMatch, Answering, Last
  <1>12. ASSUME OpenIn PROVE AnswerInv' /\ AnswersMatch'
    <2>1. /\ isr = "open_in_store" /\ isr' = "loop" /\ in_stat' = Toggled(in_stat, Nak)
          /\ host' = IF host = "setup" THEN "configured" ELSE host
          /\ UNCHANGED <<asked, got, ran, req, seen, in_pma, out_pma, ctr_out>>
      BY <1>12 DEF OpenIn, OpenedIn
    <2>2. host # "configured" /\ ~ctr_out
      BY <1>0, <2>1 DEF HostInv, Opening
    <2>3. host = "setup" => in_stat' = Nak
      <3>1. ASSUME host = "setup" PROVE in_stat' = Toggled(seen, Nak) /\ seen \in Statuses
        BY <2>1, <3>1 DEF AnswerInv, IInv, TypeOK
      <3>2. QED
        BY <3>1 DEF Toggled, Nak, Valid, Stall, Disabled, Statuses
    <2>4. ~Carried' /\ isr' \notin Answering
      BY <2>1, <2>2 DEF Carried, Answering
    <2>5. asked = <<>> /\ got = <<>> /\ Len(got) = 0
      BY <2>2 DEF AnswerInv
    <2>6. AnswersMatch'
      BY <2>1, <2>5 DEF AnswersMatch
    <2>7. AnswerInv'
      BY <2>1, <2>2, <2>3, <2>4, <2>5 DEF AnswerInv, Answering, Nak, Valid
    <2>8. QED
      BY <2>6, <2>7
  <1>13. ASSUME HandleReset \/ ClearReset \/ Exit PROVE AnswerInv' /\ AnswersMatch'
    <2>1. /\ isr' \in {"clear_reset", "exit"}
          /\ UNCHANGED <<host, asked, got, ran, req, seen, in_stat, in_pma, out_pma, ctr_out>>
      BY <1>13 DEF HandleReset, ClearReset, Exit
    <2>2. Carried' => Carried
      BY <2>1 DEF Carried
    <2>3. QED
      BY <2>1, <2>2 DEF AnswerInv, AnswersMatch, Answering, Last
  <1>14. QED
    BY <1>1, <1>2, <1>3, <1>4, <1>5, <1>6, <1>7, <1>8, <1>9, <1>10, <1>11, <1>12, <1>13
    DEF Next, Handler, Host
\* With a window of 1, the invariants hold in every reachable state.
THEOREM WindowInvariance ==
  ASSUME Window = 1
  PROVE  Spec => [](IInv /\ AnswerInv /\ AnswersMatch)
  <1>1. Init => AnswerInv /\ AnswersMatch
    <2>1. ASSUME Init PROVE asked = <<>> /\ got = <<>> /\ host = "reset" /\ isr = "exit" /\ Len(got) = 0
      BY <2>1 DEF Init
    <2>2. QED
      BY <2>1 DEF AnswerInv, AnswersMatch
  <1>2. IInv /\ AnswerInv /\ AnswersMatch /\ [Next]_vars => (IInv /\ AnswerInv /\ AnswersMatch)'
    <2>1. SUFFICES ASSUME IInv, AnswerInv, AnswersMatch, [Next]_vars
                   PROVE  IInv' /\ AnswerInv' /\ AnswersMatch'
      OBVIOUS
    <2>2. IInv'
      BY <2>1, InvKept
    <2>3. CASE Next
      BY <2>1, <2>2, <2>3, AnswersKept DEF IInv
    <2>4. CASE UNCHANGED vars
      BY <2>1, <2>2, <2>4
      DEF vars, endpoints, device, pma, handler, outside, AnswerInv, AnswersMatch, Carried, Last
    <2>5. QED
      BY <2>1, <2>2, <2>3, <2>4
  <1>3. QED
    BY <1>1, <1>2, InvStarts, PTL DEF Spec

\* A host that waits for each answer before its next command gets, as its k-th
\* answer, the answer to its k-th command, however many reports and resets.
THEOREM AnswersAlwaysMatch ==
  ASSUME Window = 1
  PROVE  Spec => []AnswersMatch
  BY WindowInvariance, PTL

\* A reset that falls while a command is being processed leaves endpoint 1 IN disabled
\* until that command's answer is offered.
GivenUpInv ==
  host = "reset" /\ isr \in {"read", "process", "answer", "offer"} => in_stat = Disabled

LEMMA GivenUpKept ==
  ASSUME IInv, GivenUpInv, Next
  PROVE  GivenUpInv'
  <1> USE DEF GivenUpInv
  <1>1. CASE HostSend \/ HostPoll \/ HostSetup
    BY <1>1 DEF HostSend, HostPoll, HostSetup, handler
  <1>2. CASE HostReset \/ HostRetry
    BY <1>2 DEF HostReset, HostRetry, Reset
  <1>3. CASE Enter \/ LoopEnd \/ ServeSetup \/ ServeIn \/ HandleReset \/ ClearReset \/ Exit
    BY <1>3 DEF Enter, LoopEnd, ServeSetup, ServeIn, HandleReset, ClearReset, Exit
  <1>4. CASE ServeOut
    <2>1. ctr_out /\ host' = host
      BY <1>4 DEF ServeOut, outside
    <2>2. QED
      BY <2>1 DEF IInv, HostInv
  <1>5. CASE ReadReport \/ Process \/ WriteAnswer
    BY <1>5 DEF ReadReport, Process, WriteAnswer, endpoints, outside
  <1>6. CASE LoadStatus
    <2>1. isr' \in {"offer_store", "rearm_store", "open_out_store", "open_in_store"}
      BY <1>6 DEF LoadStatus
    <2>2. QED
      BY <2>1
  <1>7. CASE OfferAnswer \/ Rearm \/ OpenOut \/ OpenIn
    BY <1>7 DEF OfferAnswer, Rearm, OpenOut, OpenIn
  <1>8. QED
    BY <1>1, <1>2, <1>3, <1>4, <1>5, <1>6, <1>7 DEF Next, Handler, Host

\* To a host that waits for each answer, no answer is written over one that the
\* controller may be sending: not after a reset either, when the handler still finishes
\* the command the host gave up.
THEOREM AnswersNotTorn ==
  ASSUME Window = 1
  PROVE  Spec => AnswerNotTorn
  <1>1. Init => GivenUpInv
    BY DEF Init, GivenUpInv
  <1>2. IInv /\ GivenUpInv /\ [Next]_vars => GivenUpInv'
    <2>1. CASE UNCHANGED vars
      BY <2>1 DEF vars, endpoints, handler, outside, GivenUpInv
    <2>2. QED
      BY <2>1, GivenUpKept
  <1>3. IInv /\ AnswerInv /\ GivenUpInv /\ [Next]_vars => [in_pma' # in_pma => in_stat # Valid]_vars
    <2>1. SUFFICES ASSUME IInv, AnswerInv, GivenUpInv, Next, in_pma' # in_pma
                   PROVE  in_stat # Valid
      OBVIOUS
    <2>2. isr = "answer"
      <3>1. CASE Handler
        BY <2>1, <3>1
        DEF Handler, pma, Enter, LoopEnd, ServeSetup, ServeIn, ServeOut, ReadReport, Process,
            WriteAnswer, LoadStatus, OfferAnswer, Rearm, OpenOut, OpenIn, HandleReset,
            ClearReset, Exit
      <3>2. CASE Host
        BY <2>1, <3>2 DEF Host, pma, HostSend, HostPoll, HostReset, HostRetry, Reset, HostSetup
      <3>3. QED
        BY <2>1, <3>1, <3>2 DEF Next
    <2>3. CASE host = "configured"
      BY <2>1, <2>2, <2>3 DEF AnswerInv, Answering, Nak, Valid
    <2>4. CASE host # "configured"
      BY <2>1, <2>2, <2>4 DEF IInv, TypeOK, HostInv, Busy, GivenUpInv, Disabled, Valid
    <2>5. QED
      BY <2>3, <2>4
  <1>4. QED
    BY <1>1, <1>2, <1>3, WindowInvariance, PTL DEF Spec, AnswerNotTorn

\* A handler step other than reading a report and running it moves no command.
LEMMA TodoStays ==
  ASSUME UNCHANGED <<asked, got, ran, req, out_pma>>,
         isr' = "process" <=> isr = "process",
         ctr_out' \/ isr' = "read" <=> ctr_out \/ isr = "read"
  PROVE  UNCHANGED Exchange!vars
  BY DEF Exchange!vars, Todo

\* Every step of HidLink is a step of the exchange, or none.
LEMMA StepsOfExchange ==
  ASSUME Window = 1, IInv, AnswerInv, [Next]_vars
  PROVE  [Exchange!Next]_Exchange!vars
  <1> USE DEF endpoints, device, pma, handler, outside
  <1>0. /\ Len(asked) \in Nat /\ Len(got) \in Nat /\ Len(ran) \in Nat
        /\ \A i \in 1..Len(ran) : ran[i] \in Reports
        /\ HostInv /\ ArmInv /\ out_pma \in Reports
    BY Elements DEF IInv, TypeOK
  <1>1. ASSUME HostSend PROVE [Exchange!Next]_Exchange!vars
    <2>1. /\ host = "configured" /\ out_stat = Valid /\ ctr_out'
          /\ UNCHANGED <<isr, req, got, ran, resets>>
          /\ out_pma'.full => Outstanding < Window /\ asked' = Append(asked, out_pma')
          /\ ~out_pma'.full => asked' = asked
          /\ out_pma' \in Reports /\ out_pma'.reset = resets /\ out_pma'.n = sent + 1
      BY <1>1, <1>0 DEF HostSend, Report, Reports, IInv, TypeOK
    <2>2. isr \notin Busy /\ ~ctr_out
      BY <1>0, <2>1 DEF ArmInv
    <2>3. Todo = NoReport
      BY <2>2 DEF Todo, Busy
    <2>4. CASE out_pma'.full
      <3>1. Len(asked) = Len(got)
        BY <1>0, <2>1, <2>4 DEF Outstanding, AnswerInv
      <3>2. Todo' = out_pma'
        BY <2>1, <2>2, <2>4 DEF Todo, Busy
      <3>3. \A i \in 1..Len(ran) : ran[i] # out_pma'
        <4>1. SUFFICES ASSUME NEW i \in 1..Len(ran) PROVE ran[i] # out_pma'
          OBVIOUS
        <4>2. Past(ran[i]) /\ ran[i].n \in Nat /\ ran[i].reset \in Nat
          BY <1>0 DEF IInv, OrderInv, Reports
        <4>3. resets \in Nat /\ sent \in Nat
          BY DEF IInv, TypeOK
        <4>4. QED
          BY <2>1, <4>2, <4>3 DEF Past
      <3>4. Exchange!Ask
        BY <2>1, <2>3, <2>4, <3>1, <3>2, <3>3 DEF Exchange!Ask
      <3>5. QED
        BY <3>4 DEF Exchange!Next
    <2>5. CASE ~out_pma'.full
      <3>1. Todo' = NoReport
        BY <2>1, <2>2, <2>5 DEF Todo, Busy
      <3>2. QED
        BY <2>1, <2>3, <2>5, <3>1 DEF Exchange!vars
    <2>6. QED
      BY <2>4, <2>5
  <1>2. ASSUME HostPoll PROVE [Exchange!Next]_Exchange!vars
    <2>1. /\ host = "configured" /\ in_stat = Valid /\ got' = Append(got, in_pma)
          /\ UNCHANGED <<isr, req, ctr_out, out_pma, asked, ran>>
      BY <1>2 DEF HostPoll
    <2>2. /\ Len(asked) = Len(got) + 1 /\ in_pma = Last(asked)
          /\ ran # <<>> /\ Last(ran) = in_pma
      BY <2>1 DEF AnswerInv
    <2>3. Todo' = Todo
      BY <2>1 DEF Todo
    <2>4. Exchange!Collect
      BY <2>1, <2>2, <2>3 DEF Exchange!Collect, Exchange!Last, Last
    <2>5. QED
      BY <2>4 DEF Exchange!Next
  <1>3. ASSUME HostReset \/ HostRetry PROVE [Exchange!Next]_Exchange!vars
    <2>1. /\ asked' = <<>> /\ got' = <<>> /\ ~ctr_out'
          /\ UNCHANGED <<isr, req, out_pma, ran>>
      BY <1>3 DEF HostReset, HostRetry, Reset
    <2>2. Todo' \in {Todo, NoReport}
      BY <2>1 DEF Todo
    <2>3. Exchange!GiveUp
      BY <2>1, <2>2 DEF Exchange!GiveUp
    <2>4. QED
      BY <2>3 DEF Exchange!Next
  <1>4. ASSUME HostSetup \/ Enter \/ LoopEnd \/ ServeSetup \/ ServeIn PROVE [Exchange!Next]_Exchange!vars
    BY <1>4, TodoStays DEF HostSetup, Enter, LoopEnd, ServeSetup, ServeIn
  <1>5. ASSUME ServeOut \/ WriteAnswer \/ OfferAnswer \/ Rearm PROVE [Exchange!Next]_Exchange!vars
    BY <1>5, TodoStays DEF ServeOut, Acknowledge, WriteAnswer, OfferAnswer, Rearm
  <1>6. ASSUME OpenOut \/ OpenIn \/ HandleReset \/ ClearReset \/ Exit
        PROVE  [Exchange!Next]_Exchange!vars
    BY <1>6, TodoStays DEF OpenOut, OpenIn, HandleReset, ClearReset, Exit
  <1>7. ASSUME LoadStatus PROVE [Exchange!Next]_Exchange!vars
    <2>1. isr \in {"offer", "rearm", "open_out", "open_in"} /\ isr' \notin {"read", "process"}
      BY <1>7 DEF LoadStatus
    <2>2. UNCHANGED <<asked, got, ran, req, out_pma, ctr_out>>
      BY <1>7 DEF LoadStatus
    <2>3. QED
      BY <2>1, <2>2, TodoStays
  <1>8. ASSUME ReadReport PROVE [Exchange!Next]_Exchange!vars
    <2>1. /\ isr = "read" /\ isr' = IF out_pma.full THEN "process" ELSE "rearm"
          /\ req' = out_pma /\ UNCHANGED <<asked, got, ran, out_pma, ctr_out>>
      BY <1>8 DEF ReadReport
    <2>2. Todo' = Todo
      BY <2>1 DEF Todo
    <2>3. QED
      BY <2>1, <2>2 DEF Exchange!vars
  <1>9. ASSUME Process PROVE [Exchange!Next]_Exchange!vars
    <2>1. /\ isr = "process" /\ isr' = "answer" /\ ran' = Append(ran, req)
          /\ UNCHANGED <<asked, got, req, out_pma, ctr_out>>
      BY <1>9 DEF Process
    <2>2. ~ctr_out /\ req.full
      BY <1>0, <2>1 DEF ArmInv, Busy, AnswerInv
    <2>3. Todo = req /\ Todo' = NoReport
      BY <2>1, <2>2 DEF Todo
    <2>4. req # NoReport
      BY <2>2 DEF NoReport, Report
    <2>5. Exchange!Run
      BY <2>1, <2>3, <2>4 DEF Exchange!Run
    <2>6. QED
      BY <2>5 DEF Exchange!Next
  <1>10. ASSUME UNCHANGED vars PROVE [Exchange!Next]_Exchange!vars
    BY <1>10, TodoStays DEF vars
  <1>11. QED
    BY <1>1, <1>2, <1>3, <1>4, <1>5, <1>6, <1>7, <1>8, <1>9, <1>10 DEF Next, Handler, Host

\* To a host that waits for each answer, HidLink is the abstract exchange.
THEOREM Refinement ==
  ASSUME Window = 1
  PROVE  Spec => ImplementsExchange
  <1>1. Init => Exchange!Init
    BY DEF Init, Exchange!Init, Todo
  <1>2. IInv /\ AnswerInv /\ [Next]_vars => [Exchange!Next]_Exchange!vars
    BY StepsOfExchange
  <1>3. QED
    BY <1>1, <1>2, WindowInvariance, PTL DEF Spec, Exchange!Spec, ImplementsExchange
==============================================================================
