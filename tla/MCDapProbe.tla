----------------------------- MODULE MCDapProbe -----------------------------
(* Requests of one transfer or sequence and of as many as fit; strings that    *)
(* reach Shift-DR from Run-Test/Idle when they are put together.               *)
EXTENDS DapProbe

MCPacketSize == 10
MCRespSize == 40
MCWordBytes == 4
MCRequestLens == {1, 6, 10}
MCCounts == {1, 2}
MCByteLens == {1}
MCInfoLens == {1}
MCClocksKhz == {700}
MCIrCapture == <<1, 0>>
MCDrCapture == <<0, 1>>
MCTmsStrings == {<<1>>, <<1, 0, 0>>}
MCTdiStrings == {<<0>>, <<1, 0, 1>>}
MCGotoTargets == {"TAP_IDLE", "TAP_DR_SHIFT", "TAP_IR_SHIFT"}
MCByteBits == 8
=============================================================================
