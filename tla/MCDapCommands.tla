--------------------------- MODULE MCDapCommands ---------------------------
(* A report of 10 bytes and a response buffer of 40: a block of 16 words runs   *)
(* out of room, and a request of reads fills all of its report.                *)
EXTENDS DapCommands

MCPacketSize == 10
MCRespSize == 40
MCWordBytes == 4
MCRequestLens == {1, 2, 4, 5, 9, 10}
MCCounts == {0, 1, 2, 7, 16}
MCByteLens == {1, 2, 3, 8}
MCInfoLens == {1, 8}
MCClocksKhz == {0, 700, 10000}
=============================================================================
