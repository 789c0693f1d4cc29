---------------------------- MODULE MCKernelTimer ----------------------------
(* Constants for model checking KernelTimer: eight ticks, and the longest delay *)
(* they allow beside a start that is held up by a tick.                        *)
EXTENDS KernelTimer

MCDelays == {0, 1}
=============================================================================
