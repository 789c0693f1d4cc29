--------------------------- MODULE MCKernelThreads ---------------------------
(* Constants for model checking KernelThreads: three threads of different       *)
(* priorities beside the idle thread.                                          *)
EXTENDS KernelThreads

MCThreads == {"high", "middle", "low", "idle"}
MCInitPriority ==
  [t \in MCThreads |-> CASE t = "high" -> 0 [] t = "middle" -> 1 [] t = "low" -> 2 [] t = "idle" -> 3]
=============================================================================
