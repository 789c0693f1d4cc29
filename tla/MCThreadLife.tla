---------------------------- MODULE MCThreadLife ----------------------------
(* Constants for model checking ThreadLife: beside the manager, a static thread of *)
(* higher priority, an allocated one of the same priority, and a static one of     *)
(* lower priority that has a cleanup function.                                     *)
EXTENDS ThreadLife

MCThreads == {"main", "first", "second", "third", "idle"}
MCKind ==
  [t \in MCThreads |-> CASE t \in {"first", "idle"} -> "static" [] t = "second" -> "cleanup"
                         [] OTHER -> "dynamic"]
MCPriority ==
  [t \in MCThreads |-> CASE t = "first" -> 1 [] t \in {"main", "third"} -> 2
                          [] t = "second" -> 3 [] t = "idle" -> 4]
MCPriorityTable == <<"ready1", "ready2", "ready3", "ready4">>
=============================================================================
