--------------------------- MODULE ReportExchange ---------------------------
(***************************************************************************)
(* What a host that waits for each answer before its next command is        *)
(* promised: every command is run at most once, and the answer it collects  *)
(* is the answer to the command it asked last, which has been run.  The     *)
(* host may give up at any time and start again; the command it gave up is  *)
(* forgotten, or still run, but never answered.                             *)
(***************************************************************************)
EXTENDS Integers, Sequences

CONSTANTS
  Command,      \* the commands, each sent at most once
  NoCommand     \* no command waits to be run

VARIABLES
  asked,        \* the commands since the host last gave up
  got,          \* the answers to them
  todo,         \* the command that waits to be run
  ran           \* the commands that were run

vars == <<asked, got, todo, ran>>

Last(s) == s[Len(s)]

Init == asked = <<>> /\ got = <<>> /\ todo = NoCommand /\ ran = <<>>

Ask ==
  /\ Len(asked) = Len(got) /\ todo = NoCommand
  /\ todo' \in Command
  /\ \A i \in 1..Len(ran) : ran[i] # todo'
  /\ asked' = Append(asked, todo')
  /\ UNCHANGED <<got, ran>>

Run ==
  /\ todo # NoCommand
  /\ ran' = Append(ran, todo)
  /\ todo' = NoCommand
  /\ UNCHANGED <<asked, got>>

Collect ==
  /\ Len(asked) = Len(got) + 1
  /\ ran # <<>> /\ Last(ran) = Last(asked)
  /\ got' = Append(got, Last(asked))
  /\ UNCHANGED <<asked, todo, ran>>

GiveUp ==
  /\ asked' = <<>> /\ got' = <<>>
  /\ todo' \in {todo, NoCommand}
  /\ UNCHANGED ran

Next == Ask \/ Run \/ Collect \/ GiveUp

Spec == Init /\ [][Next]_vars
=============================================================================
