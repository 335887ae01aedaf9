---------------------------- MODULE AmCmdServer ----------------------------
(***************************************************************************)
(* What the network target (am_targ) promises its clients, with no queue:  *)
(* commands are accepted one after the other, and each accepted command is *)
(* executed exactly once, in the order of acceptance.                      *)
(***************************************************************************)
EXTENDS Naturals

CONSTANT MaxCmds      \* bound: how many commands the network delivers

VARIABLES
  accepted,           \* number of the last command accepted
  execs               \* how often each command was executed

vars == <<accepted, execs>>

Init ==
  /\ accepted = 0
  /\ execs = [n \in 1..MaxCmds |-> 0]

\* The next command arrives.
Accept ==
  /\ accepted < MaxCmds
  /\ accepted' = accepted + 1
  /\ UNCHANGED execs

\* The oldest accepted command that was not executed is executed.
Serve(n) ==
  /\ n <= accepted
  /\ execs[n] = 0
  /\ \A m \in 1..(n - 1) : execs[m] = 1
  /\ execs' = [execs EXCEPT ![n] = 1]
  /\ UNCHANGED accepted

Next == Accept \/ \E n \in 1..MaxCmds : Serve(n)

Spec == Init /\ [][Next]_vars
=============================================================================
