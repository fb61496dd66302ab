---------------------------- MODULE MCAgentLink ----------------------------
(* AgentLink on small instances: callers are model values. *)
EXTENDS AgentLink

CONSTANTS a1, a2

TwoAsks == {a1, a2}
OneOfEach == [a \in TwoAsks |-> IF a = a1 THEN "update" ELSE "reboot"]
\* Each agent, with both shares, and a guest that holds another's secret.
SomeGuests ==
  [build : {"current", "old", "alien"}, key : {TRUE}, offer : {{"gpu", "display"}}]
    \cup [build : {"current"}, key : {FALSE}, offer : {{"gpu", "display"}}]
=============================================================================
