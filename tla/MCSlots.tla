------------------------------- MODULE MCSlots -------------------------------
(* EngineSlots on small sets of callers and slots, for TLC. *)
EXTENDS EngineSlots, TLC

CONSTANTS c1, c2, c3, srv1, srv2

\* Two tool calls share a server process; a third has one of its own.
Shared == c1 :> srv1 @@ c2 :> srv1 @@ c3 :> srv2
==============================================================================
