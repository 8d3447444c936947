------------------------- MODULE MC_AgentLifecycle -------------------------
(* AgentLifecycle with two callers, which are interchangeable, and few PIDs. *)
EXTENDS AgentLifecycle, TLC

MCPids == {11, 12}
MCBoth == {"stop", "probe"}
MCProbe == {"probe"}
MCCallers == Permutations(Callers)
=============================================================================
