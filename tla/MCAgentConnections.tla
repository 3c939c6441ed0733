------------------------- MODULE MCAgentConnections -------------------------
(* Small instances of AgentConnections. *)
EXTENDS AgentConnections, TLC

\* Connections of one kind are interchangeable.
Symmetry == Permutations(WS) \cup Permutations(GRPC)
=============================================================================
