---------------------------- MODULE MCAgentLink ----------------------------
(***************************************************************************)
(* Bounds for AgentLink.                                                   *)
(***************************************************************************)
EXTENDS AgentLink

=============================================================================
