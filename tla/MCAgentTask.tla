---------------------------- MODULE MCAgentTask ----------------------------
(***************************************************************************)
(* Bounds for AgentTask: two chunks on stdout let the reader overwrite a   *)
(* queued slice, one on stderr lets the streams race.                      *)
(***************************************************************************)
EXTENDS AgentTask

MCWrites == [s \in Streams |-> IF s = "stdout" THEN 2 ELSE 1]
=============================================================================
