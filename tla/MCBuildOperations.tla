-------------------------- MODULE MCBuildOperations --------------------------
(* Two kinds in two environments, two streams, coming back to the page once. *)
EXTENDS BuildOperations

MCKinds == {"build", "import"}
MCEnvs == {"e1", "e2"}
MCStreams == 1..2
=============================================================================
