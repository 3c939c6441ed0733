-------------------------- MODULE MCServerOnboarding --------------------------
(* Two slots: a second submission may start while the first one's install script is  *)
(* still on its way, or while the backend works on a request that was given up.  One    *)
(* address: a second one would only add records that collide with nothing.              *)
EXTENDS ServerOnboarding
=============================================================================
