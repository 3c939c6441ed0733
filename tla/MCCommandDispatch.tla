------------------------- MODULE MCCommandDispatch -------------------------
(* Small instances of CommandDispatch. *)
EXTENDS CommandDispatch, TLC

\* Requests are interchangeable: nothing but equality is asked of them.
Symmetry == Permutations(Requests)
============================================================================
