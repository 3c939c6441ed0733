--------------------------- MODULE MCTerminalPane ---------------------------
(* One terminal pane with lines of up to three characters. *)
EXTENDS TerminalPane

MCClear == <<"a", "a">>
=============================================================================
