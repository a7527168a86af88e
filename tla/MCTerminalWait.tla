--------------------------- MODULE MCTerminalWait ---------------------------
(* Two writers in two processes. *)
EXTENDS TerminalWait
CONSTANTS server, other
McWriters == {server, other}
=============================================================================
