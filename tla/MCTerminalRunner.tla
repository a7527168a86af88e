------------------------- MODULE MCTerminalRunner -------------------------
EXTENDS TerminalRunner
=============================================================================
