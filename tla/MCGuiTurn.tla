----------------------------- MODULE MCGuiTurn -----------------------------
(* A Chromium browser, with a temporary chat of the user, and Safari.        *)
EXTENDS GuiTurn

McTemporary == {1}
=============================================================================
