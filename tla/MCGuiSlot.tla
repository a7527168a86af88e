----------------------------- MODULE MCGuiSlot -----------------------------
(* Two turns in one process and one in another.                             *)
EXTENDS GuiSlot, TLC

CONSTANTS turn1, turn2, turn3, home, other

McTurns == {turn1, turn2, turn3}
McProcs == {home, other}
McProc == turn1 :> home @@ turn2 :> home @@ turn3 :> other
=============================================================================
