----------------------------- MODULE MCTerminal -----------------------------
(* The user types the command r, the control characters and nothing else:  *)
(* r is also any other character of a line.                                *)
EXTENDS Terminal

CONSTANT r

MCKey == {r, EOT, ETX, CR, LF, BS}
=============================================================================
