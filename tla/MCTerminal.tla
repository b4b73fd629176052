----------------------------- MODULE MCTerminal -----------------------------
(***************************************************************************)
(* Terminal on a screen of three rows of two characters.                   *)
(***************************************************************************)
EXTENDS Terminal

CONSTANTS x, y

MCPrintable == {x, y}
MCEchoed == {x, NL}
Between == {"idle"} \cup CursorSteps
Anywhere == {"idle", "wrap", "scroll", "write", "advance"} \cup CursorSteps
=============================================================================
