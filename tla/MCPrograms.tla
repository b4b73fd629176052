----------------------------- MODULE MCPrograms -----------------------------
(***************************************************************************)
(* Programs with names of two characters, and an echo of two rounds of two *)
(* characters whose pointer finds a mapped or an unmapped address.         *)
(***************************************************************************)
EXTENDS Programs

CONSTANTS x, y, stack, null

MCChars == {x, y}
MCInit == <<x, y>>
MCEcho == <<y, y>>
MCWait == <<y, x>>
MCPlaces == {stack, null}
MCInvalid == {null}
=============================================================================
