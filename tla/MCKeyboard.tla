----------------------------- MODULE MCKeyboard -----------------------------
(***************************************************************************)
(* Keyboard on small instances.  Two of the 128 entries of keys[] print;   *)
(* the scan codes sent are those two (30 and 48), left shift (42), the     *)
(* release of a key (158) and, where a run says so, backspace (14).        *)
(***************************************************************************)
EXTENDS Keyboard

CONSTANTS a, b

MCChar == {a, b}
MCKeys ==
    [code \in 0..127 |-> IF code = 30 THEN a ELSE IF code = 48 THEN b ELSE NUL]
MCCodes == {30, 48, 42, 158}
MCCodesBackspace == {30, 42, BackspaceCode}
MCSizes == 0..4
MCSizesShort == 0..2
=============================================================================
