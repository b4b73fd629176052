------------------------------ MODULE Library -------------------------------
(***************************************************************************)
(* The functions that the rest of the kernel and the programs build on: a  *)
(* behaviour is one call, of kprintf (Kprint.tla) or of one of the string  *)
(* and memory functions (Strings.tla).                                     *)
(***************************************************************************)
EXTENDS Kprint

CONSTANTS
    MEMORY, BYTE, Contents    \* see Strings.tla

ASSUME StringsAssumption ==
    /\ MEMORY \in Nat \ {0} /\ BYTE \in Nat \ {0}
    /\ Contents \subseteq 0..BYTE - 1

VARIABLES mem, op, i, buf, state, result, original

S == INSTANCE Strings

stringvars == <<mem, op, i, buf, state, result, original>>
allvars == <<vars, stringvars>>

StringsIdle ==
    /\ mem = [a \in S!Addresses |-> 0] /\ original = mem
    /\ op = [name |-> "none", dest |-> 0, src |-> 0, arg |-> 0, rounds |-> 0]
    /\ i = 0 /\ buf = <<>> /\ result = 0
    /\ state = "done"

KprintIdle ==
    /\ call = <<>> /\ index = 0 /\ args = <<>> /\ printed = <<>>
    /\ conv = "d" /\ value = 0 /\ place = 0 /\ digits = <<>>
    /\ pc = "done"

LibraryInit == (Init /\ StringsIdle) \/ (S!Init /\ KprintIdle)

LibraryNext ==
    \/ Next /\ UNCHANGED stringvars
    \/ S!Next /\ UNCHANGED vars

\* The processor executes the function that was called.
LibrarySpec == LibraryInit /\ [][LibraryNext]_allvars /\ WF_allvars(LibraryNext)
-----------------------------------------------------------------------------
\* Types of both parts.
LibraryTypeOK == TypeOK /\ S!TypeOK

(***************************************************************************)
(* memcpy moves a block down onto one that overlaps it, as the scrolling   *)
(* terminal does, and no function changes a byte outside its block (but    *)
(* for the byte behind a copied string).                                   *)
(***************************************************************************)
BlockMoved == S!BlockMoved

\* strcmp is an order, and 0 for equal strings only: how exec finds a module.
StrcmpOrders == S!StrcmpOrders

(***************************************************************************)
(* Every call returns: kprintf's loop meets its terminator, the numbers    *)
(* run out of digits, and the other loops come to the end of their block.  *)
(***************************************************************************)
Returns == <>(pc = "done" /\ state = "done")
=============================================================================
