---------------------------- MODULE AddressSpace ----------------------------
(***************************************************************************)
(* What page.c promises its callers about the current address space:       *)
(* vm_map makes an unmapped page accessible with the permissions asked     *)
(* for, or changes nothing; vm_protect changes those of a mapped page and  *)
(* of no other; unmap_lower_half leaves no page of the lower half mapped   *)
(* and does not touch the upper half.                                      *)
(***************************************************************************)
EXTENDS Naturals

CONSTANTS
    Addresses,   \* the virtual pages looked at
    Lower,       \* those in the lower half
    Flags        \* the permissions a page can have beyond being read

VARIABLES
    space,       \* what can be done with each page
    op,          \* the operation in progress
    arg,         \* the page it is about
    want,        \* the permissions it asks for
    ret          \* what the last operation returned

vars == <<space, op, arg, want, ret>>

\* A page is mapped if it can be read at all; permissions come on top.
Unmapped == {}
Mapped(flags) == {"read"} \cup flags

\* The kernel starts on the boot loader's page tables, about to clear them.
Init ==
    /\ space \in [Addresses -> {Unmapped} \cup {Mapped(flags) : flags \in SUBSET Flags}]
    /\ op = "unmap_lower_half"
    /\ arg \in Addresses
    /\ want \in SUBSET Flags
    /\ ret = FALSE

Call(f, a, flags) ==
    /\ op = "none"
    /\ op' = f
    /\ arg' = a
    /\ want' = flags
    /\ UNCHANGED <<space, ret>>

Return(f, result) ==
    /\ op = f
    /\ op' = "none"
    /\ ret' = result
    /\ UNCHANGED <<arg, want>>

\* A mapped page is never mapped anew; memory may run out.
MapReturns ==
    \/ /\ Return("vm_map", TRUE)
       /\ space[arg] = Unmapped
       /\ space' = [space EXCEPT ![arg] = Mapped(want)]
    \/ Return("vm_map", FALSE) /\ UNCHANGED space

ProtectReturns ==
    \/ /\ Return("vm_protect", TRUE)
       /\ space[arg] # Unmapped
       /\ space' = [space EXCEPT ![arg] = Mapped(want)]
    \/ /\ Return("vm_protect", FALSE)
       /\ space[arg] = Unmapped
       /\ UNCHANGED space

\* Pages of the lower half disappear while they are being unmapped.
Clear(gone) ==
    /\ op = "unmap_lower_half"
    /\ space' = [a \in Addresses |-> IF a \in gone THEN Unmapped ELSE space[a]]
    /\ UNCHANGED <<op, arg, want, ret>>

ClearReturns ==
    /\ Return("unmap_lower_half", TRUE)
    /\ \A a \in Lower : space[a] = Unmapped
    /\ UNCHANGED space

Next ==
    \/ \E f \in {"vm_map", "vm_protect", "unmap_lower_half"}, a \in Lower,
          flags \in SUBSET Flags : Call(f, a, flags)
    \/ MapReturns
    \/ ProtectReturns
    \/ \E gone \in SUBSET Lower : Clear(gone)
    \/ ClearReturns

Spec == Init /\ [][Next]_vars
=============================================================================
