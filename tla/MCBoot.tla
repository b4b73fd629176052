------------------------------- MODULE MCBoot -------------------------------
(***************************************************************************)
(* Boot with a timer (line 0), the keyboard (1) and the second controller  *)
(* (2).  stivale2 starts a kernel with CS = 40 and SS = 48, in gdt.c's     *)
(* table the two halves of the TSS descriptor; the others are a loader     *)
(* whose selectors happen to be the kernel's, and one with a NULL SS.      *)
(***************************************************************************)
EXTENDS Boot

MCLines == {0, 1, 2}
MCSelectors == {[cs |-> 40, ss |-> 48], [cs |-> 8, ss |-> 16], [cs |-> 40, ss |-> 0]}
MCTags == {{"hhdm", "memmap", "modules"}, {"hhdm", "memmap"}}
=============================================================================
