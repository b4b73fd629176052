------------------------------ MODULE MCPaging ------------------------------
(***************************************************************************)
(* Paging on a small machine: 4 entries to a table, so 2 of the level 4    *)
(* table's entries are the lower half.  The boot loader leaves             *)
(*   page 1  the level 4 table: entry 0 to page 2, entry 2 to page 5;      *)
(*   page 2  a level 3 table: entry 0 to page 3, entry 1 a large page;     *)
(*   page 3  a level 2 table: entry 1 to page 4, entry 2 a large page;     *)
(*   page 4  a level 1 table that maps page 0, a usable page and page 3,   *)
(*           one of the tables it is under;                                *)
(*   page 5  a level 3 table of the upper half: entry 0 a large page,      *)
(*           entry 1 to page 6, a level 2 table, and from there to page 7, *)
(*           a level 1 table that maps usable pages and a lower table;     *)
(* and a memory map in which the pages from 8 on are usable, in two parts  *)
(* with a reserved page between them.                                      *)
(***************************************************************************)
EXTENDS Paging

MCRoot == PAGE

To(p, rights, large) ==
    [present |-> TRUE, address |-> p, flags |-> rights, page_size |-> large]

MCBootMem ==
    [w \in Words |->
        CASE w = 1 * PAGE + 0 -> To(2, Flags, FALSE)
          [] w = 1 * PAGE + 2 -> To(5, Flags, FALSE)
          [] w = 2 * PAGE + 0 -> To(3, Flags, FALSE)
          [] w = 2 * PAGE + 1 -> To(0, {"writable"}, TRUE)
          [] w = 3 * PAGE + 1 -> To(4, Flags, FALSE)
          [] w = 3 * PAGE + 2 -> To(0, {"writable"}, TRUE)
          [] w = 4 * PAGE + 0 -> To(0, {"writable"}, FALSE)
          [] w = 4 * PAGE + 1 -> To(9, {"writable"}, FALSE)
          [] w = 4 * PAGE + 3 -> To(3, {"writable"}, FALSE)
          [] w = 5 * PAGE + 0 -> To(0, {"writable"}, TRUE)
          [] w = 5 * PAGE + 1 -> To(6, Flags, FALSE)
          [] w = 6 * PAGE + 0 -> To(7, Flags, FALSE)
          [] w = 7 * PAGE + 0 -> To(8, {"writable"}, FALSE)
          [] w = 7 * PAGE + 1 -> To(11, {"writable"}, FALSE)
          [] w = 7 * PAGE + 2 -> To(4, {"writable"}, FALSE)
          [] OTHER -> Link(NULL)]

Region(t, first, pages) == [type |-> t, base |-> first * PAGE, length |-> pages * PAGE]

MCmemmap == <<Region(2, 0, 8), Region(1, 8, 2), Region(2, 10, 1), Region(1, 11, FRAMES - 11)>>

\* Two pages of one level 1 table, and one of another level 3 table.
MCUserPages == {<<0, 0, 0, 0>>, <<3, 0, 0, 0>>, <<0, 0, 2, 1>>}
MCUserPagesFew == {<<0, 0, 0, 0>>, <<3, 0, 0, 0>>}
MCKernelPages == {<<0, 0, 0, 2>>, <<0, 0, 1, 2>>}
MCTouched == {<<0, 0, 0, 0>>}
MCData == {{"user", "writable"}}
MCDataAndCode == {{"user", "writable"}, {"user", "executable"}}
=============================================================================
