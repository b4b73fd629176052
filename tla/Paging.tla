------------------------------- MODULE Paging -------------------------------
(***************************************************************************)
(* Physical memory and page tables: kernel/page.c.                         *)
(*                                                                         *)
(* Memory is an array of words and a page is PAGE of them, so that a page  *)
(* table (an array of entries), a free page (whose first word links it to  *)
(* the next) and a misaligned address are all what they are in the code;   *)
(* shifting by 12 bits is multiplying or dividing by PAGE.  The higher     *)
(* half map (hhdm_base) is the identity here: every pointer of page.c is a *)
(* physical address plus that constant.                                    *)
(*                                                                         *)
(* A virtual address is the tuple of its table indices: a[4] for the level *)
(* 4 table to a[1] for the last one.                                       *)
(*                                                                         *)
(* An operation is a call and one step per iteration of its loops.         *)
(***************************************************************************)
EXTENDS Integers, Sequences, FiniteSets, SequencesExt

CONSTANTS
    PAGE,        \* words of a page, and entries of a page table (512)
    FRAMES,      \* pages of physical memory
    CR3,         \* the physical address of the level 4 table
    BootMem,     \* memory as the boot loader leaves it
    memmap,      \* the boot loader's memory map
    UserPages,   \* the lower half addresses that are mapped
    KernelPages, \* addresses of the upper half
    Protections, \* the permissions that callers ask for
    Touched      \* the pages that running code uses

Flags == {"user", "writable", "executable"}
Index == 0..PAGE - 1
LowerIndex == 0..(PAGE \div 2) - 1
Words == 0..FRAMES * PAGE - 1
Frames == {f * PAGE : f \in 1..FRAMES - 1}

\* A page table entry.  address is a page number, as in the code.
Entry == [present : BOOLEAN, address : 0..FRAMES - 1,
          flags : SUBSET Flags, page_size : BOOLEAN]

\* The memory map's type of usable memory, "per stivale2 specs" page aligned.
USABLE == 1

ASSUME PagingAssumption ==
    /\ PAGE \in Nat \ {0, 1} /\ FRAMES \in Nat
    /\ CR3 \in Frames
    /\ BootMem \in [Words -> Entry]
    /\ \A e \in ToSet(memmap) :
          e.type = USABLE => \A p \in e.base..e.base + e.length - 1 : p \in Words
    /\ \A a \in UserPages : a \in [1..4 -> Index] /\ a[4] \in LowerIndex
    /\ \A a \in KernelPages : a \in [1..4 -> Index] /\ a[4] \notin LowerIndex
    /\ Protections \subseteq SUBSET Flags
    /\ Touched \subseteq UserPages \cup KernelPages

NULL == 0

VARIABLES
    mem,                \* physical memory
    freelist,           \* the first free page, or NULL
    free_page_counter,
    tlb,                \* the processor's cached translations
    pc,                 \* the loop that is running
    table,              \* vm_map, vm_protect: the table reached
    level,              \* ... and its level
    address, flags,     \* ... and their arguments
    ret,                \* what the last call returned
    l4_index, l3_index, l2_index,   \* unmap_lower_half's loops
    current, curr,      \* mem_init's loops
    free,               \* auxiliary: the pages of the freelist, in order
    lost,               \* auxiliary: mapped pages whose tables are gone
    phase               \* auxiliary: "boot" until mem_init returns, then "run"

memory == <<mem, freelist, free_page_counter, free>>
walk == <<table, level, address, flags>>
loops == <<l4_index, l3_index, l2_index>>
scan == <<current, curr, phase>>
vars == <<memory, tlb, pc, walk, ret, loops, scan, lost>>
-----------------------------------------------------------------------------
(***************************************************************************)
(* Words of memory.                                                        *)
(***************************************************************************)

\* A pointer to a page (or NULL) stored in a word; its present bit is clear.
Link(p) == [present |-> FALSE, address |-> p \div PAGE, flags |-> {}, page_size |-> FALSE]

\* The physical address an entry leads to, or the page a link points to.
Base(word) == word.address * PAGE

\* Does an entry of a level 2 to 4 table point to a table?
HasTable(word) == word.present /\ ~word.page_size
-----------------------------------------------------------------------------
(***************************************************************************)
(* The processor's page walk.                                              *)
(***************************************************************************)
E4(a) == mem[CR3 + a[4]]
E3(a) == mem[Base(E4(a)) + a[3]]
E2(a) == mem[Base(E3(a)) + a[2]]
E1(a) == mem[Base(E2(a)) + a[1]]

\* The entries that translate an address, to the last table or a large page.
Path(a) ==
    IF ~HasTable(E4(a)) THEN <<E4(a)>>
    ELSE IF ~HasTable(E3(a)) THEN <<E4(a), E3(a)>>
    ELSE IF ~HasTable(E2(a)) THEN <<E4(a), E3(a), E2(a)>>
    ELSE <<E4(a), E3(a), E2(a), E1(a)>>

\* What can be done with a page: a right must be granted at every level.
Access(a) ==
    IF \A e \in ToSet(Path(a)) : e.present
    THEN {"read"} \cup {f \in Flags : \A e \in ToSet(Path(a)) : f \in e.flags}
    ELSE {}

Translation(a) == [page |-> a, base |-> Base(Last(Path(a))), access |-> Access(a)]

\* A program, or the kernel's memcpy, uses a mapped page.
Touch(a) ==
    /\ pc = "idle"
    /\ Access(a) # {}
    /\ \A t \in tlb : t.page # a
    /\ tlb' = tlb \cup {Translation(a)}
    /\ UNCHANGED <<memory, pc, walk, ret, loops, scan, lost>>

invalidate_tlb(a) == tlb' = {t \in tlb : t.page # a}
\* Mutant: the walk ends one level early.
translateShort(a) ==
    LET found == E4(a).present /\ E3(a).present /\ E2(a).present
    IN  IF found THEN Base(E2(a)) ELSE NULL

\* What translate prints for a page, NULL for "Not Present!".
translate(a) ==
    LET found == E4(a).present /\ E3(a).present /\ E2(a).present /\ E1(a).present
    IN  IF found THEN Base(E1(a)) ELSE NULL
-----------------------------------------------------------------------------
(***************************************************************************)
(* The freelist.                                                           *)
(***************************************************************************)

\* Mutant: freelist = new before new->next = freelist.
PushSwapped(p, count) ==
    /\ mem' = [mem EXCEPT ![p] = Link(p)]
    /\ freelist' = p
    /\ free_page_counter' = free_page_counter + count
    /\ free' = <<p>> \o free

\* Put a page in front of the freelist and count it.
Push(p, count) ==
    /\ mem' = [mem EXCEPT ![p] = Link(freelist)]
    /\ freelist' = p
    /\ free_page_counter' = free_page_counter + count
    /\ free' = <<p>> \o free

pmem_free(p) == Push(p, 1)

\* Mutant: the freelist is not moved to the next page.
pmem_allocStuck ==
    /\ freelist # NULL
    /\ free_page_counter' = free_page_counter - 1
    /\ UNCHANGED <<freelist, free>>

\* The page allocated is the first, freelist before the step.
pmem_alloc ==
    /\ freelist # NULL
    /\ freelist' = Base(mem[freelist])
    /\ free_page_counter' = free_page_counter - 1
    /\ free' = Tail(free)

\* Zero the page just allocated and enter it in a table.
Enter(word, rights) ==
    LET zeroed == [w \in Words |-> IF w \in freelist..freelist + PAGE - 1
                                   THEN Link(NULL) ELSE mem[w]]
    IN  mem' = [zeroed EXCEPT ![word] = [present |-> TRUE,
                                         address |-> freelist \div PAGE,
                                         flags |-> rights,
                                         page_size |-> zeroed[word].page_size]]
-----------------------------------------------------------------------------
(***************************************************************************)
(* vm_map and vm_protect walk from the root, one level per iteration.      *)
(***************************************************************************)
Slot == table + address[level]

Start(f, a, rights) ==
    /\ pc = "idle"
    /\ pc' = f
    /\ table' = CR3
    /\ level' = 4
    /\ address' = a
    /\ flags' = rights
    /\ UNCHANGED <<memory, tlb, ret, loops, scan, lost>>

vm_map(a, rights) == Start("map", a, rights)
vm_protect(a, rights) == Start("protect", a, rights)

\* return result;
Return(result) ==
    /\ pc' = "idle"
    /\ ret' = result
    /\ phase' = "run"
    /\ UNCHANGED <<walk, loops, current, curr, lost>>

\* Mutant: the page number is used as an address, without << 12.
DescendUnshifted ==
    /\ pc \in {"map", "protect"}
    /\ mem[Slot].present
    /\ level > 1
    /\ table' = mem[Slot].address
    /\ level' = level - 1
    /\ UNCHANGED <<memory, tlb, pc, address, flags, ret, loops, scan, lost>>

\* The table of the next level is there: both loops go down to it.
Descend ==
    /\ pc \in {"map", "protect"}
    /\ mem[Slot].present
    /\ level > 1
    /\ table' = Base(mem[Slot])
    /\ level' = level - 1
    /\ UNCHANGED <<memory, tlb, pc, address, flags, ret, loops, scan, lost>>

\* Something is already mapped here: do not rewrite.
MapTaken ==
    /\ pc = "map"
    /\ mem[Slot].present
    /\ level = 1
    /\ Return(FALSE)
    /\ UNCHANGED <<memory, tlb>>

\* Out of memory: the tables added on the way stay.
MapNoMemory ==
    /\ pc = "map"
    /\ ~mem[Slot].present
    /\ freelist = NULL
    /\ Return(FALSE)
    /\ UNCHANGED <<memory, tlb>>

\* Mutant: the new table is given the rights of the page to map.
MapTableNarrow ==
    /\ pc = "map"
    /\ ~mem[Slot].present
    /\ level > 1
    /\ pmem_alloc
    /\ Enter(Slot, flags)
    /\ table' = freelist
    /\ level' = level - 1
    /\ UNCHANGED <<tlb, pc, address, flags, ret, loops, scan, lost>>

\* A table is missing: add an empty one that grants every right.
MapTable ==
    /\ pc = "map"
    /\ ~mem[Slot].present
    /\ level > 1
    /\ pmem_alloc
    /\ Enter(Slot, Flags)
    /\ table' = freelist
    /\ level' = level - 1
    /\ UNCHANGED <<tlb, pc, address, flags, ret, loops, scan, lost>>

MapPage ==
    /\ pc = "map"
    /\ ~mem[Slot].present
    /\ level = 1
    /\ pmem_alloc
    /\ Enter(Slot, flags)
    /\ invalidate_tlb(address)
    /\ Return(TRUE)

ProtectMissing ==
    /\ pc = "protect"
    /\ ~mem[Slot].present
    /\ Return(FALSE)
    /\ UNCHANGED <<memory, tlb>>

\* Mutant: the cached translation is not invalidated.
ProtectPageCached ==
    /\ pc = "protect"
    /\ mem[Slot].present
    /\ level = 1
    /\ mem' = [mem EXCEPT ![Slot].flags = flags]
    /\ Return(TRUE)
    /\ UNCHANGED <<tlb, freelist, free_page_counter, free>>

ProtectPage ==
    /\ pc = "protect"
    /\ mem[Slot].present
    /\ level = 1
    /\ mem' = [mem EXCEPT ![Slot].flags = flags]
    /\ invalidate_tlb(address)
    /\ Return(TRUE)
    /\ UNCHANGED <<freelist, free_page_counter, free>>
-----------------------------------------------------------------------------
(***************************************************************************)
(* unmap_lower_half: free the tables of the lower half, level 1 tables     *)
(* first, but not the pages they map.                                      *)
(***************************************************************************)

\* The bases that the present entries of a set of tables lead to.
Below(m, tables) ==
    {Base(m[w]) : w \in {t + i : t \in tables, i \in Index} \cap {w \in Words : HasTable(m[w])}}

L3Tables(m, indices) == {Base(m[CR3 + i]) : i \in {j \in indices : HasTable(m[CR3 + j])}}
L2Tables(m, indices) == Below(m, L3Tables(m, indices))
L1Tables(m, indices) == Below(m, L2Tables(m, indices))
MappedPages(m, indices) == Below(m, L1Tables(m, indices))

(***************************************************************************)
(* The pages that vm_map gave to the lower half.  What the boot loader     *)
(* maps there is not counted: it maps pages, usable ones and its own       *)
(* tables too, that belong to nobody until mem_init has unmapped them.     *)
(***************************************************************************)
GivenPages(indices) == IF phase = "run" THEN MappedPages(mem, indices) ELSE {}

\* Where the loops are: the entry of each level they look at.
L4Entry == mem[CR3 + l4_index]
L3Word == Base(L4Entry) + l3_index
L2Word == Base(mem[L3Word]) + l2_index

unmap_lower_half ==
    /\ pc = "idle"
    /\ pc' = "l4"
    /\ l4_index' = 0
    /\ UNCHANGED <<memory, tlb, walk, ret, l3_index, l2_index, scan, lost>>

\* Mutant: the level 4 entry stays present.
L4StepPresent ==
    /\ pc = "l4"
    /\ l4_index \in LowerIndex
    /\ IF L4Entry.present
       THEN /\ lost' = lost \cup GivenPages({l4_index})
            /\ l3_index' = 0
            /\ pc' = "l3"
            /\ UNCHANGED l4_index
       ELSE l4_index' = l4_index + 1 /\ UNCHANGED <<lost, l3_index, pc>>
    /\ UNCHANGED <<memory, tlb, walk, ret, l2_index, scan>>

L4Step ==
    /\ pc = "l4"
    /\ l4_index \in LowerIndex
    /\ IF L4Entry.present
       THEN /\ mem' = [mem EXCEPT ![CR3 + l4_index].present = FALSE]
            /\ lost' = lost \cup GivenPages({l4_index})
            /\ l3_index' = 0
            /\ pc' = "l3"
            /\ UNCHANGED l4_index
       ELSE l4_index' = l4_index + 1 /\ UNCHANGED <<mem, lost, l3_index, pc>>
    /\ UNCHANGED <<freelist, free_page_counter, free, tlb, walk, ret, l2_index, scan>>

\* Mutant: the loop does not go past an entry without a table.
L3StepStuck ==
    /\ pc = "l3"
    /\ l3_index \in Index
    /\ IF HasTable(mem[L3Word])
       THEN l2_index' = 0 /\ pc' = "l2"
       ELSE UNCHANGED <<l2_index, pc>>
    /\ UNCHANGED <<memory, tlb, walk, ret, l4_index, l3_index, scan, lost>>

L3Step ==
    /\ pc = "l3"
    /\ l3_index \in Index
    /\ IF HasTable(mem[L3Word])
       THEN l2_index' = 0 /\ pc' = "l2" /\ UNCHANGED l3_index
       ELSE l3_index' = l3_index + 1 /\ UNCHANGED <<l2_index, pc>>
    /\ UNCHANGED <<memory, tlb, walk, ret, l4_index, scan, lost>>

L2Step ==
    /\ pc = "l2"
    /\ l2_index \in Index
    /\ IF HasTable(mem[L2Word]) THEN pmem_free(Base(mem[L2Word])) ELSE UNCHANGED memory
    /\ l2_index' = l2_index + 1
    /\ UNCHANGED <<tlb, pc, walk, ret, l4_index, l3_index, scan, lost>>

\* Mutant: the level 2 table is not freed.
L2DoneLeak ==
    /\ pc = "l2"
    /\ l2_index \notin Index
    /\ l3_index' = l3_index + 1
    /\ pc' = "l3"
    /\ UNCHANGED <<memory, tlb, walk, ret, l4_index, l2_index, scan, lost>>

\* The level 2 table has been gone through: free it and go on in level 3.
L2Done ==
    /\ pc = "l2"
    /\ l2_index \notin Index
    /\ pmem_free(Base(mem[L3Word]))
    /\ l3_index' = l3_index + 1
    /\ pc' = "l3"
    /\ UNCHANGED <<tlb, walk, ret, l4_index, l2_index, scan, lost>>

L3Done ==
    /\ pc = "l3"
    /\ l3_index \notin Index
    /\ pmem_free(Base(L4Entry))
    /\ l4_index' = l4_index + 1
    /\ pc' = "l4"
    /\ UNCHANGED <<tlb, walk, ret, l3_index, l2_index, scan, lost>>

\* Mutant: CR3 is not reloaded.
L4DoneStale ==
    /\ pc = "l4"
    /\ l4_index \notin LowerIndex
    /\ Return(TRUE)
    /\ UNCHANGED <<memory, tlb>>

\* Reloading CR3 flushes the cached translations.
L4Done ==
    /\ pc = "l4"
    /\ l4_index \notin LowerIndex
    /\ tlb' = {}
    /\ Return(TRUE)
    /\ UNCHANGED memory
-----------------------------------------------------------------------------
(***************************************************************************)
(* mem_init: put the usable memory on the freelist, page by page, then     *)
(* unmap the boot loader's lower half.                                     *)
(***************************************************************************)
InUsable == current \in DOMAIN memmap /\ memmap[current].type = USABLE
EndOf(e) == e.base + e.length

\* The lower half's tables, and the memory the kernel manages.
LowerTables(m) ==
    L3Tables(m, LowerIndex) \cup L2Tables(m, LowerIndex) \cup L1Tables(m, LowerIndex)
UsablePages ==
    {p \in Frames : \E e \in ToSet(memmap) :
                       e.type = USABLE /\ p >= e.base /\ p < EndOf(e)}
Managed == UsablePages \cup LowerTables(BootMem)

\* The entries of the lower half that lead to tables.
TableLinks(m) ==
    {CR3 + i : i \in LowerIndex}
        \cup {t + i : t \in L3Tables(m, LowerIndex) \cup L2Tables(m, LowerIndex), i \in Index}

UpperTables(m) ==
    LET upper == Index \ LowerIndex
    IN  L3Tables(m, upper) \cup L2Tables(m, upper) \cup L1Tables(m, upper)

(***************************************************************************)
(* What the boot loader promises.  The usable entries of the memory map    *)
(* are aligned and do not overlap, and page 0 is in none of them.  The     *)
(* tables of the lower half form a tree, in memory that is not usable; the *)
(* processor reserves page_size in a level 4 entry.  The upper half has    *)
(* tables of its own.  Which pages the tables of either half map, and      *)
(* whether by small or by large pages, is left open.                       *)
(***************************************************************************)
ASSUME BootLoaderAssumption ==
    /\ memmap \in Seq([type : Nat, base : Nat, length : Nat])
    /\ \A k \in DOMAIN memmap : memmap[k].type = USABLE =>
          /\ memmap[k].base \in Frames
          /\ \A j \in DOMAIN memmap \ {k} : memmap[j].type = USABLE =>
                EndOf(memmap[j]) <= memmap[k].base \/ EndOf(memmap[k]) <= memmap[j].base
    /\ \A v, w \in TableLinks(BootMem) :
          HasTable(BootMem[v]) /\ HasTable(BootMem[w]) /\ Base(BootMem[v]) = Base(BootMem[w])
             => v = w
    /\ LowerTables(BootMem) \cap (UsablePages \cup {CR3, NULL}) = {}
    /\ CR3 \notin UsablePages
    /\ \A i \in LowerIndex : ~BootMem[CR3 + i].page_size
    /\ UpperTables(BootMem) \cap (Managed \cup {CR3}) = {}

\* pmem_free(curr), which counts the page, and free_page_counter++.
ScanPage ==
    /\ pc = "scan"
    /\ InUsable
    /\ curr < EndOf(memmap[current])
    /\ Push(curr, 2)
    /\ curr' = curr + PAGE
    /\ UNCHANGED <<tlb, pc, walk, ret, loops, current, phase, lost>>

ScanEntry ==
    /\ pc = "scan"
    /\ current \in DOMAIN memmap
    /\ InUsable => curr >= EndOf(memmap[current])
    /\ current' = current + 1
    /\ curr' = IF current' \in DOMAIN memmap THEN memmap[current'].base ELSE curr
    /\ UNCHANGED <<memory, tlb, pc, walk, ret, loops, phase, lost>>

ScanDone ==
    /\ pc = "scan"
    /\ current \notin DOMAIN memmap
    /\ pc' = "l4"
    /\ l4_index' = 0
    /\ UNCHANGED <<memory, tlb, walk, ret, l3_index, l2_index, scan, lost>>
-----------------------------------------------------------------------------
Init ==
    /\ mem = BootMem
    /\ freelist = NULL
    /\ free_page_counter = 0
    /\ tlb = {}
    /\ pc = "scan"
    /\ table = CR3
    /\ level = 4
    /\ address \in UserPages
    /\ flags = {}
    /\ ret = FALSE
    /\ l4_index = 0 /\ l3_index = 0 /\ l2_index = 0
    /\ current = 1
    /\ curr = IF memmap = <<>> THEN 0 ELSE memmap[1].base
    /\ free = <<>>
    /\ lost = {}
    /\ phase = "boot"

KernelStep ==
    \/ Descend \/ MapTaken \/ MapNoMemory \/ MapTable \/ MapPage
    \/ ProtectMissing \/ ProtectPage
    \/ L4Step \/ L3Step \/ L2Step \/ L2Done \/ L3Done \/ L4Done
    \/ ScanPage \/ ScanEntry \/ ScanDone

Next ==
    \/ \E a \in UserPages, rights \in Protections : vm_map(a, rights)
    \/ \E a \in UserPages, rights \in Protections : vm_protect(a, rights)
    \/ unmap_lower_half
    \/ KernelStep
    \/ \E a \in Touched : Touch(a)

Spec == Init /\ [][Next]_vars

(***************************************************************************)
(* The processor keeps executing the loop it is in; nobody has to call.    *)
(***************************************************************************)
FairSpec == Spec /\ WF_vars(KernelStep)
-----------------------------------------------------------------------------
(***************************************************************************)
(* Properties.                                                             *)
(***************************************************************************)

\* Every variable keeps its type; table and link addresses stay in memory.
TypeOK ==
    /\ mem \in [Words -> Entry]
    /\ freelist \in Frames \cup {NULL}
    /\ free_page_counter \in Int
    /\ tlb \subseteq [page : UserPages \cup KernelPages, base : Frames \cup {0},
                       access : SUBSET ({"read"} \cup Flags)]
    /\ pc \in {"idle", "scan", "map", "protect", "l4", "l3", "l2"}
    /\ table \in Frames
    /\ level \in 1..4
    /\ address \in UserPages
    /\ flags \in SUBSET Flags
    /\ ret \in BOOLEAN
    /\ l4_index \in LowerIndex \cup {PAGE \div 2}
    /\ {l3_index, l2_index} \subseteq 0..PAGE
    /\ current \in 1..Len(memmap) + 1
    /\ curr \in Nat
    /\ free \in Seq(Frames)
    /\ lost \subseteq Frames \cup {0}
    /\ phase \in {"boot", "run"}

(***************************************************************************)
(* The freelist is a list: it ends, visits no page twice, and its links,   *)
(* kept in the free pages themselves, are not overwritten.                 *)
(***************************************************************************)
FreelistIntact ==
    /\ freelist = IF free = <<>> THEN NULL ELSE free[1]
    /\ \A k \in DOMAIN free :
          /\ Base(mem[free[k]]) = IF k = Len(free) THEN NULL ELSE free[k + 1]
          /\ \A j \in DOMAIN free : free[j] = free[k] => j = k

(***************************************************************************)
(* The page tables of both halves, and the pages that vm_map has mapped.   *)
(* What the upper half maps is not in it: the higher half map reaches all  *)
(* of physical memory, free pages too, which is how the kernel writes the  *)
(* links of the freelist.                                                  *)
(***************************************************************************)
InUse ==
    {CR3} \cup L3Tables(mem, Index) \cup L2Tables(mem, Index)
          \cup L1Tables(mem, Index) \cup GivenPages(LowerIndex)

\* The tables that the loop under way is reading.
InHand ==
    CASE pc \in {"map", "protect"} -> {table}
      [] pc = "l3" -> {Base(L4Entry)}
      [] pc = "l2" -> {Base(L4Entry), Base(mem[L3Word])}
      [] OTHER -> {}

(***************************************************************************)
(* No free page is a page table of the processor's, a page that a program  *)
(* has mapped in the lower half, or the table that a loop is reading.      *)
(***************************************************************************)
FreeNotInUse == ToSet(free) \cap (InUse \cup InHand) = {}

(***************************************************************************)
(* Between calls every managed page is exactly one of: free, a table of    *)
(* the lower half, mapped in it, or a page whose tables were unmapped ("We *)
(* can reclaim memory used to hold page tables, but NOT the mapped         *)
(* pages").  A vm_map that runs out of memory half way leaks nothing.      *)
(***************************************************************************)
Partition ==
    pc = "idle" =>
        LET parts == <<ToSet(free), LowerTables(mem), MappedPages(mem, LowerIndex),
                       lost \cap Managed>>
        IN  /\ UNION ToSet(parts) = Managed
            /\ \A i, j \in DOMAIN parts : i # j => parts[i] \cap parts[j] = {}

\* The entries that make a managed page a table, or a page that vm_map has mapped.
ManagedLinks ==
    LET linking == IF phase = "run" THEN LowerTables(mem)
                   ELSE L3Tables(mem, LowerIndex) \cup L2Tables(mem, LowerIndex)
    IN  {t + i : t \in {CR3} \cup linking, i \in Index}
            \cap {w \in Words : HasTable(mem[w]) /\ Base(mem[w]) \in Managed}

\* vm_map maps no page twice, and no table is shared: page tables are a tree.
NoAliasing ==
    \A v, w \in ManagedLinks : Base(mem[v]) = Base(mem[w]) => v = w

(***************************************************************************)
(* Outside unmap_lower_half the processor's cached translations are those  *)
(* of the page tables.                                                     *)
(***************************************************************************)
TlbCoherent ==
    pc \notin {"l4", "l3", "l2"} => \A t \in tlb : t = Translation(t.page)

(***************************************************************************)
(* translate, which knows nothing of large pages, prints the address that  *)
(* the processor uses, for every page of the lower half.                   *)
(***************************************************************************)
TranslateAgrees ==
    pc = "idle" =>
        \A a \in UserPages :
            translate(a) = IF Access(a) = {} THEN NULL ELSE Translation(a).base

\* What callers see of it: what can be done with a page, and the call under way.
Space == [a \in UserPages \cup KernelPages |-> Access(a)]
Operation ==
    CASE pc = "idle" -> "none"
      [] pc = "map" -> "vm_map"
      [] pc = "protect" -> "vm_protect"
      [] OTHER -> "unmap_lower_half"

AS == INSTANCE AddressSpace WITH
        Addresses <- UserPages \cup KernelPages, Lower <- UserPages,
        space <- Space, op <- Operation, arg <- address, want <- flags

(***************************************************************************)
(* The loops over page tables implement AddressSpace.tla: what a call      *)
(* changes for the processor is what its comment says.                     *)
(***************************************************************************)
ImplementsAddressSpace == AS!Spec

\* Every call returns: the loops end, whatever the tables hold.
CallsReturn == pc # "idle" ~> pc = "idle"
=============================================================================
