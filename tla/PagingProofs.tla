---------------------------- MODULE PagingProofs ----------------------------
(***************************************************************************)
(* Proofs about Paging.tla, for every page size, memory map and set of     *)
(* addresses: the types, the freelist, its counter, and who owns a page;   *)
(* the translations that the processor finds and caches; and the address   *)
(* space that the loops implement.  They rest on PagesOwned, the inductive *)
(* invariant of PageTreeProofs, and on Translated, stated below.           *)
(***************************************************************************)
EXTENDS PageTreeProofs

(***************************************************************************)
(* The invariant holds at first, and every step preserves it.              *)
(***************************************************************************)

\* mem_init starts with an empty freelist and the boot loader's tables.
LEMMA InitOwned == Init => PagesOwned
<1> SUFFICES ASSUME Init PROVE PagesOwned
  OBVIOUS
<1>0. BootMem \in [Words -> Entry] /\ CR3 \in Frames /\ PAGE \in Nat /\ PAGE >= 2
  BY PagingAssumption
<1>1. free = <<>> /\ Len(free) = 0 /\ free \in Seq(Frames) /\ DOMAIN free = {}
  BY DEF Init
<1>2. current \in 1..Len(memmap) + 1
  BY MapEntries DEF Init
<1>3. curr \in Nat
  <2>1. CASE memmap = <<>>
    BY <2>1 DEF Init
  <2>2. CASE memmap # <<>>
    <3>1. memmap \in Seq([type : Nat, base : Nat, length : Nat])
      BY BootLoaderAssumption
    <3>2. Len(memmap) > 0
      BY <2>2, <3>1
    <3>3. 1 \in DOMAIN memmap
      BY <3>2, MapEntries
    <3> QED BY <2>2, <3>3, MapEntries DEF Init
  <2> QED BY <2>1, <2>2
<1>4. TypeOK
  <2>1. /\ mem \in [Words -> Entry] /\ freelist \in Frames \cup {NULL} /\ free_page_counter \in Int
        /\ table \in Frames /\ level \in 1..4
    BY <1>0 DEF Init
  <2>2. /\ tlb = {} /\ lost = {} /\ phase = "boot" /\ address \in UserPages /\ flags = {} /\ ret \in BOOLEAN
        /\ pc \in {"idle", "scan", "map", "protect", "l4", "l3", "l2"}
    BY DEF Init
  <2>3. l4_index \in LowerIndex /\ {l3_index, l2_index} \subseteq 0..PAGE
    BY <1>0, Indices DEF Init
  <2> QED BY <1>1, <1>2, <1>3, <2>1, <2>2, <2>3 DEF TypeOK
<1>5. FreelistIntact
  BY <1>1 DEF Init, FreelistIntact
<1>6. Counted
  BY <1>1 DEF Init, Counted
<1> QED BY <1>4, <1>5, <1>6, InitTree DEF PagesOwned

\* A step that leaves memory alone leaves the freelist and its counter alone.
LEMMA SameFreelist ==
  ASSUME PagesOwned, UNCHANGED memory, pc = "scan" <=> pc' = "scan"
  PROVE  FreelistIntact' /\ Counted'
<1>1. UNCHANGED <<mem, freelist, free_page_counter, free>>
  BY DEF memory
<1> QED BY <1>1 DEF PagesOwned, FreelistIntact, Counted

\* A call of vm_map or vm_protect starts at the root.
LEMMA StartOwned ==
  ASSUME PagesOwned, NEW f \in {"map", "protect"}, NEW a \in UserPages,
         NEW rights \in SUBSET Flags, Start(f, a, rights)
  PROVE  PagesOwned'
<1>1. PICK role, dad, idx : Tree(role, dad, idx)
  BY DEF PagesOwned
<1>2. TypeOK'
  BY PagingAssumption DEF PagesOwned, TypeOK, Start, memory, loops, scan
<1>3. FreelistIntact' /\ Counted'
  BY SameFreelist DEF Start
<1>4. role[CR3] = 4
  BY <1>1, RootPage DEF Tree, Owners, ROOT
<1>5. UNCHANGED <<free, lost, mem, phase>> /\ table' = CR3 /\ level' = 4 /\ pc = "idle" /\ pc' = f
  BY DEF Start, memory, scan
<1>6. Untouched(role)' /\ Walking(role)'
  BY <1>1, <1>4, <1>5 DEF Tree, Untouched, Walking
<1>7. Tree(role, dad, idx)'
  BY <1>1, <1>5, <1>6, QuietTree
<1> QED BY <1>2, <1>3, <1>7 DEF PagesOwned

\* unmap_lower_half is called.
LEMMA UnmapOwned ==
  ASSUME PagesOwned, unmap_lower_half
  PROVE  PagesOwned'
<1>1. PICK role, dad, idx : Tree(role, dad, idx)
  BY DEF PagesOwned
<1>2. TypeOK'
  BY Indices DEF PagesOwned, TypeOK, unmap_lower_half, memory, walk, scan
<1>3. FreelistIntact' /\ Counted'
  BY SameFreelist DEF unmap_lower_half
<1>4. Tree(role, dad, idx)'
  BY <1>1, UnmapStartsTree DEF PagesOwned
<1> QED BY <1>2, <1>3, <1>4 DEF PagesOwned

\* The entries of a walk, and what they translate to.
LEMMA WalkTypes ==
  ASSUME NEW m \in [Words -> Entry], mem = m, NEW a \in UserPages \cup KernelPages
  PROVE  /\ a \in [1..4 -> Index]
         /\ E4(a) \in Entry /\ E3(a) \in Entry /\ E2(a) \in Entry /\ E1(a) \in Entry
         /\ Base(E4(a)) \in Pages /\ Base(E3(a)) \in Pages /\ Base(E2(a)) \in Pages
         /\ Base(E1(a)) \in Pages
<1>1. a \in [1..4 -> Index]
  BY PagingAssumption
<1>2. a[1] \in Index /\ a[2] \in Index /\ a[3] \in Index /\ a[4] \in Index
  BY <1>1
<1>3. E4(a) \in Entry /\ Base(E4(a)) \in Pages
  BY <1>2, RootPage, EntryWord, Bases DEF E4
<1>4. E3(a) \in Entry /\ Base(E3(a)) \in Pages
  BY <1>2, <1>3, EntryWord, Bases DEF E3
<1>5. E2(a) \in Entry /\ Base(E2(a)) \in Pages
  BY <1>2, <1>4, EntryWord, Bases DEF E2
<1>6. E1(a) \in Entry /\ Base(E1(a)) \in Pages
  BY <1>2, <1>5, EntryWord, Bases DEF E1
<1> QED BY <1>1, <1>3, <1>4, <1>5, <1>6

\* A translation leads to a page.
LEMMA TranslationType ==
  ASSUME TypeOK, NEW a \in UserPages \cup KernelPages
  PROVE  Translation(a) \in [page : UserPages \cup KernelPages, base : Frames \cup {0},
                             access : SUBSET ({"read"} \cup Flags)]
<1>0. mem \in [Words -> Entry]
  BY DEF TypeOK
<1>1. /\ Base(E4(a)) \in Pages /\ Base(E3(a)) \in Pages /\ Base(E2(a)) \in Pages
      /\ Base(E1(a)) \in Pages
  BY <1>0, WalkTypes
<1>2. Last(Path(a)) \in {E4(a), E3(a), E2(a), E1(a)}
  <2>1. \A e, f, g, h : /\ Last(<<e>>) = e /\ Last(<<e, f>>) = f
                        /\ Last(<<e, f, g>>) = g /\ Last(<<e, f, g, h>>) = h
    BY DEF Last
  <2> QED BY <2>1 DEF Path
<1>3. Base(Last(Path(a))) \in Frames \cup {0}
  BY <1>1, <1>2 DEF Pages, NULL
<1>4. Access(a) \in SUBSET ({"read"} \cup Flags)
  BY DEF Access
<1> QED BY <1>3, <1>4 DEF Translation

\* Only the processor's cache changes.
LEMMA CacheOwned ==
  ASSUME PagesOwned, UNCHANGED <<memory, pc, walk, ret, loops, scan, lost>>,
         tlb' \subseteq [page : UserPages \cup KernelPages, base : Frames \cup {0},
                         access : SUBSET ({"read"} \cup Flags)]
  PROVE  PagesOwned'
<1>1. /\ UNCHANGED <<mem, freelist, free_page_counter, free, pc, ret, lost>>
      /\ UNCHANGED <<table, level, address, flags, l4_index, l3_index, l2_index, current, curr,
                    phase>>
  BY DEF memory, walk, loops, scan
<1>2. TypeOK' /\ FreelistIntact' /\ Counted'
  BY <1>1 DEF PagesOwned, TypeOK, FreelistIntact, Counted
<1>3. PICK role, dad, idx : Tree(role, dad, idx)
  BY DEF PagesOwned
<1>4. /\ GhostTypes(role, dad, idx)' /\ Owners(role)'
      /\ Down(role, dad, idx)' /\ Up(role, dad, idx)'
  BY <1>1, <1>3, SameTree
<1>5. DoomedDown(role, dad, idx)' /\ DoomedUp(role, dad, idx)'
  BY <1>1, <1>3 DEF Tree, DoomedDown, DoomedUp, Child, Parent, Cur2, Cur3
<1>6. Clearing(role, idx)' /\ Scanned(role)'
  BY <1>1, <1>3 DEF Tree, Clearing, Scanned, IsAhead, InUsable, Cur3, L4Entry
<1>7. Untouched(role)' /\ SmallPages(role)' /\ Walking(role)'
  BY <1>1, <1>3 DEF Tree, Untouched, SmallPages, Walking
<1>8. Tree(role, dad, idx)'
  BY <1>4, <1>5, <1>6, <1>7 DEF Tree
<1> QED BY <1>2, <1>8 DEF PagesOwned

\* A page is used between calls.
LEMMA TouchOwned ==
  ASSUME PagesOwned, NEW a \in Touched, Touch(a)
  PROVE  PagesOwned'
<1>1. a \in UserPages \cup KernelPages
  BY PagingAssumption
<1>2. Translation(a) \in [page : UserPages \cup KernelPages, base : Frames \cup {0},
                          access : SUBSET ({"read"} \cup Flags)]
  BY <1>1, TranslationType DEF PagesOwned
<1>3. tlb' \subseteq [page : UserPages \cup KernelPages, base : Frames \cup {0},
                      access : SUBSET ({"read"} \cup Flags)]
  BY <1>2 DEF Touch, PagesOwned, TypeOK
<1> QED BY <1>3, CacheOwned DEF Touch

\* The word a walk looks at is an entry of the table it has reached.
LEMMA SlotFacts ==
  ASSUME TypeOK, NEW role, NEW dad, NEW idx, Tree(role, dad, idx), pc \in {"map", "protect"}
  PROVE  /\ table \in Pages /\ role[table] = level /\ level \in 1..4
         /\ address[level] \in Index /\ (level = 4 => address[4] \in LowerIndex)
         /\ Slot = table + address[level] /\ mem[Slot] \in Entry
<1>1. table \in Pages /\ role[table] = level /\ level \in 1..4 /\ address \in UserPages
  BY DEF TypeOK, Tree, Walking, Pages
<1>2. address \in [1..4 -> Index] /\ address[4] \in LowerIndex
  BY <1>1, PagingAssumption
<1>3. address[level] \in Index
  BY <1>1, <1>2
<1> QED BY <1>1, <1>2, <1>3, EntryWord DEF Slot, TypeOK

\* Where a present entry leads: to a table of the next level.
LEMMA DescendFacts ==
  ASSUME TypeOK, NEW role, NEW dad, NEW idx, Tree(role, dad, idx), pc \in {"map", "protect"},
         mem[Slot].present, level > 1
  PROVE  Base(mem[Slot]) \in Frames /\ role[Base(mem[Slot])] = level - 1
<1>1. /\ table \in Pages /\ role[table] = level /\ level \in 1..4
      /\ address[level] \in Index /\ (level = 4 => address[4] \in LowerIndex)
      /\ Slot = table + address[level]
  BY SlotFacts
<1>2. ~mem[Slot].page_size
  <2>1. CASE level = 4
    <3>1. table = CR3
      BY <1>1, <2>1 DEF Tree, Owners, ROOT
    <3> QED BY <1>1, <2>1, <3>1 DEF Tree, SmallPages
  <2>2. CASE level # 4
    BY <1>1, <2>2 DEF Tree, SmallPages
  <2> QED BY <2>1, <2>2
<1>3. Has(mem, table, address[level]) /\ Goes(mem, table, address[level]) = Base(mem[Slot])
  BY <1>1, <1>2 DEF Has, Goes, HasTable
<1>4. address[level] \in Entries(role, table)
  BY <1>1 DEF Entries, ROOT
<1>5. Child(role, dad, idx, table, address[level])
  BY <1>1, <1>3, <1>4 DEF Tree, Down
<1>6. role[Base(mem[Slot])] = level - 1
  BY <1>1, <1>3, <1>5 DEF Child
<1>7. Base(mem[Slot]) \in Pages
  BY <1>1, <1>3, GoesToPage DEF TypeOK
<1>8. role[Base(mem[Slot])] # NONE
  BY <1>1, <1>6 DEF NONE
<1> QED BY <1>6, <1>7, <1>8, RoleFrame DEF Tree

\* Both loops go down to a table of the next level.
LEMMA DescendOwned ==
  ASSUME PagesOwned, Descend
  PROVE  PagesOwned'
<1>1. PICK role, dad, idx : Tree(role, dad, idx)
  BY DEF PagesOwned
<1>2. /\ UNCHANGED <<memory, tlb, pc, address, flags, ret, loops, scan, lost>>
      /\ pc \in {"map", "protect"} /\ mem[Slot].present /\ level > 1
      /\ table' = Base(mem[Slot]) /\ level' = level - 1
  BY DEF Descend
<1>3. Base(mem[Slot]) \in Frames /\ role[Base(mem[Slot])] = level - 1
  BY <1>1, <1>2, DescendFacts DEF PagesOwned
<1>4. level' \in 1..4
  BY <1>2 DEF PagesOwned, TypeOK
<1>5. TypeOK'
  BY <1>2, <1>3, <1>4 DEF PagesOwned, TypeOK, memory, loops, scan
<1>6. FreelistIntact' /\ Counted'
  BY <1>2, SameFreelist
<1>8. UNCHANGED <<mem, free, lost, phase>>
  BY <1>2 DEF memory, scan
<1>7. Untouched(role)' /\ Walking(role)'
  BY <1>1, <1>2, <1>3, <1>8 DEF Tree, Untouched, Walking
<1>9. Tree(role, dad, idx)'
  BY <1>1, <1>2, <1>7, <1>8, QuietTree
<1> QED BY <1>5, <1>6, <1>9 DEF PagesOwned

\* A call returns and has changed nothing in its last step.
LEMMA ReturnOwned ==
  ASSUME PagesOwned, pc \in {"map", "protect"}, NEW result \in BOOLEAN, Return(result),
         UNCHANGED <<memory, tlb>>
  PROVE  PagesOwned'
<1>1. PICK role, dad, idx : Tree(role, dad, idx)
  BY DEF PagesOwned
<1>2. TypeOK'
  BY DEF PagesOwned, TypeOK, Return, memory, walk, loops, scan
<1>3. FreelistIntact' /\ Counted'
  BY SameFreelist DEF Return
<1>4. UNCHANGED <<free, lost, mem, phase>> /\ pc' = "idle"
  BY <1>1 DEF Return, memory, Tree, Walking
<1>5. Untouched(role)' /\ Walking(role)'
  BY <1>1, <1>4 DEF Tree, Untouched, Walking
<1>6. Tree(role, dad, idx)'
  BY <1>1, <1>4, <1>5, QuietTree
<1> QED BY <1>2, <1>3, <1>6 DEF PagesOwned

\* Memory is finite, and so is the part of it that is usable.
LEMMA UsableFinite ==
  IsFiniteSet(UsablePages) /\ Cardinality(UsablePages) \in Nat
<1>1. FRAMES * PAGE - 1 \in Int
  BY PagingAssumption
<1>2. IsFiniteSet(Words)
  BY <1>1, FS_Interval DEF Words
<1>3. IsFiniteSet(UsablePages)
  <2>1. UsablePages \subseteq Words
    BY EntryWord, Indices DEF UsablePages, Pages
  <2> QED BY <1>2, <2>1, FS_Subset
<1> QED BY <1>3, FS_CardinalityType

\* The links of the freelist are in free pages: what else changes does not matter.
LEMMA FreeWords ==
  ASSUME TypeOK, NEW role, Owners(role),
         \A s \in Pages, j \in Index : role[s] = FREE /\ s \in ToSet(free') => mem'[s + j] = mem[s + j],
         \A q \in ToSet(free') : q \in ToSet(free)
  PROVE  \A q \in ToSet(free') : mem'[q] = mem[q]
<1> SUFFICES ASSUME NEW q \in ToSet(free') PROVE mem'[q] = mem[q]
  OBVIOUS
<1>1. q \in Frames
  BY InSet, ElementOfSeq DEF TypeOK
<1>2. q \in Pages /\ role[q] = FREE
  BY <1>1 DEF Owners, Pages
<1>3. q + 0 = q
  BY <1>2, PageNumber
<1>4. 0 \in Index
  BY Indices
<1>5. mem'[q + 0] = mem[q + 0]
  BY <1>2, <1>4
<1> QED BY <1>3, <1>5

\* A freelist whose links are not written is intact.
LEMMA LinksIntact ==
  ASSUME TypeOK, FreelistIntact, UNCHANGED <<freelist, free>>,
         \A q \in ToSet(free) : mem'[q] = mem[q]
  PROVE  FreelistIntact'
<1>1. free \in Seq(Frames) /\ DOMAIN free = 1..Len(free)
  BY DEF TypeOK
<1>2. \A k \in DOMAIN free : mem'[free[k]] = mem[free[k]]
  BY <1>1, InSet
<1> QED BY <1>2 DEF FreelistIntact

\* vm_map enters the page it was given: the freelist and its counter follow.
LEMMA EnterFreelist ==
  ASSUME PagesOwned, pc = "map", pc' # "scan", pmem_alloc,
         NEW rights \in SUBSET Flags, Enter(Slot, rights)
  PROVE  /\ mem' \in [Words -> Entry] /\ freelist \in Frames /\ freelist' \in Frames \cup {NULL}
         /\ free_page_counter' \in Int /\ free' \in Seq(Frames)
         /\ FreelistIntact' /\ Counted'
<1>0. TypeOK /\ FreelistIntact /\ Counted
  BY DEF PagesOwned
<1>1. PICK role, dad, idx : Tree(role, dad, idx)
  BY DEF PagesOwned
<1>2. /\ freelist \in Frames /\ freelist \in ToSet(free)
      /\ freelist' \in Pages /\ free' \in Seq(Frames) /\ Len(free') = Len(free) - 1
      /\ \A q : q \in ToSet(free') <=> q # freelist /\ q \in ToSet(free)
      /\ free_page_counter' = free_page_counter - 1
      /\ free_page_counter' \in Int
  BY <1>0, AllocFacts
<1>3. PICK t : t = table
  OBVIOUS
<1>4. PICK i : i = address[level]
  OBVIOUS
<1>5. t \in Pages /\ role[t] \in 1..4 /\ i \in Index /\ Slot = t + i
  BY <1>0, <1>1, <1>3, <1>4, SlotFacts
<1>6. freelist \in Pages /\ role[freelist] = FREE
  BY <1>1, <1>2 DEF Tree, Owners, Pages
<1>7. t # freelist
  BY <1>5, <1>6 DEF FREE
<1>8. /\ mem' \in [Words -> Entry]
      /\ \A s \in Pages, j \in Index :
            s # freelist /\ ~(s = t /\ j = i) => mem'[s + j] = mem[s + j]
  BY <1>0, <1>5, <1>6, <1>7, EnterFacts
<1>9. \A s \in Pages, j \in Index : role[s] = FREE /\ s \in ToSet(free') => mem'[s + j] = mem[s + j]
  BY <1>2, <1>5, <1>8 DEF FREE
<1>10. \A q \in ToSet(free') : mem'[q] = mem[q]
  <2>1. Owners(role)
    BY <1>1 DEF Tree
  <2>2. \A q \in ToSet(free') : q \in ToSet(free)
    BY <1>2
  <2> QED BY <1>0, <1>9, <2>1, <2>2, FreeWords
<1>11. FreelistIntact'
  BY <1>0, <1>10, AllocIntact
<1>12. Counted'
  <2>1. Len(free) \in Int /\ free_page_counter \in Int
    BY <1>0 DEF TypeOK
  <2>2. free_page_counter = Len(free) + Cardinality(UsablePages)
    BY <1>0 DEF Counted
  <2>3. Cardinality(UsablePages) \in Int
    BY UsableFinite
  <2>4. free_page_counter' = Len(free') + Cardinality(UsablePages)
    BY <1>2, <2>1, <2>2, <2>3
  <2> QED BY <2>4 DEF Counted
<1> QED BY <1>2, <1>8, <1>11, <1>12 DEF Pages

\* vm_map adds a table on its way.
LEMMA MapTableOwned ==
  ASSUME PagesOwned, MapTable
  PROVE  PagesOwned'
<1>0. TypeOK /\ FreelistIntact
  BY DEF PagesOwned
<1>1. PICK role, dad, idx : Tree(role, dad, idx)
  BY DEF PagesOwned
<1>2. /\ UNCHANGED <<tlb, pc, address, flags, ret, loops, scan, lost>>
      /\ pc = "map" /\ ~mem[Slot].present /\ level > 1
      /\ pmem_alloc /\ Enter(Slot, Flags)
      /\ table' = freelist /\ level' = level - 1
  BY DEF MapTable
<1>3. Flags \in SUBSET Flags
  OBVIOUS
<1>4. /\ mem' \in [Words -> Entry] /\ freelist \in Frames /\ freelist' \in Frames \cup {NULL}
      /\ free_page_counter' \in Int /\ free' \in Seq(Frames)
      /\ FreelistIntact' /\ Counted'
  BY <1>2, <1>3, EnterFreelist
<1>5. level' \in 1..4
  BY <1>0, <1>2 DEF TypeOK
<1>6. TypeOK'
  BY <1>0, <1>2, <1>4, <1>5 DEF TypeOK, loops, scan
<1>7. \E r, d, x : Tree(r, d, x)'
  <2>1. pc' \in {"map", "idle"} /\ lost' = lost /\ phase' = phase
    BY <1>2 DEF scan
  <2> QED BY <1>0, <1>1, <1>2, <1>3, <2>1, EnterTree
<1> QED BY <1>4, <1>6, <1>7 DEF PagesOwned

\* vm_map enters the page in the last table.
LEMMA MapPageOwned ==
  ASSUME PagesOwned, MapPage
  PROVE  PagesOwned'
<1>0. TypeOK /\ FreelistIntact
  BY DEF PagesOwned
<1>1. PICK role, dad, idx : Tree(role, dad, idx)
  BY DEF PagesOwned
<1>2. /\ UNCHANGED <<walk, loops, scan, lost>> /\ ret' = TRUE /\ pc' = "idle"
      /\ pc = "map" /\ ~mem[Slot].present
      /\ pmem_alloc /\ Enter(Slot, flags) /\ tlb' \subseteq tlb
  BY <1>1 DEF MapPage, Return, invalidate_tlb, scan, Tree, Walking
<1>3. flags \in SUBSET Flags
  BY <1>0 DEF TypeOK
<1>4. /\ mem' \in [Words -> Entry] /\ freelist' \in Frames \cup {NULL}
      /\ free_page_counter' \in Int /\ free' \in Seq(Frames)
      /\ FreelistIntact' /\ Counted'
  BY <1>2, <1>3, EnterFreelist
<1>5. TypeOK'
  BY <1>0, <1>2, <1>4 DEF TypeOK, walk, loops, scan
<1>6. \E r, d, x : Tree(r, d, x)'
  <2>1. pc' \in {"map", "idle"} /\ lost' = lost /\ pc' # "map" /\ phase' = phase
    BY <1>2 DEF scan
  <2> QED BY <1>0, <1>1, <1>2, <1>3, <2>1, EnterTree
<1> QED BY <1>4, <1>5, <1>6 DEF PagesOwned

\* Changing the rights of an entry changes nothing else.
LEMMA RightsFacts ==
  ASSUME TypeOK, NEW t \in Pages, NEW i \in Index, NEW rights \in SUBSET Flags,
         mem' = [mem EXCEPT ![t + i].flags = rights]
  PROVE  /\ mem' \in [Words -> Entry]
         /\ \A s \in Pages, j \in Index : ~(s = t /\ j = i) => mem'[s + j] = mem[s + j]
         /\ mem'[t + i].flags = rights /\ mem'[t + i].address = mem[t + i].address
         /\ mem'[t + i].present = mem[t + i].present
         /\ mem'[t + i].page_size = mem[t + i].page_size
<1> DEFINE w == t + i
           e == [mem[w] EXCEPT !.flags = rights]
<1>0. mem \in [Words -> Entry]
  BY DEF TypeOK
<1>1. w \in Words
  BY EntryWord
<1>2. mem[w] \in Entry
  BY <1>0, <1>1
<1>3. /\ e \in Entry /\ e.flags = rights /\ e.address = mem[w].address
      /\ e.present = mem[w].present /\ e.page_size = mem[w].page_size
  BY <1>2 DEF Entry
<1>4. mem' = [mem EXCEPT ![w] = e]
  OBVIOUS
<1> HIDE DEF e
<1>5. mem' \in [Words -> Entry] /\ mem'[w] = e /\ \A v \in Words : v # w => mem'[v] = mem[v]
  BY <1>0, <1>1, <1>3, <1>4
<1>6. ASSUME NEW s \in Pages, NEW j \in Index, ~(s = t /\ j = i)
      PROVE  s + j # w /\ s + j \in Words
  BY <1>6, WordUnique, EntryWord
<1> QED BY <1>3, <1>5, <1>6

\* vm_protect changes the rights of a page.
LEMMA ProtectOwned ==
  ASSUME PagesOwned, ProtectPage
  PROVE  PagesOwned'
<1>0. TypeOK /\ FreelistIntact /\ Counted
  BY DEF PagesOwned
<1>1. PICK role, dad, idx : Tree(role, dad, idx)
  BY DEF PagesOwned
<1>2. /\ UNCHANGED <<walk, loops, scan, lost, freelist, free_page_counter, free>>
      /\ ret' = TRUE /\ pc' = "idle"
      /\ pc = "protect" /\ level = 1 /\ mem' = [mem EXCEPT ![Slot].flags = flags]
      /\ tlb' \subseteq tlb
  BY <1>1 DEF ProtectPage, Return, invalidate_tlb, scan, Tree, Walking
<1>3. flags \in SUBSET Flags
  BY <1>0 DEF TypeOK
<1>4. PICK t : t = table
  OBVIOUS
<1>5. PICK i : i = address[level]
  OBVIOUS
<1>6. t \in Pages /\ role[t] = 1 /\ i \in Index /\ Slot = t + i
  BY <1>0, <1>1, <1>2, <1>4, <1>5, SlotFacts
<1>7. /\ mem' \in [Words -> Entry]
      /\ \A s \in Pages, j \in Index : ~(s = t /\ j = i) => mem'[s + j] = mem[s + j]
      /\ mem'[t + i].address = mem[t + i].address
      /\ mem'[t + i].present = mem[t + i].present
      /\ mem'[t + i].page_size = mem[t + i].page_size
  <2>1. mem' = [mem EXCEPT ![t + i].flags = flags]
    BY <1>2, <1>6
  <2> QED BY <2>1, <1>0, <1>3, <1>6, RightsFacts
<1>8. TypeOK'
  BY <1>0, <1>2, <1>7 DEF TypeOK, walk, loops, scan
<1>9. FreelistIntact'
  <2>1. \A s \in Pages, j \in Index : role[s] = FREE /\ s \in ToSet(free') => mem'[s + j] = mem[s + j]
    BY <1>6, <1>7 DEF FREE
  <2>2. Owners(role) /\ free' = free
    BY <1>1, <1>2 DEF Tree
  <2>3. \A q \in ToSet(free') : mem'[q] = mem[q]
    BY <1>0, <2>1, <2>2, FreeWords
  <2> QED BY <1>0, <1>2, <2>2, <2>3, LinksIntact
<1>10. Counted'
  BY <1>0, <1>2 DEF Counted
<1>11. \A p \in Pages, j \in Index :
            /\ Has(mem', p, j) <=> Has(mem, p, j)
            /\ Goes(mem', p, j) = Goes(mem, p, j)
            /\ mem'[p + j].present <=> mem[p + j].present
            /\ mem'[p + j].page_size <=> mem[p + j].page_size
  BY <1>7 DEF Has, Goes, HasTable, Base
<1>12. Untouched(role)' /\ Walking(role)' /\ phase' = phase
  BY <1>1, <1>2, <1>6, <1>7 DEF Tree, Untouched, Walking, NONE, ROOT, scan
<1>13. Tree(role, dad, idx)'
  BY <1>1, <1>2, <1>11, <1>12, QuietTree
<1> QED BY <1>8, <1>9, <1>10, <1>13 DEF PagesOwned

\* A page that is put on the freelist is counted.
LEMMA PushOwned ==
  ASSUME PagesOwned, NEW p \in Frames, p \notin ToSet(free), NEW count \in Int, Push(p, count),
         \/ pc = "scan" /\ pc' = "scan" /\ count = 2
         \/ pc # "scan" /\ pc' # "scan" /\ count = 1
  PROVE  /\ mem' \in [Words -> Entry] /\ freelist' \in Frames
         /\ free_page_counter' \in Int /\ free' \in Seq(Frames)
         /\ FreelistIntact' /\ Counted'
<1>0. TypeOK /\ FreelistIntact /\ Counted
  BY DEF PagesOwned
<1>1. /\ mem' \in [Words -> Entry] /\ freelist' \in Frames
      /\ free' \in Seq(Frames) /\ Len(free') = Len(free) + 1
      /\ free_page_counter' = free_page_counter + count /\ free_page_counter' \in Int
  BY <1>0, PushFacts
<1>2. FreelistIntact'
  BY <1>0, PushIntact
<1>3. Len(free) \in Int /\ free_page_counter \in Int /\ Cardinality(UsablePages) \in Int
  BY <1>0, UsableFinite DEF TypeOK
<1>4. CASE pc = "scan" /\ pc' = "scan" /\ count = 2
  <2>1. free_page_counter = Len(free) + Len(free)
    BY <1>0, <1>4 DEF Counted
  <2>2. free_page_counter' = Len(free') + Len(free')
    BY <2>1, <1>1, <1>3, <1>4
  <2> QED BY <2>2, <1>1, <1>2, <1>4 DEF Counted
<1>5. CASE pc # "scan" /\ pc' # "scan" /\ count = 1
  <2>1. free_page_counter = Len(free) + Cardinality(UsablePages)
    BY <1>0, <1>5 DEF Counted
  <2>2. free_page_counter' = Len(free') + Cardinality(UsablePages)
    BY <2>1, <1>1, <1>3, <1>5
  <2> QED BY <2>2, <1>1, <1>2, <1>5 DEF Counted
<1> QED BY <1>4, <1>5

\* The level 4 loop.
LEMMA L4StepOwned ==
  ASSUME PagesOwned, L4Step
  PROVE  PagesOwned'
<1>0. TypeOK /\ FreelistIntact /\ Counted
  BY DEF PagesOwned
<1>1. PICK role, dad, idx : Tree(role, dad, idx)
  BY DEF PagesOwned
<1>2. /\ UNCHANGED <<freelist, free_page_counter, free, tlb, walk, ret, l2_index, scan>>
      /\ pc = "l4" /\ l4_index \in LowerIndex
  BY DEF L4Step
<1>3. CASE ~L4Entry.present
  <2>1. l4_index' = l4_index + 1 /\ UNCHANGED <<mem, lost, l3_index, pc>>
    BY <1>3 DEF L4Step
  <2>2. l4_index' \in LowerIndex \cup {PAGE \div 2}
    BY <1>2, <2>1, Indices DEF LowerIndex
  <2>3. TypeOK'
    BY <1>0, <1>2, <2>1, <2>2 DEF TypeOK, walk, scan
  <2>4. FreelistIntact' /\ Counted'
    BY <1>2, <2>1, SameFreelist DEF memory
  <2>5. Tree(role, dad, idx)'
    BY <1>0, <1>1, <1>3, L4SkipTree
  <2> QED BY <2>3, <2>4, <2>5 DEF PagesOwned
<1>4. CASE L4Entry.present
  <2>1. PICK n : n = l4_index
    OBVIOUS
  <2>2. /\ mem' = [mem EXCEPT ![CR3 + n].present = FALSE] /\ n \in Index
        /\ lost' = lost \cup GivenPages({n}) /\ l3_index' = 0 /\ pc' = "l3"
        /\ UNCHANGED l4_index
    BY <1>2, <1>4, <2>1, Indices DEF L4Step
  <2>3. /\ mem' \in [Words -> Entry]
        /\ \A s \in Pages, j \in Index : ~(s = CR3 /\ j = n) => mem'[s + j] = mem[s + j]
    BY <1>0, <2>2, ClearFacts
  <2>4. lost' \subseteq Frames \cup {0}
    <3>1. GivenPages({n}) \subseteq Pages
      BY <1>0, <2>2, TablesArePages DEF TypeOK, GivenPages
    <3> QED BY <1>0, <2>2, <3>1 DEF TypeOK, Pages, NULL
  <2>5. l3_index' \in 0..PAGE
    BY <2>2, PagingAssumption
  <2>6. TypeOK'
    BY <1>0, <1>2, <2>2, <2>3, <2>4, <2>5 DEF TypeOK, walk, scan
  <2>7. FreelistIntact'
    <3>1. CR3 \in Pages /\ role[CR3] = ROOT
      BY <1>1, RootPage DEF Tree, Owners
    <3>2. \A s \in Pages, j \in Index : role[s] = FREE /\ s \in ToSet(free') => mem'[s + j] = mem[s + j]
      BY <2>3, <3>1 DEF FREE, ROOT
    <3>3. Owners(role) /\ free' = free
      BY <1>1, <1>2 DEF Tree
    <3>4. \A q \in ToSet(free') : mem'[q] = mem[q]
      BY <1>0, <3>2, <3>3, FreeWords
    <3> QED BY <1>0, <1>2, <3>3, <3>4, LinksIntact
  <2>8. Counted'
    BY <1>0, <1>2, <2>2 DEF Counted
  <2>9. \E r, d, x : Tree(r, d, x)'
    BY <1>0, <1>1, <1>4, L4CutTree
  <2> QED BY <2>6, <2>7, <2>8, <2>9 DEF PagesOwned
<1> QED BY <1>3, <1>4

\* The indices of the loops stay in bounds.
LEMMA NextIndex ==
  /\ \A i \in Index : i + 1 \in 0..PAGE
  /\ 0 \in 0..PAGE
  /\ \A i \in LowerIndex : i + 1 \in LowerIndex \cup {PAGE \div 2}
<1>1. PAGE \in Nat
  BY PagingAssumption
<1>2. PAGE \div 2 \in Nat
  BY Indices
<1> QED BY <1>1, <1>2 DEF Index, LowerIndex

\* The level 3 loop.
LEMMA L3StepOwned ==
  ASSUME PagesOwned, L3Step
  PROVE  PagesOwned'
<1>0. TypeOK
  BY DEF PagesOwned
<1>1. PICK role, dad, idx : Tree(role, dad, idx)
  BY DEF PagesOwned
<1>2. /\ UNCHANGED <<memory, tlb, walk, ret, l4_index, scan, lost>>
      /\ pc = "l3" /\ pc' \in {"l3", "l2"} /\ l3_index' \in 0..PAGE /\ l2_index' \in 0..PAGE
  BY <1>0, NextIndex DEF L3Step, TypeOK
<1>3. TypeOK'
  BY <1>0, <1>2 DEF TypeOK, memory, walk, scan
<1>4. FreelistIntact' /\ Counted'
  BY <1>2, SameFreelist
<1>5. Tree(role, dad, idx)'
  BY <1>0, <1>1, L3StepTree
<1> QED BY <1>3, <1>4, <1>5 DEF PagesOwned

\* The level 2 loop.
LEMMA L2StepOwned ==
  ASSUME PagesOwned, L2Step
  PROVE  PagesOwned'
<1>0. TypeOK
  BY DEF PagesOwned
<1>1. PICK role, dad, idx : Tree(role, dad, idx)
  BY DEF PagesOwned
<1>2. /\ UNCHANGED <<tlb, pc, walk, ret, l4_index, l3_index, scan, lost>>
      /\ pc = "l2" /\ l2_index' \in 0..PAGE
  BY <1>0, NextIndex DEF L2Step, TypeOK
<1>3. CASE ~HasTable(mem[L2Word])
  <2>1. UNCHANGED memory
    BY <1>3 DEF L2Step
  <2>2. TypeOK'
    BY <1>0, <1>2, <2>1 DEF TypeOK, memory, walk, scan
  <2>3. FreelistIntact' /\ Counted'
    BY <1>2, <2>1, SameFreelist
  <2>4. Tree(role, dad, idx)'
    BY <1>0, <1>1, <1>3, L2SkipTree
  <2> QED BY <2>2, <2>3, <2>4 DEF PagesOwned
<1>4. CASE HasTable(mem[L2Word])
  <2>1. PICK p : p = Base(mem[L2Word])
    OBVIOUS
  <2>2. p \in Frames /\ p \notin ToSet(free) /\ \E r, d, x : Tree(r, d, x)'
    BY <1>0, <1>1, <1>4, <2>1, L2FreeTree
  <2>3. Push(p, 1)
    BY <1>4, <2>1 DEF L2Step, pmem_free
  <2>4. /\ mem' \in [Words -> Entry] /\ freelist' \in Frames
        /\ free_page_counter' \in Int /\ free' \in Seq(Frames)
        /\ FreelistIntact' /\ Counted'
    <3>1. pc # "scan" /\ pc' # "scan"
      BY <1>2
    <3> QED BY <2>2, <2>3, <3>1, PushOwned
  <2>5. TypeOK'
    BY <1>0, <1>2, <2>4 DEF TypeOK, walk, scan
  <2> QED BY <2>2, <2>4, <2>5 DEF PagesOwned
<1> QED BY <1>3, <1>4

\* The level 2 table is freed.
LEMMA L2DoneOwned ==
  ASSUME PagesOwned, L2Done
  PROVE  PagesOwned'
<1>0. TypeOK
  BY DEF PagesOwned
<1>1. PICK role, dad, idx : Tree(role, dad, idx)
  BY DEF PagesOwned
<1>2. /\ UNCHANGED <<tlb, walk, ret, l4_index, l2_index, scan, lost>>
      /\ pc = "l2" /\ pc' = "l3" /\ l3_index' = l3_index + 1
  BY DEF L2Done
<1>3. l3_index' \in 0..PAGE
  BY <1>0, <1>1, <1>2, LoopTables, NextIndex
<1>4. PICK p : p = Base(mem[L3Word])
  OBVIOUS
<1>5. p \in Frames /\ p \notin ToSet(free) /\ \E r, d, x : Tree(r, d, x)'
  BY <1>0, <1>1, <1>4, L2DoneTree
<1>6. Push(p, 1)
  BY <1>4 DEF L2Done, pmem_free
<1>7. /\ mem' \in [Words -> Entry] /\ freelist' \in Frames
      /\ free_page_counter' \in Int /\ free' \in Seq(Frames)
      /\ FreelistIntact' /\ Counted'
  <2>1. pc # "scan" /\ pc' # "scan"
    BY <1>2
  <2> QED BY <1>5, <1>6, <2>1, PushOwned
<1>8. TypeOK'
  BY <1>0, <1>2, <1>3, <1>7 DEF TypeOK, walk, scan
<1> QED BY <1>5, <1>7, <1>8 DEF PagesOwned

\* The level 3 table is freed.
LEMMA L3DoneOwned ==
  ASSUME PagesOwned, L3Done
  PROVE  PagesOwned'
<1>0. TypeOK
  BY DEF PagesOwned
<1>1. PICK role, dad, idx : Tree(role, dad, idx)
  BY DEF PagesOwned
<1>2. /\ UNCHANGED <<tlb, walk, ret, l3_index, l2_index, scan, lost>>
      /\ pc = "l3" /\ pc' = "l4" /\ l4_index' = l4_index + 1
  BY DEF L3Done
<1>3. l4_index' \in LowerIndex \cup {PAGE \div 2}
  BY <1>0, <1>1, <1>2, LoopTables, NextIndex
<1>4. PICK p : p = Base(L4Entry)
  OBVIOUS
<1>5. p \in Frames /\ p \notin ToSet(free) /\ \E r, d, x : Tree(r, d, x)'
  BY <1>0, <1>1, <1>4, L3DoneTree
<1>6. Push(p, 1)
  BY <1>4 DEF L3Done, pmem_free
<1>7. /\ mem' \in [Words -> Entry] /\ freelist' \in Frames
      /\ free_page_counter' \in Int /\ free' \in Seq(Frames)
      /\ FreelistIntact' /\ Counted'
  <2>1. pc # "scan" /\ pc' # "scan"
    BY <1>2
  <2> QED BY <1>5, <1>6, <2>1, PushOwned
<1>8. TypeOK'
  BY <1>0, <1>2, <1>3, <1>7 DEF TypeOK, walk, scan
<1> QED BY <1>5, <1>7, <1>8 DEF PagesOwned

\* unmap_lower_half returns.
LEMMA L4DoneOwned ==
  ASSUME PagesOwned, L4Done
  PROVE  PagesOwned'
<1>0. TypeOK
  BY DEF PagesOwned
<1>1. PICK role, dad, idx : Tree(role, dad, idx)
  BY DEF PagesOwned
<1>2. /\ UNCHANGED <<memory, walk, loops, current, curr, lost>> /\ tlb' = {}
      /\ pc = "l4" /\ pc' = "idle" /\ ret' = TRUE /\ phase' = "run"
  BY DEF L4Done, Return
<1>3. TypeOK'
  BY <1>0, <1>2 DEF TypeOK, memory, walk, loops
<1>4. FreelistIntact' /\ Counted'
  BY <1>2, SameFreelist
<1>5. Tree(role, dad, idx)'
  BY <1>0, <1>1, L4DoneTree
<1> QED BY <1>3, <1>4, <1>5 DEF PagesOwned

\* mem_init finds a usable page.
LEMMA ScanPageOwned ==
  ASSUME PagesOwned, ScanPage
  PROVE  PagesOwned'
<1>0. TypeOK
  BY DEF PagesOwned
<1>1. PICK role, dad, idx : Tree(role, dad, idx)
  BY DEF PagesOwned
<1>2. /\ UNCHANGED <<tlb, pc, walk, ret, loops, current, phase, lost>>
      /\ pc = "scan" /\ Push(curr, 2) /\ curr' = curr + PAGE
  BY DEF ScanPage
<1>3. PICK p : p = curr
  OBVIOUS
<1>4. p \in Frames /\ p \notin ToSet(free) /\ \E r, d, x : Tree(r, d, x)'
  BY <1>0, <1>1, <1>3, ScanPageTree
<1>5. /\ mem' \in [Words -> Entry] /\ freelist' \in Frames
      /\ free_page_counter' \in Int /\ free' \in Seq(Frames)
      /\ FreelistIntact' /\ Counted'
  <2>1. pc = "scan" /\ pc' = "scan" /\ Push(p, 2)
    BY <1>2, <1>3
  <2> QED BY <1>4, <2>1, PushOwned
<1>6. curr' \in Nat
  BY <1>0, <1>2, PagingAssumption DEF TypeOK
<1>7. TypeOK'
  BY <1>0, <1>2, <1>5, <1>6 DEF TypeOK, walk, loops
<1> QED BY <1>4, <1>5, <1>7 DEF PagesOwned

\* mem_init goes on to the next entry of the memory map.
LEMMA ScanEntryOwned ==
  ASSUME PagesOwned, ScanEntry
  PROVE  PagesOwned'
<1>0. TypeOK
  BY DEF PagesOwned
<1>1. PICK role, dad, idx : Tree(role, dad, idx)
  BY DEF PagesOwned
<1>2. /\ UNCHANGED <<memory, tlb, pc, walk, ret, loops, phase, lost>>
      /\ current \in DOMAIN memmap /\ current' = current + 1
      /\ curr' = IF current' \in DOMAIN memmap THEN memmap[current'].base ELSE curr
  BY DEF ScanEntry
<1>3. current' \in 1..Len(memmap) + 1
  BY <1>2, MapEntries
<1>4. curr' \in Nat
  BY <1>0, <1>2, MapEntries DEF TypeOK
<1>5. TypeOK'
  BY <1>0, <1>2, <1>3, <1>4 DEF TypeOK, memory, walk, loops
<1>6. FreelistIntact' /\ Counted'
  BY <1>2, SameFreelist
<1>7. Tree(role, dad, idx)'
  BY <1>0, <1>1, ScanEntryTree
<1> QED BY <1>5, <1>6, <1>7 DEF PagesOwned

\* A list that visits a set's elements once each is as long as the set is large.
LEMMA ListLength ==
  ASSUME NEW s \in Seq(Frames), \A j, k \in 1..Len(s) : s[j] = s[k] => j = k
  PROVE  Len(s) = Cardinality(ToSet(s))
<1>1. Len(s) \in Nat /\ s \in [1..Len(s) -> ToSet(s)]
  BY InSet
<1>2. \A t \in ToSet(s) : \E k \in 1..Len(s) : s[k] = t
  BY InSet
<1>3. s \in Bijection(1..Len(s), ToSet(s))
  BY <1>1, <1>2 DEF Bijection, Injection, Surjection, IsInjective
<1>4. ExistsBijection(1..Len(s), ToSet(s))
  BY <1>3 DEF ExistsBijection
<1>5. IsFiniteSet(1..Len(s)) /\ Cardinality(1..Len(s)) = Len(s)
  BY <1>1, FS_Interval
<1> QED BY <1>4, <1>5, FS_Bijection

\* mem_init has seen the whole memory map: the usable pages are the free ones.
LEMMA ScanDoneOwned ==
  ASSUME PagesOwned, ScanDone
  PROVE  PagesOwned'
<1>0. TypeOK /\ FreelistIntact /\ Counted
  BY DEF PagesOwned
<1>1. PICK role, dad, idx : Tree(role, dad, idx)
  BY DEF PagesOwned
<1>2. /\ UNCHANGED <<memory, tlb, walk, ret, l3_index, l2_index, scan, lost>>
      /\ pc = "scan" /\ pc' = "l4" /\ l4_index' = 0
  BY DEF ScanDone
<1>3. TypeOK'
  BY <1>0, <1>2, Indices DEF TypeOK, memory, walk, scan
<1>4. UNCHANGED <<mem, freelist, free_page_counter, free>>
  BY <1>2 DEF memory
<1>5. FreelistIntact'
  BY <1>0, <1>4 DEF FreelistIntact
<1>6. Tree(role, dad, idx)'
  BY <1>0, <1>1, UnmapStartsTree
<1>7. Counted'
  <2>1. \A p \in Pages : p \in UsablePages <=> p \in ToSet(free)
    <3>1. \A p \in Pages : role[p] # AHEAD
      BY <1>2, <1>6 DEF Tree, Scanned
    <3> QED BY <3>1, <1>1, <1>2 DEF Tree, Scanned, Owners
  <2>2. UsablePages \subseteq Pages /\ ToSet(free) \subseteq Pages
    BY <1>0, InSet, ElementOfSeq DEF UsablePages, Pages, TypeOK
  <2>3. ToSet(free) = UsablePages
    BY <2>1, <2>2
  <2>4. Len(free) = Cardinality(ToSet(free))
    <3>1. free \in Seq(Frames) /\ DOMAIN free = 1..Len(free)
      BY <1>0 DEF TypeOK
    <3>2. \A j, k \in 1..Len(free) : free[j] = free[k] => j = k
      BY <3>1, <1>0 DEF FreelistIntact
    <3> QED BY <3>1, <3>2, ListLength
  <2>5. Len(free) = Cardinality(UsablePages)
    BY <2>3, <2>4
  <2> QED BY <2>5, <1>0, <1>2, <1>4 DEF Counted
<1> QED BY <1>3, <1>5, <1>6, <1>7 DEF PagesOwned

\* Every step preserves the invariant.
LEMMA NextOwned ==
  ASSUME PagesOwned, [Next]_vars
  PROVE  PagesOwned'
<1>1. ASSUME NEW a \in UserPages, NEW rights \in Protections, vm_map(a, rights)
      PROVE  PagesOwned'
  BY <1>1, StartOwned, PagingAssumption DEF vm_map
<1>2. ASSUME NEW a \in UserPages, NEW rights \in Protections, vm_protect(a, rights)
      PROVE  PagesOwned'
  BY <1>2, StartOwned, PagingAssumption DEF vm_protect
<1>3. CASE unmap_lower_half
  BY <1>3, UnmapOwned
<1>4. ASSUME NEW a \in Touched, Touch(a)
      PROVE  PagesOwned'
  BY <1>4, TouchOwned
<1>5. CASE Descend
  BY <1>5, DescendOwned
<1>6. CASE MapTaken \/ MapNoMemory \/ ProtectMissing
  BY <1>6, ReturnOwned DEF MapTaken, MapNoMemory, ProtectMissing
<1>7. CASE MapTable
  BY <1>7, MapTableOwned
<1>8. CASE MapPage
  BY <1>8, MapPageOwned
<1>9. CASE ProtectPage
  BY <1>9, ProtectOwned
<1>10. CASE L4Step
  BY <1>10, L4StepOwned
<1>11. CASE L3Step
  BY <1>11, L3StepOwned
<1>12. CASE L2Step
  BY <1>12, L2StepOwned
<1>13. CASE L2Done
  BY <1>13, L2DoneOwned
<1>14. CASE L3Done
  BY <1>14, L3DoneOwned
<1>15. CASE L4Done
  BY <1>15, L4DoneOwned
<1>16. CASE ScanPage
  BY <1>16, ScanPageOwned
<1>17. CASE ScanEntry
  BY <1>17, ScanEntryOwned
<1>18. CASE ScanDone
  BY <1>18, ScanDoneOwned
<1>19. CASE UNCHANGED vars
  <2>1. UNCHANGED <<memory, tlb, pc, walk, ret, loops, scan, lost>>
    BY <1>19 DEF vars
  <2> QED BY <2>1, CacheOwned DEF PagesOwned, TypeOK
<1> QED
  BY <1>1, <1>2, <1>3, <1>4, <1>5, <1>6, <1>7, <1>8, <1>9, <1>10, <1>11, <1>12, <1>13,
     <1>14, <1>15, <1>16, <1>17, <1>18, <1>19 DEF Next, KernelStep

(***************************************************************************)
(* Every page has one owner, always: PagesOwned is inductive.              *)
(***************************************************************************)
THEOREM Owned == Spec => []PagesOwned
<1>1. Init => PagesOwned
  BY InitOwned
<1>2. PagesOwned /\ [Next]_vars => PagesOwned'
  BY NextOwned
<1> QED BY <1>1, <1>2, PTL DEF Spec

(***************************************************************************)
(* Types: table and link addresses stay in memory, whatever the boot       *)
(* loader's tables hold and whatever is called.                            *)
(***************************************************************************)
THEOREM TypeCorrect == Spec => []TypeOK
<1>1. PagesOwned => TypeOK
  BY DEF PagesOwned
<1> QED BY <1>1, Owned, PTL

(***************************************************************************)
(* page.c's freelist is a list: no page is freed twice and nothing writes  *)
(* over the links, which are kept in the free pages.                       *)
(***************************************************************************)
THEOREM FreelistCorrect == Spec => []FreelistIntact
<1>1. PagesOwned => FreelistIntact
  BY DEF PagesOwned
<1> QED BY <1>1, Owned, PTL
-----------------------------------------------------------------------------
(***************************************************************************)
(* The pages in use, by roles.                                             *)
(***************************************************************************)

\* The two halves make up the address space.
LEMMA Halves ==
  ASSUME NEW m \in [Words -> Entry], NEW q
  PROVE  LET upper == Index \ LowerIndex
         IN  /\ q \in L3Tables(m, Index) =>
                   q \in L3Tables(m, LowerIndex) \/ q \in L3Tables(m, upper)
             /\ q \in L2Tables(m, Index) =>
                   q \in L2Tables(m, LowerIndex) \/ q \in L2Tables(m, upper)
             /\ q \in L1Tables(m, Index) =>
                   q \in L1Tables(m, LowerIndex) \/ q \in L1Tables(m, upper)
<1> DEFINE upper == Index \ LowerIndex
<1>1. \A a, b : Below(m, a \cup b) = Below(m, a) \cup Below(m, b)
  BY DEF Below
<1>2. L3Tables(m, Index) = L3Tables(m, LowerIndex) \cup L3Tables(m, upper)
  BY Indices DEF L3Tables
<1>3. L2Tables(m, Index) = L2Tables(m, LowerIndex) \cup L2Tables(m, upper)
  BY <1>1, <1>2 DEF L2Tables
<1>4. L1Tables(m, Index) = L1Tables(m, LowerIndex) \cup L1Tables(m, upper)
  BY <1>1, <1>3 DEF L1Tables
<1> QED BY <1>2, <1>3, <1>4

\* Tables that are as the boot loader left them lead where it made them lead.
LEMMA BelowSame ==
  ASSUME NEW m \in [Words -> Entry], NEW n \in [Words -> Entry], NEW tables \in SUBSET Pages,
         \A t \in tables, i \in Index : m[t + i] = n[t + i]
  PROVE  Below(m, tables) = Below(n, tables)
<1>1. \A t \in tables, i \in Index : /\ Has(m, t, i) <=> Has(n, t, i)
                                     /\ Goes(m, t, i) = Goes(n, t, i)
  BY DEF Has, Goes
<1>2. \A q : q \in Below(m, tables) <=> q \in Below(n, tables)
  BY <1>1, BelowIs
<1> QED BY <1>2

\* The kernel's half of the address space is as the boot loader left it.
LEMMA UpperSame ==
  ASSUME NEW role, NEW dad, NEW idx, TypeOK, Tree(role, dad, idx)
  PROVE  LET upper == Index \ LowerIndex
         IN  /\ L3Tables(mem, upper) = L3Tables(BootMem, upper)
             /\ L2Tables(mem, upper) = L2Tables(BootMem, upper)
             /\ L1Tables(mem, upper) = L1Tables(BootMem, upper)
             /\ L3Tables(mem, upper) \subseteq UpperTables(BootMem)
             /\ L2Tables(mem, upper) \subseteq UpperTables(BootMem)
             /\ L1Tables(mem, upper) \subseteq UpperTables(BootMem)
             /\ \A q \in UpperTables(BootMem) : q \in Pages /\ role[q] = NONE
<1> DEFINE upper == Index \ LowerIndex
<1>0. mem \in [Words -> Entry] /\ BootMem \in [Words -> Entry] /\ upper \in SUBSET Index
  BY PagingAssumption DEF TypeOK
<1>1. /\ L3Tables(BootMem, upper) \subseteq Pages /\ L2Tables(BootMem, upper) \subseteq Pages
      /\ L1Tables(BootMem, upper) \subseteq Pages
  BY <1>0, TablesArePages
<1>2. \A q \in UpperTables(BootMem) : q \in Pages /\ role[q] = NONE
  <2>1. UpperTables(BootMem) \subseteq Pages
    BY <1>1 DEF UpperTables
  <2>2. UpperTables(BootMem) \cap (Managed \cup {CR3}) = {}
    BY BootLoaderAssumption
  <2> QED BY <2>1, <2>2 DEF Tree, Owners
<1>3. \A q \in UpperTables(BootMem), i \in Index : mem[q + i] = BootMem[q + i]
  BY <1>2 DEF Tree, Untouched
<1>4. L3Tables(mem, upper) = L3Tables(BootMem, upper)
  <2>1. \A i \in upper : mem[CR3 + i] = BootMem[CR3 + i]
    BY RootPage DEF Tree, Untouched, Owners
  <2> QED BY <2>1 DEF L3Tables
<1>5. L2Tables(mem, upper) = L2Tables(BootMem, upper)
  <2>1. L3Tables(BootMem, upper) \subseteq UpperTables(BootMem)
    BY DEF UpperTables
  <2> QED BY <2>1, <1>0, <1>1, <1>3, <1>4, BelowSame DEF L2Tables
<1>6. L1Tables(mem, upper) = L1Tables(BootMem, upper)
  <2>1. L2Tables(BootMem, upper) \subseteq UpperTables(BootMem)
    BY DEF UpperTables
  <2> QED BY <2>1, <1>0, <1>1, <1>3, <1>5, BelowSame DEF L1Tables
<1> QED BY <1>2, <1>4, <1>5, <1>6 DEF UpperTables

\* A page in use is a table, mapped, or not the kernel's to give out.
LEMMA InUseRoles ==
  ASSUME NEW role, NEW dad, NEW idx, TypeOK, Tree(role, dad, idx), NEW q \in Pages,
         q \in InUse
  PROVE  role[q] \in 0..4 \cup {NONE}
<1> DEFINE upper == Index \ LowerIndex
<1>0. mem \in [Words -> Entry] /\ LowerIndex \in SUBSET LowerIndex
  BY DEF TypeOK
<1>1. CASE q = CR3
  BY <1>1 DEF Tree, Owners, ROOT
<1>2. CASE \/ q \in L3Tables(mem, LowerIndex) \/ q \in L2Tables(mem, LowerIndex)
           \/ q \in L1Tables(mem, LowerIndex)
  BY <1>0, <1>2, TablesByRole
<1>3. CASE q \in GivenPages(LowerIndex)
  <2>1. CASE q \in Managed
    BY <1>0, <1>3, <2>1, TablesByRole
  <2>2. CASE q \notin Managed
    BY <2>2 DEF Tree, Owners, ROOT
  <2> QED BY <2>1, <2>2
<1>4. CASE \/ q \in L3Tables(mem, upper) \/ q \in L2Tables(mem, upper)
           \/ q \in L1Tables(mem, upper)
  BY <1>4, UpperSame
<1> QED BY <1>0, <1>1, <1>2, <1>3, <1>4, Halves DEF InUse

(***************************************************************************)
(* page.c never has on its freelist, and so never gives out, a page table  *)
(* of the processor's, a page that a program has mapped in the lower half, *)
(* or the table that one of its own loops is reading; in the middle of     *)
(* unmap_lower_half and of a vm_map that fails too.                        *)
(***************************************************************************)
THEOREM NoUseAfterFree == Spec => []FreeNotInUse
<1>1. PagesOwned => FreeNotInUse
  <2> SUFFICES ASSUME PagesOwned, NEW q \in ToSet(free), q \in InUse \cup InHand
               PROVE  FALSE
    BY DEF FreeNotInUse
  <2>0. TypeOK
    BY DEF PagesOwned
  <2>1. PICK role, dad, idx : Tree(role, dad, idx)
    BY DEF PagesOwned
  <2>2. q \in Pages /\ role[q] = FREE
    <3>1. q \in Frames
      BY <2>0, InSet, ElementOfSeq DEF TypeOK
    <3> QED BY <2>1, <3>1 DEF Tree, Owners, Pages
  <2>3. CASE q \in InUse
    BY <2>0, <2>1, <2>2, <2>3, InUseRoles DEF FREE, NONE
  <2>4. CASE q \in InHand
    <3>1. CASE pc \in {"map", "protect"}
      <4>1. q = table /\ role[table] \in 1..4
        BY <2>0, <2>1, <2>4, <3>1, SlotFacts DEF InHand
      <4> QED BY <2>2, <4>1 DEF FREE
    <3>2. CASE pc = "l3"
      <4>1. q = Cur3 /\ role[Cur3] = 13
        BY <2>0, <2>1, <2>4, <3>2, LoopTables, LoopWords DEF InHand
      <4> QED BY <2>2, <4>1 DEF FREE
    <3>3. CASE pc = "l2"
      <4>1. q \in {Cur3, Cur2} /\ role[Cur3] = 13 /\ role[Cur2] = 12
        BY <2>0, <2>1, <2>4, <3>3, LoopTables, LoopWords DEF InHand
      <4> QED BY <2>2, <4>1 DEF FREE
    <3> QED BY <2>4, <3>1, <3>2, <3>3 DEF InHand
  <2> QED BY <2>3, <2>4
<1> QED BY <1>1, Owned, PTL

\* The tables of the lower half have the roles of tables.
LEMMA LowerRoles ==
  ASSUME NEW role, NEW dad, NEW idx, TypeOK, Tree(role, dad, idx), NEW q
  PROVE  q \in LowerTables(mem) <=>
            q \in Pages /\ role[q] \in 1..3 /\ Top(role, dad, idx, q) \in LowerIndex
<1>0. mem \in [Words -> Entry] /\ LowerIndex \in SUBSET LowerIndex /\ LowerIndex \in SUBSET Index
  BY Indices DEF TypeOK
<1>1. q \in LowerTables(mem) => q \in Pages
  BY <1>0, TablesArePages DEF LowerTables
<1>2. CASE q \in Pages
  <2>1. /\ q \in L3Tables(mem, LowerIndex) <=> role[q] = 3 /\ Top(role, dad, idx, q) \in LowerIndex
        /\ q \in L2Tables(mem, LowerIndex) <=> role[q] = 2 /\ Top(role, dad, idx, q) \in LowerIndex
        /\ q \in L1Tables(mem, LowerIndex) <=> role[q] = 1 /\ Top(role, dad, idx, q) \in LowerIndex
    BY <1>0, <1>2, TablesByRole
  <2> QED BY <1>2, <2>1 DEF LowerTables
<1> QED BY <1>1, <1>2

\* Everything in the tree is in the lower half.
LEMMA TopLower ==
  ASSUME NEW role, NEW dad, NEW idx, TypeOK, Tree(role, dad, idx), NEW q \in Pages,
         role[q] \in 0..3
  PROVE  Top(role, dad, idx, q) \in LowerIndex
<1>1. \A p \in Pages : role[p] = 3 => Top(role, dad, idx, p) \in LowerIndex
  BY TopOfParent DEF Tree, Up
<1>2. \A p \in Pages : role[p] = 2 => Top(role, dad, idx, p) \in LowerIndex
  <2> SUFFICES ASSUME NEW p \in Pages, role[p] = 2 PROVE Top(role, dad, idx, p) \in LowerIndex
    OBVIOUS
  <2>1. /\ Top(role, dad, idx, p) = Top(role, dad, idx, dad[p])
        /\ role[dad[p]] = 3 /\ dad[p] \in Pages
    BY TopOfParent
  <2> QED BY <1>1, <2>1
<1>3. \A p \in Pages : role[p] = 1 => Top(role, dad, idx, p) \in LowerIndex
  <2> SUFFICES ASSUME NEW p \in Pages, role[p] = 1 PROVE Top(role, dad, idx, p) \in LowerIndex
    OBVIOUS
  <2>1. /\ Top(role, dad, idx, p) = Top(role, dad, idx, dad[p])
        /\ role[dad[p]] = 2 /\ dad[p] \in Pages
    BY TopOfParent
  <2> QED BY <1>2, <2>1
<1>4. \A p \in Pages : role[p] = 0 => Top(role, dad, idx, p) \in LowerIndex
  <2> SUFFICES ASSUME NEW p \in Pages, role[p] = 0 PROVE Top(role, dad, idx, p) \in LowerIndex
    OBVIOUS
  <2>1. /\ Top(role, dad, idx, p) = Top(role, dad, idx, dad[p])
        /\ role[dad[p]] = 1 /\ dad[p] \in Pages
    BY TopOfParent
  <2> QED BY <1>3, <2>1
<1> QED BY <1>1, <1>2, <1>3, <1>4

(***************************************************************************)
(* Page tables are a tree: vm_map maps no page twice and shares no table.  *)
(***************************************************************************)
THEOREM TablesAreATree == Spec => []NoAliasing
<1>1. PagesOwned => NoAliasing
  <2> SUFFICES ASSUME PagesOwned, NEW v \in ManagedLinks, NEW w \in ManagedLinks,
                      Base(mem[v]) = Base(mem[w])
               PROVE  v = w
    BY DEF NoAliasing
  <2>0. TypeOK
    BY DEF PagesOwned
  <2>1. PICK role, dad, idx : Tree(role, dad, idx)
    BY DEF PagesOwned
  <2>2. ASSUME NEW u \in ManagedLinks
        PROVE  u = dad[Base(mem[u])] + idx[Base(mem[u])]
    <3>1. PICK t \in {CR3} \cup LowerTables(mem), i \in Index :
             /\ u = t + i
             /\ phase = "run" \/ t = CR3 \/ t \in L3Tables(mem, LowerIndex)
                             \/ t \in L2Tables(mem, LowerIndex)
      BY DEF ManagedLinks, LowerTables
    <3>2. HasTable(mem[u]) /\ Base(mem[u]) \in Managed
      BY DEF ManagedLinks
    <3>3. Has(mem, t, i) /\ Goes(mem, t, i) = Base(mem[u])
      BY <3>1, <3>2 DEF Has, Goes
    <3>4. t \in Pages /\ role[t] \in 1..4 /\ (role[t] = 4 <=> t = CR3)
      BY <2>0, <2>1, <3>1, LowerRoles, RootPage DEF Tree, Owners, ROOT
    <3>5. t = CR3 => i \in LowerIndex
      <4> SUFFICES ASSUME t = CR3, i \notin LowerIndex PROVE FALSE
        OBVIOUS
      <4>1. Base(mem[u]) \in L3Tables(mem, Index \ LowerIndex)
        BY <3>1, <3>2 DEF L3Tables
      <4>2. Base(mem[u]) \in UpperTables(BootMem)
        BY <2>0, <2>1, <4>1, UpperSame
      <4> QED BY <4>2, <3>2, BootLoaderAssumption
    <3>6. i \in Entries(role, t)
      BY <3>4, <3>5 DEF Entries, ROOT
    <3>7. phase = "run" \/ role[t] > 1
      <4>1. LowerIndex \in SUBSET LowerIndex
        OBVIOUS
      <4>2. t \in L3Tables(mem, LowerIndex) \/ t \in L2Tables(mem, LowerIndex) => role[t] \in 2..3
        BY <2>0, <2>1, <3>4, <4>1, TablesByRole
      <4> QED BY <4>2, <3>1, <3>4
    <3>8. Child(role, dad, idx, t, i)
      BY <2>1, <3>2, <3>3, <3>4, <3>6, <3>7 DEF Tree, Down
    <3> QED BY <3>1, <3>3, <3>8 DEF Child
  <2> QED BY <2>2
<1> QED BY <1>1, Owned, PTL

\* The union of four sets, and when they are disjoint.
LEMMA FourParts ==
  ASSUME NEW a, NEW b, NEW c, NEW d, NEW all,
         \A q : q \in all <=> q \in a \/ q \in b \/ q \in c \/ q \in d,
         a \cap b = {}, a \cap c = {}, a \cap d = {}, b \cap c = {}, b \cap d = {}, c \cap d = {}
  PROVE  LET parts == <<a, b, c, d>>
         IN  /\ UNION ToSet(parts) = all
             /\ \A i, j \in DOMAIN parts : i # j => parts[i] \cap parts[j] = {}
<1> DEFINE parts == <<a, b, c, d>>
<1>1. /\ DOMAIN parts = {1, 2, 3, 4}
      /\ parts[1] = a /\ parts[2] = b /\ parts[3] = c /\ parts[4] = d
  OBVIOUS
<1> HIDE DEF parts
<1>2. ToSet(parts) = {a, b, c, d}
  BY <1>1 DEF ToSet
<1>3. UNION ToSet(parts) = all
  BY <1>2
<1>4. \A i, j \in DOMAIN parts : i # j => parts[i] \cap parts[j] = {}
  BY <1>1
<1> QED BY <1>3, <1>4 DEF parts

\* The pages by their roles.
LEMMA OwnedPartition == PagesOwned => Partition
<1> SUFFICES ASSUME PagesOwned, pc = "idle"
             PROVE  LET parts == <<ToSet(free), LowerTables(mem),
                                   MappedPages(mem, LowerIndex), lost \cap Managed>>
                    IN  /\ UNION ToSet(parts) = Managed
                        /\ \A i, j \in DOMAIN parts : i # j => parts[i] \cap parts[j] = {}
  BY DEF Partition
<1>0. TypeOK /\ mem \in [Words -> Entry]
  BY DEF PagesOwned, TypeOK
<1>1. PICK role, dad, idx : Tree(role, dad, idx)
  BY DEF PagesOwned
<1>2. Managed \subseteq Pages
  <2>1. LowerTables(BootMem) \subseteq Pages
    BY TablesArePages, Indices, PagingAssumption DEF LowerTables
  <2> QED BY <2>1 DEF Managed, UsablePages, Pages
<1>3. \A q : q \in ToSet(free) <=> q \in Pages /\ role[q] = FREE
  <2>1. ToSet(free) \subseteq Pages
    BY <1>0, InSet, ElementOfSeq DEF TypeOK, Pages
  <2> QED BY <1>1, <2>1 DEF Tree, Owners
<1>4. \A q : q \in LowerTables(mem) <=> q \in Pages /\ role[q] \in 1..3
  BY <1>0, <1>1, LowerRoles, TopLower
<1>5. \A q : q \in MappedPages(mem, LowerIndex) <=> q \in Pages /\ role[q] = 0
  <2>1. \A q \in MappedPages(mem, LowerIndex) : q \in Managed
    <3> SUFFICES ASSUME NEW q \in MappedPages(mem, LowerIndex) PROVE q \in Managed
      OBVIOUS
    <3>1. L1Tables(mem, LowerIndex) \in SUBSET Pages
      BY <1>0, TablesArePages, Indices
    <3>2. PICK t \in L1Tables(mem, LowerIndex), i \in Index :
             Has(mem, t, i) /\ Goes(mem, t, i) = q
      BY <1>0, <3>1, BelowIs DEF MappedPages
    <3>3. t \in Pages /\ role[t] = 1
      BY <1>0, <1>1, <3>1, TablesByRole
    <3>4. mem[t + i].present
      BY <3>2 DEF Has, HasTable
    <3> QED BY <1>1, <3>2, <3>3, <3>4 DEF Tree, SmallPages
  <2>2. \A q \in Pages : role[q] = 0 => q \in Managed
    BY <1>1 DEF Tree, Owners, NONE, ROOT
  <2>3. \A q \in Managed : q \in MappedPages(mem, LowerIndex) <=>
                              role[q] = 0 /\ Top(role, dad, idx, q) \in LowerIndex
    <3>1. MappedPages(mem, LowerIndex) = GivenPages(LowerIndex) /\ LowerIndex \in SUBSET LowerIndex
      BY <1>1 DEF Tree, Walking, GivenPages
    <3> QED BY <1>0, <1>1, <1>2, <3>1, TablesByRole
  <2> QED BY <1>0, <1>1, <1>2, <2>1, <2>2, <2>3, TopLower
<1>6. \A q : q \in lost \cap Managed <=> q \in Pages /\ role[q] = LOST
  BY <1>1, <1>2 DEF Tree, Owners
<1>7. \A q : q \in Managed <=> q \in Pages /\ role[q] \in {FREE, 1, 2, 3, 0, LOST}
  <2>1. \A q \in Pages : role[q] \in Roles /\ role[q] \notin 11..13 /\ role[q] # AHEAD
    BY <1>1, NoneDoomed DEF Tree, Scanned, GhostTypes
  <2>2. \A q \in Pages : q \in Managed <=> role[q] \notin {NONE, ROOT}
    BY <1>1 DEF Tree, Owners
  <2>3. \A q \in Pages : role[q] \notin {NONE, ROOT} <=> role[q] \in {FREE, 1, 2, 3, 0, LOST}
    BY <2>1 DEF Roles, NONE, ROOT, FREE, LOST, AHEAD
  <2> QED BY <1>2, <2>2, <2>3
<1>8. \A q : q \in Managed <=> \/ q \in ToSet(free) \/ q \in LowerTables(mem)
                               \/ q \in MappedPages(mem, LowerIndex) \/ q \in lost \cap Managed
  BY <1>3, <1>4, <1>5, <1>6, <1>7
<1>9. /\ ToSet(free) \cap LowerTables(mem) = {} /\ ToSet(free) \cap MappedPages(mem, LowerIndex) = {}
      /\ ToSet(free) \cap (lost \cap Managed) = {}
  BY <1>3, <1>4, <1>5, <1>6 DEF FREE, LOST
<1>10. /\ LowerTables(mem) \cap MappedPages(mem, LowerIndex) = {}
       /\ LowerTables(mem) \cap (lost \cap Managed) = {}
       /\ MappedPages(mem, LowerIndex) \cap (lost \cap Managed) = {}
  BY <1>4, <1>5, <1>6 DEF LOST
<1> QED BY <1>8, <1>9, <1>10, FourParts

(***************************************************************************)
(* Between calls every page that mem_init found is free, a table, mapped,  *)
(* or lost by unmap_lower_half, and only one of these: page.c leaks and    *)
(* duplicates nothing, whatever the order of calls and failures.           *)
(***************************************************************************)
THEOREM PagesPartitioned == Spec => []Partition
BY OwnedPartition, Owned, PTL
-----------------------------------------------------------------------------
(***************************************************************************)
(* What the processor makes of the page tables: the cached translations,   *)
(* translate, and that the loops of page.c implement AddressSpace.tla.     *)
(***************************************************************************)
Calls == {"idle", "map", "protect"}
Unmapping == {"l4", "l3", "l2"}

\* Every entry that translates a page of the lower half is present.
Present(a) == E4(a).present /\ E3(a).present /\ E2(a).present /\ E1(a).present

\* The walk of vm_map and vm_protect is the processor's, level by level.
Reached ==
    pc \in {"map", "protect"} =>
        /\ level = 4 => table = CR3
        /\ level < 4 => E4(address).present
        /\ level = 3 => table = Base(E4(address))
        /\ level < 3 => E3(address).present
        /\ level = 2 => table = Base(E3(address))
        /\ level < 2 => E2(address).present
        /\ level = 1 => table = Base(E2(address))

\* The tables of the lower half grant every right: the last entry decides.
Granted ==
    pc \in Calls =>
        \A a \in UserPages : E4(a).present =>
            /\ E4(a).flags = Flags
            /\ E3(a).present =>
                  /\ E3(a).flags = Flags
                  /\ E2(a).present => E2(a).flags = Flags

\* Translations are cached only of pages that can be used.
Cached ==
    /\ pc = "scan" => tlb = {}
    /\ \A t \in tlb : t.access # {}

\* The inductive invariant.
Translated == PagesOwned /\ Reached /\ Granted /\ Cached /\ TlbCoherent

-----------------------------------------------------------------------------
(***************************************************************************)
(* Walks.                                                                  *)
(***************************************************************************)

\* Indices of an address.
LEMMA AddressTypes ==
  ASSUME NEW a \in UserPages \cup KernelPages
  PROVE  /\ a \in [1..4 -> Index]
         /\ a[1] \in Index /\ a[2] \in Index /\ a[3] \in Index /\ a[4] \in Index
         /\ a \in UserPages => a[4] \in LowerIndex
         /\ a \in KernelPages => a[4] \notin LowerIndex
<1>1. a \in [1..4 -> Index]
  BY PagingAssumption
<1>2. a[1] \in Index /\ a[2] \in Index /\ a[3] \in Index /\ a[4] \in Index
  BY <1>1
<1> QED BY <1>1, <1>2, PagingAssumption

\* The entries of a path, and what the last one is.
LEMMA PathParts ==
  \A e, f, g, h :
      /\ ToSet(<<e>>) = {e} /\ Last(<<e>>) = e
      /\ ToSet(<<e, f>>) = {e, f} /\ Last(<<e, f>>) = f
      /\ ToSet(<<e, f, g>>) = {e, f, g} /\ Last(<<e, f, g>>) = g
      /\ ToSet(<<e, f, g, h>>) = {e, f, g, h} /\ Last(<<e, f, g, h>>) = h
<1> SUFFICES ASSUME NEW e, NEW f, NEW g, NEW h
             PROVE  /\ ToSet(<<e>>) = {e} /\ Last(<<e>>) = e
                    /\ ToSet(<<e, f>>) = {e, f} /\ Last(<<e, f>>) = f
                    /\ ToSet(<<e, f, g>>) = {e, f, g} /\ Last(<<e, f, g>>) = g
                    /\ ToSet(<<e, f, g, h>>) = {e, f, g, h} /\ Last(<<e, f, g, h>>) = h
  OBVIOUS
<1>1. ToSet(<<e>>) = {e} /\ ToSet(<<e, f>>) = {e, f}
  BY DEF ToSet
<1>2. ToSet(<<e, f, g>>) = {e, f, g}
  BY DEF ToSet
<1>3. ToSet(<<e, f, g, h>>) = {e, f, g, h}
  BY DEF ToSet
<1> QED BY <1>1, <1>2, <1>3 DEF Last

\* The tables of a page of the lower half: their roles and their parents.
LEMMA WalkRoles ==
  ASSUME NEW role, NEW dad, NEW idx, TypeOK, Tree(role, dad, idx), NEW a \in UserPages
  PROVE  /\ role[CR3] = 4
         /\ HasTable(E4(a)) =>
               /\ role[Base(E4(a))] = 3 /\ dad[Base(E4(a))] = CR3 /\ idx[Base(E4(a))] = a[4]
               /\ HasTable(E3(a)) =>
                     /\ role[Base(E3(a))] = 2
                     /\ dad[Base(E3(a))] = Base(E4(a)) /\ idx[Base(E3(a))] = a[3]
                     /\ HasTable(E2(a)) =>
                           /\ role[Base(E2(a))] = 1
                           /\ dad[Base(E2(a))] = Base(E3(a)) /\ idx[Base(E2(a))] = a[2]
<1>0. mem \in [Words -> Entry]
  BY DEF TypeOK
<1>1. /\ a[1] \in Index /\ a[2] \in Index /\ a[3] \in Index /\ a[4] \in Index
      /\ a[4] \in LowerIndex
  BY AddressTypes
<1>2. Base(E4(a)) \in Pages /\ Base(E3(a)) \in Pages /\ Base(E2(a)) \in Pages /\ CR3 \in Pages
  BY <1>0, WalkTypes, RootPage
<1>3. role[CR3] = 4
  BY <1>2 DEF Tree, Owners, ROOT
<1>4. ASSUME NEW p \in Pages, NEW i \in Index, role[p] \in 2..4, role[p] = 4 => i \in LowerIndex,
             HasTable(mem[p + i])
      PROVE  /\ role[Base(mem[p + i])] = role[p] - 1
             /\ dad[Base(mem[p + i])] = p /\ idx[Base(mem[p + i])] = i
  <2>1. i \in Entries(role, p) /\ Has(mem, p, i) /\ Goes(mem, p, i) = Base(mem[p + i])
    BY <1>4 DEF Entries, ROOT, Has, Goes
  <2>2. Child(role, dad, idx, p, i)
    BY <1>4, <2>1 DEF Tree, Down
  <2> QED BY <2>1, <2>2 DEF Child
<1>5. HasTable(E4(a)) =>
         role[Base(E4(a))] = 3 /\ dad[Base(E4(a))] = CR3 /\ idx[Base(E4(a))] = a[4]
  BY <1>1, <1>2, <1>3, <1>4 DEF E4
<1>6. HasTable(E4(a)) /\ HasTable(E3(a)) =>
         role[Base(E3(a))] = 2 /\ dad[Base(E3(a))] = Base(E4(a)) /\ idx[Base(E3(a))] = a[3]
  BY <1>1, <1>2, <1>5, <1>4 DEF E3
<1>7. HasTable(E4(a)) /\ HasTable(E3(a)) /\ HasTable(E2(a)) =>
         role[Base(E2(a))] = 1 /\ dad[Base(E2(a))] = Base(E3(a)) /\ idx[Base(E2(a))] = a[2]
  BY <1>1, <1>2, <1>6, <1>4 DEF E2
<1> QED BY <1>3, <1>5, <1>6, <1>7

\* A walk that reads the same words ends the same way.
LEMMA SameWalk ==
  ASSUME NEW a, E4(a)' = E4(a), HasTable(E4(a)) => E3(a)' = E3(a),
         HasTable(E4(a)) /\ HasTable(E3(a)) => E2(a)' = E2(a),
         HasTable(E4(a)) /\ HasTable(E3(a)) /\ HasTable(E2(a)) => E1(a)' = E1(a)
  PROVE  Access(a)' = Access(a) /\ Translation(a)' = Translation(a)
<1>1. Path(a)' = Path(a)
  <2>1. CASE ~HasTable(E4(a))
    BY <2>1 DEF Path
  <2>2. CASE HasTable(E4(a)) /\ ~HasTable(E3(a))
    BY <2>2 DEF Path
  <2>3. CASE HasTable(E4(a)) /\ HasTable(E3(a)) /\ ~HasTable(E2(a))
    BY <2>3 DEF Path
  <2>4. CASE HasTable(E4(a)) /\ HasTable(E3(a)) /\ HasTable(E2(a))
    BY <2>4 DEF Path
  <2> QED BY <2>1, <2>2, <2>3, <2>4
<1>2. Access(a)' = Access(a)
  BY <1>1 DEF Access
<1> QED BY <1>1, <1>2 DEF Translation

\* A step that writes to no table of the walk leaves the walk alone.
LEMMA KeptWalk ==
  ASSUME NEW role, NEW dad, NEW idx, TypeOK, Tree(role, dad, idx), NEW a \in UserPages,
         \A s \in Pages, j \in Index : role[s] \in 1..4 => mem'[s + j] = mem[s + j]
  PROVE  Access(a)' = Access(a) /\ Translation(a)' = Translation(a)
<1>0. mem \in [Words -> Entry]
  BY DEF TypeOK
<1>1. a[1] \in Index /\ a[2] \in Index /\ a[3] \in Index /\ a[4] \in Index
  BY AddressTypes
<1>2. Base(E4(a)) \in Pages /\ Base(E3(a)) \in Pages /\ Base(E2(a)) \in Pages /\ CR3 \in Pages
  BY <1>0, WalkTypes, RootPage
<1>3. role[CR3] = 4
  BY WalkRoles
<1>4. E4(a)' = E4(a)
  BY <1>1, <1>2, <1>3 DEF E4
<1>5. HasTable(E4(a)) => E3(a)' = E3(a)
  BY <1>1, <1>2, <1>4, WalkRoles DEF E3
<1>6. HasTable(E4(a)) /\ HasTable(E3(a)) => E2(a)' = E2(a)
  BY <1>1, <1>2, <1>5, WalkRoles DEF E2
<1>7. HasTable(E4(a)) /\ HasTable(E3(a)) /\ HasTable(E2(a)) => E1(a)' = E1(a)
  BY <1>1, <1>2, <1>6, WalkRoles DEF E1
<1> QED BY <1>4, <1>5, <1>6, <1>7, SameWalk

\* Outside unmap_lower_half the lower half has small pages only.
LEMMA SmallWalk ==
  ASSUME NEW role, NEW dad, NEW idx, TypeOK, Tree(role, dad, idx), NEW a \in UserPages,
         pc \in Calls
  PROVE  /\ HasTable(E4(a)) <=> E4(a).present
         /\ E4(a).present => (HasTable(E3(a)) <=> E3(a).present)
         /\ E4(a).present /\ E3(a).present => (HasTable(E2(a)) <=> E2(a).present)
         /\ Present(a) => /\ Path(a) = <<E4(a), E3(a), E2(a), E1(a)>>
                          /\ Access(a) = {"read"} \cup
                                {f \in Flags : f \in E4(a).flags /\ f \in E3(a).flags
                                               /\ f \in E2(a).flags /\ f \in E1(a).flags}
                          /\ Translation(a).base = Base(E1(a))
         /\ ~Present(a) => Access(a) = {}
<1>0. mem \in [Words -> Entry]
  BY DEF TypeOK
<1>1. /\ a[1] \in Index /\ a[2] \in Index /\ a[3] \in Index /\ a[4] \in LowerIndex
  BY AddressTypes
<1>2. Base(E4(a)) \in Pages /\ Base(E3(a)) \in Pages /\ Base(E2(a)) \in Pages /\ CR3 \in Pages
  BY <1>0, WalkTypes, RootPage
<1>3. \A p \in Pages, i \in Index : role[p] \in 1..3 => ~mem[p + i].page_size
  BY DEF Tree, SmallPages, Calls
<1>4. HasTable(E4(a)) <=> E4(a).present
  BY <1>1 DEF Tree, SmallPages, E4, HasTable
<1>5. E4(a).present => (HasTable(E3(a)) <=> E3(a).present)
  <2> SUFFICES ASSUME E4(a).present PROVE HasTable(E3(a)) <=> E3(a).present
    OBVIOUS
  <2>1. role[Base(E4(a))] = 3
    BY <1>4, WalkRoles
  <2> QED BY <2>1, <1>1, <1>2, <1>3 DEF E3, HasTable
<1>6. E4(a).present /\ E3(a).present => (HasTable(E2(a)) <=> E2(a).present)
  <2> SUFFICES ASSUME E4(a).present, E3(a).present PROVE HasTable(E2(a)) <=> E2(a).present
    OBVIOUS
  <2>1. role[Base(E3(a))] = 2
    BY <1>4, <1>5, WalkRoles
  <2> QED BY <2>1, <1>1, <1>2, <1>3 DEF E2, HasTable
<1>7. ASSUME Present(a)
      PROVE  /\ Path(a) = <<E4(a), E3(a), E2(a), E1(a)>>
             /\ Access(a) = {"read"} \cup
                   {f \in Flags : f \in E4(a).flags /\ f \in E3(a).flags
                                  /\ f \in E2(a).flags /\ f \in E1(a).flags}
             /\ Translation(a).base = Base(E1(a))
  <2>1. Path(a) = <<E4(a), E3(a), E2(a), E1(a)>>
    BY <1>4, <1>5, <1>6, <1>7 DEF Path, Present
  <2>2. ToSet(Path(a)) = {E4(a), E3(a), E2(a), E1(a)} /\ Last(Path(a)) = E1(a)
    BY <2>1, PathParts
  <2>3. Access(a) = {"read"} \cup {f \in Flags : \A e \in ToSet(Path(a)) : f \in e.flags}
    BY <2>2, <1>7 DEF Access, Present
  <2> QED BY <2>1, <2>2, <2>3 DEF Translation
<1>8. ASSUME ~Present(a)
      PROVE  Access(a) = {}
  <2>1. \E e \in ToSet(Path(a)) : ~e.present
    <3>1. CASE ~E4(a).present
      <4>1. ToSet(Path(a)) = {E4(a)}
        BY <3>1, <1>4, PathParts DEF Path
      <4> QED BY <3>1, <4>1
    <3>2. CASE E4(a).present /\ ~E3(a).present
      <4>1. ToSet(Path(a)) = {E4(a), E3(a)}
        BY <3>2, <1>4, <1>5, PathParts DEF Path
      <4> QED BY <3>2, <4>1
    <3>3. CASE E4(a).present /\ E3(a).present /\ ~E2(a).present
      <4>1. ToSet(Path(a)) = {E4(a), E3(a), E2(a)}
        BY <3>3, <1>4, <1>5, <1>6, PathParts DEF Path
      <4> QED BY <3>3, <4>1
    <3>4. CASE E4(a).present /\ E3(a).present /\ E2(a).present
      <4>1. ToSet(Path(a)) = {E4(a), E3(a), E2(a), E1(a)}
        BY <3>4, <1>4, <1>5, <1>6, PathParts DEF Path
      <4> QED BY <3>4, <4>1, <1>8 DEF Present
    <3> QED BY <3>1, <3>2, <3>3, <3>4
  <2> QED BY <2>1 DEF Access
<1> QED BY <1>4, <1>5, <1>6, <1>7, <1>8

\* Processor and translate agree on every page of the lower half.
THEOREM TranslateCorrect == Spec => []TranslateAgrees
<1>1. PagesOwned => TranslateAgrees
  <2> SUFFICES ASSUME PagesOwned, pc = "idle", NEW a \in UserPages
               PROVE  translate(a) = IF Access(a) = {} THEN NULL ELSE Translation(a).base
    BY DEF TranslateAgrees
  <2>1. PICK role, dad, idx : Tree(role, dad, idx)
    BY DEF PagesOwned
  <2>2. CASE Present(a)
    <3>1. Translation(a).base = Base(E1(a)) /\ "read" \in Access(a)
      BY <2>1, <2>2, SmallWalk DEF PagesOwned, Calls
    <3> QED BY <2>2, <3>1 DEF translate, Present
  <2>3. CASE ~Present(a)
    <3>1. Access(a) = {}
      BY <2>1, <2>3, SmallWalk DEF PagesOwned, Calls
    <3> QED BY <2>3, <3>1 DEF translate, Present
  <2> QED BY <2>2, <2>3
<1> QED BY <1>1, Owned, PTL
-----------------------------------------------------------------------------
(***************************************************************************)
(* The same, from the invariant alone, for the states before and after.    *)
(***************************************************************************)

\* What the lower half's walks come to between and during calls.
LowerWalk(a) ==
    PagesOwned /\ pc \in Calls =>
        /\ Present(a) => /\ Path(a) = <<E4(a), E3(a), E2(a), E1(a)>>
                         /\ Access(a) = {"read"} \cup
                               {f \in Flags : f \in E4(a).flags /\ f \in E3(a).flags
                                              /\ f \in E2(a).flags /\ f \in E1(a).flags}
                         /\ Translation(a).base = Base(E1(a))
        /\ ~Present(a) => Access(a) = {}

LEMMA LowerWalks ==
  \A a \in UserPages : LowerWalk(a)
<1> SUFFICES ASSUME NEW a \in UserPages, PagesOwned, pc \in Calls
             PROVE  /\ Present(a) => /\ Path(a) = <<E4(a), E3(a), E2(a), E1(a)>>
                                     /\ Access(a) = {"read"} \cup
                                           {f \in Flags : f \in E4(a).flags /\ f \in E3(a).flags
                                                          /\ f \in E2(a).flags /\ f \in E1(a).flags}
                                     /\ Translation(a).base = Base(E1(a))
                    /\ ~Present(a) => Access(a) = {}
  BY DEF LowerWalk
<1>1. PICK role, dad, idx : Tree(role, dad, idx)
  BY DEF PagesOwned
<1> QED BY <1>1, SmallWalk DEF PagesOwned

LEMMA LowerWalksNext ==
  \A a \in UserPages : LowerWalk(a)'
<1>1. (\A a \in UserPages : LowerWalk(a))'
  BY LowerWalks, PTL
<1> QED BY <1>1

\* The walk of an address in the memory the boot loader left.
B4(a) == BootMem[CR3 + a[4]]
B3(a) == BootMem[Base(B4(a)) + a[3]]
B2(a) == BootMem[Base(B3(a)) + a[2]]
B1(a) == BootMem[Base(B2(a)) + a[1]]
BootPath(a) ==
    IF ~HasTable(B4(a)) THEN <<B4(a)>>
    ELSE IF ~HasTable(B3(a)) THEN <<B4(a), B3(a)>>
    ELSE IF ~HasTable(B2(a)) THEN <<B4(a), B3(a), B2(a)>>
    ELSE <<B4(a), B3(a), B2(a), B1(a)>>

UpperWalk(a) == PagesOwned => Path(a) = BootPath(a)

\* The kernel's own half stays as the boot loader mapped it.
LEMMA UpperWalks ==
  \A a \in KernelPages : UpperWalk(a)
<1> SUFFICES ASSUME NEW a \in KernelPages, PagesOwned PROVE Path(a) = BootPath(a)
  BY DEF UpperWalk
<1>1. PICK role, dad, idx : Tree(role, dad, idx)
  BY DEF PagesOwned
<1> DEFINE upper == Index \ LowerIndex
<1>0. BootMem \in [Words -> Entry] /\ CR3 \in Pages /\ TypeOK /\ upper \in SUBSET Index
  BY PagingAssumption, RootPage DEF PagesOwned
<1>2. a[1] \in Index /\ a[2] \in Index /\ a[3] \in Index /\ a[4] \in upper
  BY AddressTypes
<1>3. \A q \in UpperTables(BootMem) : q \in Pages /\ role[q] = NONE
  BY <1>0, <1>1, UpperSame
<1>4. \A q \in UpperTables(BootMem), i \in Index : mem[q + i] = BootMem[q + i]
  BY <1>1, <1>3 DEF Tree, Untouched
<1>5. E4(a) = B4(a)
  <2>1. role[CR3] = ROOT
    BY <1>0, <1>1 DEF Tree, Owners
  <2> QED BY <2>1, <1>0, <1>1, <1>2 DEF Tree, Untouched, E4, B4
<1>6. /\ L3Tables(BootMem, upper) \subseteq Pages /\ L2Tables(BootMem, upper) \subseteq Pages
  BY <1>0, TablesArePages
<1>7. HasTable(B4(a)) => Base(B4(a)) \in L3Tables(BootMem, upper)
  BY <1>2 DEF L3Tables, B4
<1>8. HasTable(B4(a)) => E3(a) = B3(a)
  BY <1>2, <1>4, <1>5, <1>7 DEF E3, B3, UpperTables
<1>9. HasTable(B4(a)) /\ HasTable(B3(a)) => Base(B3(a)) \in L2Tables(BootMem, upper)
  <2> SUFFICES ASSUME HasTable(B4(a)), HasTable(B3(a))
               PROVE  Base(B3(a)) \in L2Tables(BootMem, upper)
    OBVIOUS
  <2>1. Has(BootMem, Base(B4(a)), a[3]) /\ Goes(BootMem, Base(B4(a)), a[3]) = Base(B3(a))
    BY DEF Has, Goes, B3
  <2> QED BY <2>1, <1>0, <1>2, <1>6, <1>7, BelowIs DEF L2Tables
<1>10. HasTable(B4(a)) /\ HasTable(B3(a)) => E2(a) = B2(a)
  BY <1>2, <1>4, <1>8, <1>9 DEF E2, B2, UpperTables
<1>11. HasTable(B4(a)) /\ HasTable(B3(a)) /\ HasTable(B2(a)) => Base(B2(a)) \in L1Tables(BootMem, upper)
  <2> SUFFICES ASSUME HasTable(B4(a)), HasTable(B3(a)), HasTable(B2(a))
               PROVE  Base(B2(a)) \in L1Tables(BootMem, upper)
    OBVIOUS
  <2>1. Has(BootMem, Base(B3(a)), a[2]) /\ Goes(BootMem, Base(B3(a)), a[2]) = Base(B2(a))
    BY DEF Has, Goes, B2
  <2> QED BY <2>1, <1>0, <1>2, <1>6, <1>9, BelowIs DEF L1Tables
<1>12. HasTable(B4(a)) /\ HasTable(B3(a)) /\ HasTable(B2(a)) => E1(a) = B1(a)
  BY <1>2, <1>4, <1>10, <1>11 DEF E1, B1, UpperTables
<1>13. CASE ~HasTable(B4(a))
  BY <1>13, <1>5 DEF Path, BootPath
<1>14. CASE HasTable(B4(a)) /\ ~HasTable(B3(a))
  BY <1>14, <1>5, <1>8 DEF Path, BootPath
<1>15. CASE HasTable(B4(a)) /\ HasTable(B3(a)) /\ ~HasTable(B2(a))
  BY <1>15, <1>5, <1>8, <1>10 DEF Path, BootPath
<1>16. CASE HasTable(B4(a)) /\ HasTable(B3(a)) /\ HasTable(B2(a))
  BY <1>16, <1>5, <1>8, <1>10, <1>12 DEF Path, BootPath
<1> QED BY <1>13, <1>14, <1>15, <1>16

LEMMA UpperWalksNext ==
  \A a \in KernelPages : UpperWalk(a)'
<1>1. (\A a \in KernelPages : UpperWalk(a))'
  BY UpperWalks, PTL
<1> QED BY <1>1

\* No step changes what the processor makes of the upper half.
LEMMA UpperSteps ==
  ASSUME PagesOwned, PagesOwned', NEW a \in KernelPages
  PROVE  Access(a)' = Access(a) /\ Translation(a)' = Translation(a)
<1>1. Path(a) = BootPath(a)
  BY UpperWalks DEF UpperWalk
<1>3. Path(a)' = BootPath(a)
  BY UpperWalksNext DEF UpperWalk
<1>4. Path(a)' = Path(a)
  BY <1>1, <1>3
<1>5. Access(a)' = Access(a)
  BY <1>4 DEF Access
<1> QED BY <1>4, <1>5 DEF Translation
-----------------------------------------------------------------------------
(***************************************************************************)
(* vm_map's steps that enter a page.                                       *)
(***************************************************************************)

\* An entry that leads to the page just taken.
NewEntry(e, rights, page) == e.present /\ e.flags = rights /\ Base(e) = page

\* What entering a page does to the walk of an address, entry by entry: one
\* entry at most is new, and it was not present.
LEMMA EnterWalk ==
  ASSUME PagesOwned, pc = "map", ~mem[Slot].present, pmem_alloc,
         NEW rights \in SUBSET Flags, Enter(Slot, rights), NEW a \in UserPages
  PROVE  /\ \/ E4(a)' = E4(a)
            \/ /\ level = 4 /\ ~E4(a).present /\ table = CR3 /\ a[4] = address[4]
               /\ NewEntry(E4(a)', rights, freelist) /\ ~E3(a)'.present
         /\ E4(a).present =>
               /\ E4(a)' = E4(a)
               /\ \/ E3(a)' = E3(a)
                  \/ /\ level = 3 /\ ~E3(a).present /\ table = Base(E4(a)) /\ a[3] = address[3]
                     /\ NewEntry(E3(a)', rights, freelist) /\ ~E2(a)'.present
         /\ E4(a).present /\ E3(a).present =>
               /\ E3(a)' = E3(a)
               /\ \/ E2(a)' = E2(a)
                  \/ /\ level = 2 /\ ~E2(a).present /\ table = Base(E3(a)) /\ a[2] = address[2]
                     /\ NewEntry(E2(a)', rights, freelist) /\ ~E1(a)'.present
         /\ E4(a).present /\ E3(a).present /\ E2(a).present =>
               /\ E2(a)' = E2(a)
               /\ \/ E1(a)' = E1(a)
                  \/ /\ level = 1 /\ ~E1(a).present /\ table = Base(E2(a)) /\ a[1] = address[1]
                     /\ NewEntry(E1(a)', rights, freelist)
<1>0. TypeOK /\ FreelistIntact /\ mem \in [Words -> Entry]
  BY DEF PagesOwned, TypeOK
<1>1. PICK role, dad, idx : Tree(role, dad, idx)
  BY DEF PagesOwned
<1>2. /\ table \in Pages /\ role[table] = level /\ level \in 1..4
      /\ address[level] \in Index /\ Slot = table + address[level]
  BY <1>0, <1>1, SlotFacts
<1>3. freelist \in Pages /\ role[freelist] = FREE /\ freelist # table
  <2>1. freelist \in Frames /\ freelist \in ToSet(free)
    BY <1>0, AllocFacts
  <2>2. freelist \in Pages /\ role[freelist] = FREE
    BY <2>1, <1>1 DEF Tree, Owners, Pages
  <2> QED BY <2>2, <1>2 DEF FREE
<1>4. PICK t, i, f : t = table /\ i = address[level] /\ f = freelist
  OBVIOUS
<1>5. /\ \A s \in Pages, j \in Index : s # f /\ ~(s = t /\ j = i) => mem'[s + j] = mem[s + j]
      /\ \A j \in Index : mem'[f + j] = Link(NULL)
      /\ mem'[t + i].present /\ mem'[t + i].flags = rights /\ Base(mem'[t + i]) = f
  <2>1. /\ freelist \in Pages /\ t \in Pages /\ i \in Index /\ t # freelist /\ Enter(t + i, rights)
    BY <1>2, <1>3, <1>4
  <2> QED BY <1>0, <1>4, <2>1, EnterFacts
<1>6. ASSUME NEW s \in Pages, NEW j \in Index, role[s] \in 1..4
      PROVE  \/ mem'[s + j] = mem[s + j]
             \/ /\ level = role[s] /\ table = s /\ address[level] = j /\ ~mem[s + j].present
                /\ NewEntry(mem'[s + j], rights, f)
  <2>1. s # f
    BY <1>3, <1>4, <1>6 DEF FREE
  <2>2. CASE s = t /\ j = i
    BY <2>2, <1>2, <1>4, <1>5 DEF NewEntry
  <2>3. CASE ~(s = t /\ j = i)
    BY <2>1, <2>3, <1>5
  <2> QED BY <2>2, <2>3
<1>7. \A j \in Index : ~mem'[f + j].present
  BY <1>5 DEF Link
<1>8. /\ a[1] \in Index /\ a[2] \in Index /\ a[3] \in Index /\ a[4] \in Index
  BY AddressTypes
<1>9. Base(E4(a)) \in Pages /\ Base(E3(a)) \in Pages /\ Base(E2(a)) \in Pages /\ CR3 \in Pages
  BY <1>0, WalkTypes, RootPage
<1>10. pc \in Calls
  BY DEF Calls
<1>11. /\ role[CR3] = 4
       /\ E4(a).present => role[Base(E4(a))] = 3
       /\ E4(a).present /\ E3(a).present => role[Base(E3(a))] = 2
       /\ E4(a).present /\ E3(a).present /\ E2(a).present => role[Base(E2(a))] = 1
  BY <1>0, <1>1, <1>10, WalkRoles, SmallWalk
<1>12. \/ E4(a)' = E4(a)
       \/ /\ level = 4 /\ ~E4(a).present /\ table = CR3 /\ a[4] = address[4]
          /\ NewEntry(E4(a)', rights, f) /\ ~E3(a)'.present
  <2>1. \/ E4(a)' = E4(a)
        \/ /\ level = 4 /\ ~E4(a).present /\ table = CR3 /\ a[4] = address[4]
           /\ NewEntry(E4(a)', rights, f)
    BY <1>6, <1>8, <1>9, <1>11 DEF E4
  <2>2. NewEntry(E4(a)', rights, f) => ~E3(a)'.present
    BY <1>7, <1>8 DEF NewEntry, E3
  <2> QED BY <2>1, <2>2
<1>13. E4(a).present =>
         /\ E4(a)' = E4(a)
         /\ \/ E3(a)' = E3(a)
            \/ /\ level = 3 /\ ~E3(a).present /\ table = Base(E4(a)) /\ a[3] = address[3]
               /\ NewEntry(E3(a)', rights, f) /\ ~E2(a)'.present
  <2> SUFFICES ASSUME E4(a).present
               PROVE  /\ E4(a)' = E4(a)
                      /\ \/ E3(a)' = E3(a)
                         \/ /\ level = 3 /\ ~E3(a).present /\ table = Base(E4(a)) /\ a[3] = address[3]
                            /\ NewEntry(E3(a)', rights, f) /\ ~E2(a)'.present
    OBVIOUS
  <2>1. E4(a)' = E4(a)
    BY <1>12
  <2>2. \/ E3(a)' = E3(a)
        \/ /\ level = 3 /\ ~E3(a).present /\ table = Base(E4(a)) /\ a[3] = address[3]
           /\ NewEntry(E3(a)', rights, f)
    BY <2>1, <1>6, <1>8, <1>9, <1>11 DEF E3
  <2>3. NewEntry(E3(a)', rights, f) => ~E2(a)'.present
    BY <1>7, <1>8 DEF NewEntry, E2
  <2> QED BY <2>1, <2>2, <2>3
<1>14. E4(a).present /\ E3(a).present =>
         /\ E3(a)' = E3(a)
         /\ \/ E2(a)' = E2(a)
            \/ /\ level = 2 /\ ~E2(a).present /\ table = Base(E3(a)) /\ a[2] = address[2]
               /\ NewEntry(E2(a)', rights, f) /\ ~E1(a)'.present
  <2> SUFFICES ASSUME E4(a).present, E3(a).present
               PROVE  /\ E3(a)' = E3(a)
                      /\ \/ E2(a)' = E2(a)
                         \/ /\ level = 2 /\ ~E2(a).present /\ table = Base(E3(a)) /\ a[2] = address[2]
                            /\ NewEntry(E2(a)', rights, f) /\ ~E1(a)'.present
    OBVIOUS
  <2>1. E3(a)' = E3(a)
    BY <1>13
  <2>2. \/ E2(a)' = E2(a)
        \/ /\ level = 2 /\ ~E2(a).present /\ table = Base(E3(a)) /\ a[2] = address[2]
           /\ NewEntry(E2(a)', rights, f)
    BY <2>1, <1>6, <1>8, <1>9, <1>11 DEF E2
  <2>3. NewEntry(E2(a)', rights, f) => ~E1(a)'.present
    BY <1>7, <1>8 DEF NewEntry, E1
  <2> QED BY <2>1, <2>2, <2>3
<1>15. E4(a).present /\ E3(a).present /\ E2(a).present =>
         /\ E2(a)' = E2(a)
         /\ \/ E1(a)' = E1(a)
            \/ /\ level = 1 /\ ~E1(a).present /\ table = Base(E2(a)) /\ a[1] = address[1]
               /\ NewEntry(E1(a)', rights, f)
  <2> SUFFICES ASSUME E4(a).present, E3(a).present, E2(a).present
               PROVE  /\ E2(a)' = E2(a)
                      /\ \/ E1(a)' = E1(a)
                         \/ /\ level = 1 /\ ~E1(a).present /\ table = Base(E2(a)) /\ a[1] = address[1]
                            /\ NewEntry(E1(a)', rights, f)
    OBVIOUS
  <2>1. E2(a)' = E2(a)
    BY <1>14
  <2>2. \/ E1(a)' = E1(a)
        \/ /\ level = 1 /\ ~E1(a).present /\ table = Base(E2(a)) /\ a[1] = address[1]
           /\ NewEntry(E1(a)', rights, f)
    BY <2>1, <1>6, <1>8, <1>9, <1>11 DEF E1
  <2> QED BY <2>1, <2>2
<1> QED BY <1>4, <1>12, <1>13, <1>14, <1>15

\* The entry that the walk looks at, as an entry of its address.
LEMMA SlotEntry ==
  ASSUME PagesOwned, Reached, pc \in {"map", "protect"}, NEW a, a = address
  PROVE  /\ a \in UserPages /\ level \in 1..4
         /\ level = 4 => Slot = CR3 + a[4] /\ mem[Slot] = E4(a)
         /\ level = 3 => Slot = Base(E4(a)) + a[3] /\ mem[Slot] = E3(a)
         /\ level = 2 => Slot = Base(E3(a)) + a[2] /\ mem[Slot] = E2(a)
         /\ level = 1 => Slot = Base(E2(a)) + a[1] /\ mem[Slot] = E1(a)
         /\ level < 4 => E4(a).present
         /\ level < 3 => E3(a).present
         /\ level < 2 => E2(a).present
<1>1. a \in UserPages /\ level \in 1..4
  BY DEF PagesOwned, TypeOK
<1> QED BY <1>1 DEF Reached, Slot, E4, E3, E2, E1

\* The entry that vm_map writes leads to the page it was given.
LEMMA SlotWritten ==
  ASSUME PagesOwned, pc = "map", pmem_alloc,
         NEW rights \in SUBSET Flags, Enter(Slot, rights), NEW w, w = Slot
  PROVE  NewEntry(mem'[w], rights, freelist)
<1>0. TypeOK /\ FreelistIntact
  BY DEF PagesOwned
<1>1. PICK role, dad, idx : Tree(role, dad, idx)
  BY DEF PagesOwned
<1>2. PICK t, i : t = table /\ i = address[level]
  OBVIOUS
<1>3. t \in Pages /\ role[t] = level /\ level \in 1..4 /\ i \in Index /\ w = t + i
  BY <1>0, <1>1, <1>2, SlotFacts
<1>4. freelist \in Frames /\ freelist \in ToSet(free)
  BY <1>0, AllocFacts
<1>5. freelist \in Pages /\ t # freelist
  BY <1>1, <1>3, <1>4 DEF Tree, Owners, Pages, FREE
<1>6. Enter(t + i, rights)
  BY <1>3
<1> QED BY <1>0, <1>3, <1>5, <1>6, EnterFacts DEF NewEntry

\* A page of the lower half that is cached has all its entries.
LEMMA CachedPresent ==
  ASSUME Translated, pc \in Calls, NEW t \in tlb
  PROVE  /\ t.page \in UserPages \cup KernelPages /\ t = Translation(t.page)
         /\ t.page \in UserPages => Present(t.page)
<1>1. t.page \in UserPages \cup KernelPages
  BY DEF Translated, PagesOwned, TypeOK
<1>2. t = Translation(t.page)
  BY DEF Translated, TlbCoherent, Calls
<1>3. PICK a : a = t.page
  OBVIOUS
<1>4. t.access = Access(a)
  BY <1>2, <1>3 DEF Translation
<1>5. Access(a) # {}
  BY <1>4 DEF Translated, Cached
<1>6. a \in UserPages => Present(a)
  BY <1>5, LowerWalks DEF LowerWalk, Translated
<1> QED BY <1>1, <1>2, <1>3, <1>6

\* The cache stays coherent if no page in it changes.
LEMMA CoherentNext ==
  ASSUME Translated, PagesOwned', pc \in Calls, pc' # "scan", tlb' \subseteq tlb,
         \A t \in tlb' : t.page \in UserPages => Translation(t.page)' = Translation(t.page)
  PROVE  Cached' /\ TlbCoherent'
<1>1. ASSUME NEW t \in tlb'
      PROVE  t = Translation(t.page)' /\ t.access # {}
  <2>1. t \in tlb
    BY <1>1
  <2>2. t.page \in UserPages \cup KernelPages /\ t = Translation(t.page)
    BY <2>1, CachedPresent
  <2>3. t.page \in KernelPages => Translation(t.page)' = Translation(t.page)
    BY UpperSteps DEF Translated
  <2>4. t.access # {}
    BY <2>1 DEF Translated, Cached
  <2> QED BY <2>2, <2>3, <2>4, <1>1
<1> QED BY <1>1 DEF Cached, TlbCoherent

\* A table is added: nothing changes for the processor.
LEMMA MapTableWalk ==
  ASSUME Translated, MapTable, NEW a \in UserPages
  PROVE  /\ Access(a)' = Access(a)
         /\ Present(a) => Translation(a)' = Translation(a)
<1>1. /\ PagesOwned /\ pc = "map" /\ pc' = "map" /\ ~mem[Slot].present /\ pmem_alloc
      /\ Enter(Slot, Flags) /\ level > 1 /\ Flags \in SUBSET Flags
  BY DEF MapTable, Translated
<1>2. PagesOwned'
  BY <1>1, MapTableOwned
<1>3. CASE Present(a)
  <2>1. E4(a)' = E4(a) /\ E3(a)' = E3(a) /\ E2(a)' = E2(a)
    BY <1>1, <1>3, EnterWalk DEF Present
  <2>2. E1(a)' = E1(a)
    BY <1>1, <1>3, EnterWalk DEF Present
  <2> QED BY <2>1, <2>2, SameWalk
<1>4. CASE ~Present(a)
  <2>1. ~Present(a)'
    <3> SUFFICES ASSUME Present(a)' PROVE FALSE
      OBVIOUS
    <3>1. E4(a)'.present /\ E3(a)'.present /\ E2(a)'.present /\ E1(a)'.present
      BY DEF Present
    <3>2. E4(a)' = E4(a) /\ E4(a).present
      BY <3>1, <1>1, EnterWalk
    <3>3. E3(a)' = E3(a) /\ E3(a).present
      BY <3>1, <3>2, <1>1, EnterWalk
    <3>4. E2(a)' = E2(a) /\ E2(a).present
      BY <3>1, <3>2, <3>3, <1>1, EnterWalk
    <3>5. E1(a)' = E1(a)
      BY <3>2, <3>3, <3>4, <1>1, EnterWalk
    <3> QED BY <3>1, <3>2, <3>3, <3>4, <3>5, <1>4 DEF Present
  <2>2. Access(a) = {}
    BY <1>1, <1>4, LowerWalks DEF LowerWalk, Calls
  <2>3. Access(a)' = {}
    BY <1>1, <1>2, <2>1, LowerWalksNext DEF LowerWalk, Calls
  <2> QED BY <1>4, <2>2, <2>3
<1> QED BY <1>3, <1>4

\* ... and the walk goes on in the new table.
LEMMA MapTableTranslated ==
  ASSUME Translated, MapTable
  PROVE  Translated'
<1>1. /\ PagesOwned /\ Reached /\ Granted /\ pc = "map" /\ pc' = "map" /\ ~mem[Slot].present
      /\ pmem_alloc /\ Enter(Slot, Flags) /\ level > 1 /\ Flags \in SUBSET Flags
      /\ table' = freelist /\ level' = level - 1 /\ address' = address /\ tlb' = tlb
  BY DEF MapTable, Translated
<1>2. PagesOwned'
  BY <1>1, MapTableOwned
<1>3. PICK a : a = address
  OBVIOUS
<1>4. PICK w : w = Slot
  OBVIOUS
<1>5. /\ a \in UserPages /\ level \in 2..4
      /\ level = 4 => w = CR3 + a[4] /\ ~E4(a).present
      /\ level = 3 => w = Base(E4(a)) + a[3] /\ ~E3(a).present
      /\ level = 2 => w = Base(E3(a)) + a[2] /\ ~E2(a).present
      /\ level < 4 => E4(a).present
      /\ level < 3 => E3(a).present
  BY <1>1, <1>3, <1>4, SlotEntry
<1>6. mem'[w].present /\ Base(mem'[w]) = freelist
  BY <1>1, <1>4, SlotWritten DEF NewEntry
<1>7. Reached'
  <2>1. CASE level = 4
    <3>1. E4(a)' = mem'[w]
      BY <2>1, <1>5 DEF E4
    <3> QED BY <3>1, <2>1, <1>1, <1>3, <1>6 DEF Reached
  <2>2. CASE level = 3
    <3>1. E4(a).present /\ E4(a)' = E4(a)
      BY <2>2, <1>1, <1>5, EnterWalk
    <3>2. E3(a)' = mem'[w]
      BY <2>2, <1>5, <3>1 DEF E3
    <3> QED BY <3>1, <3>2, <2>2, <1>1, <1>3, <1>6 DEF Reached
  <2>3. CASE level = 2
    <3>1. E4(a).present /\ E4(a)' = E4(a) /\ E3(a).present /\ E3(a)' = E3(a)
      BY <2>3, <1>1, <1>5, EnterWalk
    <3>2. E2(a)' = mem'[w]
      BY <2>3, <1>5, <3>1 DEF E2
    <3> QED BY <3>1, <3>2, <2>3, <1>1, <1>3, <1>6 DEF Reached
  <2> QED BY <1>5, <2>1, <2>2, <2>3
<1>8. Granted'
  <2> SUFFICES ASSUME NEW b \in UserPages, E4(b)'.present
               PROVE  /\ E4(b)'.flags = Flags
                      /\ E3(b)'.present =>
                            /\ E3(b)'.flags = Flags
                            /\ E2(b)'.present => E2(b)'.flags = Flags
    BY DEF Granted
  <2>0. E4(b).present => /\ E4(b).flags = Flags
                         /\ E3(b).present => /\ E3(b).flags = Flags
                                             /\ E2(b).present => E2(b).flags = Flags
    BY <1>1 DEF Granted, Calls
  <2>1. /\ \/ E4(b)' = E4(b)
           \/ E4(b)'.flags = Flags /\ ~E3(b)'.present
        /\ E4(b).present =>
              /\ E4(b)' = E4(b)
              /\ \/ E3(b)' = E3(b)
                 \/ E3(b)'.flags = Flags /\ ~E2(b)'.present
        /\ E4(b).present /\ E3(b).present =>
              /\ E3(b)' = E3(b)
              /\ \/ E2(b)' = E2(b)
                 \/ E2(b)'.flags = Flags
    BY <1>1, EnterWalk DEF NewEntry
  <2> QED BY <2>0, <2>1
<1>9. Cached' /\ TlbCoherent'
  <2>1. \A t \in tlb' : t.page \in UserPages => Translation(t.page)' = Translation(t.page)
    BY <1>1, CachedPresent, MapTableWalk DEF Calls
  <2> QED BY <2>1, <1>1, <1>2, CoherentNext DEF Calls
<1> QED BY <1>2, <1>7, <1>8, <1>9 DEF Translated
-----------------------------------------------------------------------------
(***************************************************************************)
(* vm_map and vm_protect change one page, their own.                       *)
(***************************************************************************)

\* Two addresses with the same last entry are the same.
LEMMA SameAddress ==
  ASSUME PagesOwned, pc \in Calls, NEW a \in UserPages, NEW b \in UserPages,
         E4(a).present /\ E3(a).present /\ E2(a).present,
         E4(b).present /\ E3(b).present /\ E2(b).present,
         Base(E2(a)) = Base(E2(b)), a[1] = b[1]
  PROVE  a = b
<1>0. TypeOK
  BY DEF PagesOwned
<1>1. PICK role, dad, idx : Tree(role, dad, idx)
  BY DEF PagesOwned
<1>2. /\ HasTable(E4(a)) /\ HasTable(E3(a)) /\ HasTable(E2(a))
      /\ HasTable(E4(b)) /\ HasTable(E3(b)) /\ HasTable(E2(b))
  BY <1>0, <1>1, SmallWalk
<1>3. a[2] = b[2] /\ Base(E3(a)) = Base(E3(b))
  BY <1>0, <1>1, <1>2, WalkRoles
<1>4. a[3] = b[3] /\ Base(E4(a)) = Base(E4(b))
  BY <1>0, <1>1, <1>2, <1>3, WalkRoles
<1>5. a[4] = b[4]
  BY <1>0, <1>1, <1>2, <1>4, WalkRoles
<1>6. a \in [1..4 -> Index] /\ b \in [1..4 -> Index]
  BY AddressTypes
<1>7. \A k \in 1..4 : a[k] = b[k]
  BY <1>3, <1>4, <1>5
<1> QED BY <1>6, <1>7

\* The rights at the last level decide when the tables above grant them all.
LEMMA LastDecides ==
  ASSUME NEW a, NEW rights \in SUBSET Flags,
         E4(a).flags = Flags, E3(a).flags = Flags, E2(a).flags = Flags, E1(a).flags = rights
  PROVE  {"read"} \cup {f \in Flags : f \in E4(a).flags /\ f \in E3(a).flags
                                      /\ f \in E2(a).flags /\ f \in E1(a).flags}
            = {"read"} \cup rights
OBVIOUS

\* vm_map maps the page it was asked for, with the rights it was asked for.
LEMMA MapPageWalk ==
  ASSUME Translated, MapPage, NEW b, b = address
  PROVE  /\ Access(b) = {} /\ Access(b)' = {"read"} \cup flags
         /\ \A a \in UserPages \ {b} : /\ Access(a)' = Access(a)
                                       /\ Present(a) => Translation(a)' = Translation(a)
         /\ Granted'
<1>1. /\ PagesOwned /\ Reached /\ Granted /\ pc = "map" /\ pc' = "idle" /\ ~mem[Slot].present
      /\ pmem_alloc /\ Enter(Slot, flags) /\ level = 1
  BY DEF MapPage, Return, Translated
<1>2. PagesOwned' /\ flags \in SUBSET Flags /\ flags' = flags
  BY <1>1, MapPageOwned DEF Translated, PagesOwned, TypeOK, MapPage, Return, walk
<1>3. PICK w : w = Slot
  OBVIOUS
<1>4. /\ b \in UserPages /\ w = Base(E2(b)) + b[1] /\ ~E1(b).present
      /\ E4(b).present /\ E3(b).present /\ E2(b).present /\ table = Base(E2(b))
  BY <1>1, <1>3, SlotEntry DEF Reached
<1>5. PICK rights : rights = flags
  OBVIOUS
<1>6. mem'[w].present /\ mem'[w].flags = rights
  BY <1>1, <1>2, <1>3, <1>5, SlotWritten DEF NewEntry
<1>7. E4(b)' = E4(b) /\ E3(b)' = E3(b) /\ E2(b)' = E2(b)
  BY <1>1, <1>2, <1>4, EnterWalk
<1>8. E1(b)' = mem'[w]
  BY <1>4, <1>7 DEF E1
<1>9. Access(b) = {}
  BY <1>1, <1>4, LowerWalks DEF LowerWalk, Calls, Present
<1>10. E4(b).flags = Flags /\ E3(b).flags = Flags /\ E2(b).flags = Flags
  BY <1>1, <1>4 DEF Granted, Calls
<1>11. Access(b)' = {"read"} \cup rights
  <2>1. Present(b)'
    BY <1>4, <1>6, <1>7, <1>8 DEF Present
  <2>2. Access(b)' = {"read"} \cup {f \in Flags : f \in E4(b)'.flags /\ f \in E3(b)'.flags
                                                  /\ f \in E2(b)'.flags /\ f \in E1(b)'.flags}
    BY <1>1, <1>2, <1>4, <2>1, LowerWalksNext DEF LowerWalk, Calls
  <2> QED BY <2>2, <1>2, <1>5, <1>6, <1>7, <1>8, <1>10
<1>12. ASSUME NEW a \in UserPages \ {b}
       PROVE  /\ Access(a)' = Access(a)
              /\ Present(a) => Translation(a)' = Translation(a)
  <2>1. /\ \/ E4(a)' = E4(a)
        /\ E4(a).present => E3(a)' = E3(a)
        /\ E4(a).present /\ E3(a).present => E2(a)' = E2(a)
        /\ E4(a).present /\ E3(a).present /\ E2(a).present =>
              \/ E1(a)' = E1(a)
              \/ table = Base(E2(a)) /\ a[1] = address[1]
    BY <1>1, <1>2, EnterWalk
  <2>2. E4(a).present /\ E3(a).present /\ E2(a).present => E1(a)' = E1(a)
    <3> SUFFICES ASSUME E4(a).present, E3(a).present, E2(a).present, E1(a)' # E1(a)
                 PROVE  FALSE
      OBVIOUS
    <3>1. Base(E2(a)) = Base(E2(b)) /\ a[1] = b[1]
      BY <2>1, <1>4
    <3>2. a = b
      BY <3>1, <1>1, <1>4, SameAddress DEF Calls
    <3> QED BY <3>2
  <2> QED BY <2>1, <2>2, SameWalk DEF HasTable
<1>13. Granted'
  <2> SUFFICES ASSUME NEW a \in UserPages, E4(a)'.present
               PROVE  /\ E4(a)'.flags = Flags
                      /\ E3(a)'.present =>
                            /\ E3(a)'.flags = Flags
                            /\ E2(a)'.present => E2(a)'.flags = Flags
    BY DEF Granted
  <2>0. E4(a).present => /\ E4(a).flags = Flags
                         /\ E3(a).present => /\ E3(a).flags = Flags
                                             /\ E2(a).present => E2(a).flags = Flags
    BY <1>1 DEF Granted, Calls
  <2>1. /\ E4(a)' = E4(a)
        /\ E4(a).present => E3(a)' = E3(a)
        /\ E4(a).present /\ E3(a).present => E2(a)' = E2(a)
    BY <1>1, <1>2, EnterWalk
  <2> QED BY <2>0, <2>1
<1> QED BY <1>5, <1>9, <1>11, <1>12, <1>13

LEMMA MapPageTranslated ==
  ASSUME Translated, MapPage
  PROVE  Translated'
<1>1. PICK b : b = address
  OBVIOUS
<1>2. /\ \A a \in UserPages \ {b} : Present(a) => Translation(a)' = Translation(a)
      /\ Granted'
  BY <1>1, MapPageWalk
<1>3. pc = "map" /\ pc' = "idle" /\ tlb' = {t \in tlb : t.page # b}
  BY <1>1 DEF MapPage, Return, invalidate_tlb
<1>4. PagesOwned'
  BY MapPageOwned DEF Translated
<1>5. \A t \in tlb' : t.page \in UserPages => Translation(t.page)' = Translation(t.page)
  BY <1>2, <1>3, CachedPresent DEF Calls
<1>6. Cached' /\ TlbCoherent'
  BY <1>3, <1>4, <1>5, CoherentNext DEF Calls
<1>7. Reached'
  BY <1>3 DEF Reached
<1> QED BY <1>2, <1>4, <1>6, <1>7 DEF Translated

\* vm_protect changes the rights of the page it was asked for.
LEMMA ProtectWalk ==
  ASSUME Translated, ProtectPage, NEW b, b = address
  PROVE  /\ Access(b) # {} /\ Access(b)' = {"read"} \cup flags
         /\ Translation(b)'.base = Translation(b).base
         /\ \A a \in UserPages \ {b} : /\ Access(a)' = Access(a)
                                       /\ Present(a) => Translation(a)' = Translation(a)
         /\ Granted'
<1>0. TypeOK /\ PagesOwned /\ Reached /\ Granted /\ mem \in [Words -> Entry]
  BY DEF Translated, PagesOwned, TypeOK
<1>1. /\ pc = "protect" /\ pc' = "idle" /\ mem[Slot].present /\ level = 1
      /\ mem' = [mem EXCEPT ![Slot].flags = flags] /\ flags' = flags
  BY DEF ProtectPage, Return, walk
<1>2. PagesOwned' /\ flags \in SUBSET Flags
  BY <1>0, ProtectOwned DEF TypeOK
<1>3. PICK role, dad, idx : Tree(role, dad, idx)
  BY <1>0 DEF PagesOwned
<1>4. PICK t, i, rights : t = table /\ i = address[1] /\ rights = flags
  OBVIOUS
<1>5. t \in Pages /\ role[t] = 1 /\ i \in Index /\ Slot = t + i
  BY <1>0, <1>1, <1>3, <1>4, SlotFacts
<1>6. /\ \A s \in Pages, j \in Index : ~(s = t /\ j = i) => mem'[s + j] = mem[s + j]
      /\ mem'[t + i].flags = rights /\ mem'[t + i].present = mem[t + i].present
      /\ mem'[t + i].address = mem[t + i].address
  <2>1. mem' = [mem EXCEPT ![t + i].flags = rights] /\ rights \in SUBSET Flags
    BY <1>1, <1>2, <1>4, <1>5
  <2>2. TypeOK /\ t \in Pages /\ i \in Index
    BY <1>0, <1>5
  <2>3. /\ mem' \in [Words -> Entry]
        /\ \A s \in Pages, j \in Index : ~(s = t /\ j = i) => mem'[s + j] = mem[s + j]
        /\ mem'[t + i].flags = rights /\ mem'[t + i].address = mem[t + i].address
        /\ mem'[t + i].present = mem[t + i].present
        /\ mem'[t + i].page_size = mem[t + i].page_size
    BY <2>1, <2>2, RightsFacts
  <2> QED BY <2>3
<1>7. /\ b \in UserPages /\ Slot = Base(E2(b)) + b[1] /\ E1(b).present
      /\ E4(b).present /\ E3(b).present /\ E2(b).present /\ t = Base(E2(b)) /\ i = b[1]
  BY <1>0, <1>1, <1>4, SlotEntry DEF Reached
<1>8. ASSUME NEW a \in UserPages
      PROVE  /\ E4(a)' = E4(a)
             /\ E4(a).present => E3(a)' = E3(a)
             /\ E4(a).present /\ E3(a).present => E2(a)' = E2(a)
             /\ E4(a).present /\ E3(a).present /\ E2(a).present /\ a # b => E1(a)' = E1(a)
  <2>1. a[1] \in Index /\ a[2] \in Index /\ a[3] \in Index /\ a[4] \in Index
    BY AddressTypes
  <2>2. Base(E4(a)) \in Pages /\ Base(E3(a)) \in Pages /\ Base(E2(a)) \in Pages /\ CR3 \in Pages
    BY <1>0, WalkTypes, RootPage
  <2>3. /\ role[CR3] = 4
        /\ E4(a).present => role[Base(E4(a))] = 3
        /\ E4(a).present /\ E3(a).present => role[Base(E3(a))] = 2
    BY <1>0, <1>1, <1>3, WalkRoles, SmallWalk DEF Calls
  <2>4. E4(a)' = E4(a)
    BY <2>1, <2>2, <2>3, <1>5, <1>6 DEF E4
  <2>5. E4(a).present => E3(a)' = E3(a)
    BY <2>1, <2>2, <2>3, <2>4, <1>5, <1>6 DEF E3
  <2>6. E4(a).present /\ E3(a).present => E2(a)' = E2(a)
    BY <2>1, <2>2, <2>3, <2>5, <1>5, <1>6 DEF E2
  <2>7. E4(a).present /\ E3(a).present /\ E2(a).present /\ a # b => E1(a)' = E1(a)
    <3> SUFFICES ASSUME E4(a).present, E3(a).present, E2(a).present, a # b
                 PROVE  E1(a)' = E1(a)
      OBVIOUS
    <3>1. ~(Base(E2(a)) = t /\ a[1] = i)
      BY <1>0, <1>1, <1>7, SameAddress DEF Calls
    <3>2. mem'[Base(E2(a)) + a[1]] = mem[Base(E2(a)) + a[1]]
      BY <3>1, <1>6, <2>1, <2>2
    <3> QED BY <3>2, <2>6 DEF E1
  <2> QED BY <2>4, <2>5, <2>6, <2>7
<1>9. Access(b) # {}
  BY <1>0, <1>1, <1>7, LowerWalks DEF LowerWalk, Calls, Present
<1>10. E4(b).flags = Flags /\ E3(b).flags = Flags /\ E2(b).flags = Flags
  BY <1>0, <1>1, <1>7 DEF Granted, Calls
<1>11. Access(b)' = {"read"} \cup rights /\ Translation(b)'.base = Translation(b).base
  <2>0. E4(b)' = E4(b) /\ E3(b)' = E3(b) /\ E2(b)' = E2(b)
    BY <1>7, <1>8
  <2>1. E1(b)' = mem'[t + i] /\ mem[t + i].present
    BY <2>0, <1>1, <1>5, <1>7 DEF E1
  <2>2. Present(b)' /\ E1(b)'.flags = rights
    BY <2>0, <2>1, <1>6, <1>7 DEF Present
  <2>3. Access(b)' = {"read"} \cup {f \in Flags : f \in E4(b)'.flags /\ f \in E3(b)'.flags
                                                  /\ f \in E2(b)'.flags /\ f \in E1(b)'.flags}
    BY <1>1, <1>2, <1>7, <2>2, LowerWalksNext DEF LowerWalk, Calls
  <2>4. Access(b)' = {"read"} \cup rights
    BY <2>0, <2>2, <2>3, <1>2, <1>4, <1>10
  <2>5. Translation(b)'.base = Base(E1(b)') /\ Translation(b).base = Base(E1(b))
    BY <1>0, <1>1, <1>2, <1>7, <2>2, LowerWalks, LowerWalksNext DEF LowerWalk, Calls, Present
  <2>6. Base(E1(b)') = Base(E1(b))
    BY <2>1, <1>5, <1>6, <1>7 DEF Base, E1
  <2> QED BY <2>4, <2>5, <2>6
<1>12. ASSUME NEW a \in UserPages \ {b}
       PROVE  Access(a)' = Access(a) /\ Translation(a)' = Translation(a)
  BY <1>8, SameWalk DEF HasTable
<1>13. Granted'
  <2> SUFFICES ASSUME NEW a \in UserPages, E4(a)'.present
               PROVE  /\ E4(a)'.flags = Flags
                      /\ E3(a)'.present =>
                            /\ E3(a)'.flags = Flags
                            /\ E2(a)'.present => E2(a)'.flags = Flags
    BY DEF Granted
  <2>0. E4(a).present => /\ E4(a).flags = Flags
                         /\ E3(a).present => /\ E3(a).flags = Flags
                                             /\ E2(a).present => E2(a).flags = Flags
    BY <1>0, <1>1 DEF Granted, Calls
  <2>1. /\ E4(a)' = E4(a)
        /\ E4(a).present => E3(a)' = E3(a)
        /\ E4(a).present /\ E3(a).present => E2(a)' = E2(a)
    BY <1>8
  <2> QED BY <2>0, <2>1
<1> QED BY <1>4, <1>9, <1>11, <1>12, <1>13

LEMMA ProtectTranslated ==
  ASSUME Translated, ProtectPage
  PROVE  Translated'
<1>1. PICK b : b = address
  OBVIOUS
<1>2. /\ \A a \in UserPages \ {b} : Present(a) => Translation(a)' = Translation(a)
      /\ Granted'
  BY <1>1, ProtectWalk
<1>3. pc = "protect" /\ pc' = "idle" /\ tlb' = {t \in tlb : t.page # b}
  BY <1>1 DEF ProtectPage, Return, invalidate_tlb
<1>4. PagesOwned'
  BY ProtectOwned DEF Translated
<1>5. \A t \in tlb' : t.page \in UserPages => Translation(t.page)' = Translation(t.page)
  BY <1>2, <1>3, CachedPresent DEF Calls
<1>6. Cached' /\ TlbCoherent'
  BY <1>3, <1>4, <1>5, CoherentNext DEF Calls
<1>7. Reached'
  BY <1>3 DEF Reached
<1> QED BY <1>2, <1>4, <1>6, <1>7 DEF Translated
-----------------------------------------------------------------------------
(***************************************************************************)
(* The other steps.                                                        *)
(***************************************************************************)

\* A walk depends on memory alone.
LEMMA SameMemory ==
  ASSUME UNCHANGED mem, NEW a
  PROVE  /\ E4(a)' = E4(a) /\ E3(a)' = E3(a) /\ E2(a)' = E2(a) /\ E1(a)' = E1(a)
         /\ Access(a)' = Access(a) /\ Translation(a)' = Translation(a)
<1>1. E4(a)' = E4(a) /\ E3(a)' = E3(a) /\ E2(a)' = E2(a) /\ E1(a)' = E1(a)
  BY DEF E4, E3, E2, E1
<1> QED BY <1>1, SameWalk

\* A step between or in calls that does not write to memory.
LEMMA QuietTranslated ==
  ASSUME Translated, PagesOwned', UNCHANGED <<mem, tlb>>, pc \in Calls, pc' \in Calls, Reached'
  PROVE  Translated'
<1>1. Granted'
  <2>1. \A a \in UserPages : E4(a)' = E4(a) /\ E3(a)' = E3(a) /\ E2(a)' = E2(a)
    BY SameMemory
  <2> QED BY <2>1 DEF Granted, Translated
<1>2. \A t \in tlb' : t.page \in UserPages => Translation(t.page)' = Translation(t.page)
  BY SameMemory
<1>3. Cached' /\ TlbCoherent'
  <2>1. pc' # "scan" /\ tlb' \subseteq tlb
    BY DEF Calls
  <2> QED BY <2>1, <1>2, CoherentNext
<1> QED BY <1>1, <1>3 DEF Translated

\* A call of vm_map or vm_protect.
LEMMA StartTranslated ==
  ASSUME Translated, NEW f \in {"map", "protect"}, NEW a \in UserPages,
         NEW rights \in SUBSET Flags, Start(f, a, rights)
  PROVE  Translated'
<1>1. PagesOwned'
  BY StartOwned DEF Translated
<1>2. Reached'
  BY DEF Start, Reached
<1>3. UNCHANGED <<mem, tlb>> /\ pc \in Calls /\ pc' \in Calls
  BY DEF Start, memory, Calls
<1> QED BY <1>1, <1>2, <1>3, QuietTranslated

\* The next table of the walk is the processor's next table.
LEMMA DescendTranslated ==
  ASSUME Translated, Descend
  PROVE  Translated'
<1>1. PagesOwned' /\ PagesOwned /\ Reached
  BY DescendOwned DEF Translated
<1>2. /\ UNCHANGED <<mem, tlb, pc, address>> /\ pc \in {"map", "protect"} /\ mem[Slot].present
      /\ level > 1 /\ table' = Base(mem[Slot]) /\ level' = level - 1
  BY DEF Descend, memory
<1>3. PICK a : a = address
  OBVIOUS
<1>4. /\ level \in 1..4
      /\ level = 4 => mem[Slot] = E4(a)
      /\ level = 3 => mem[Slot] = E3(a)
      /\ level = 2 => mem[Slot] = E2(a)
      /\ level < 4 => E4(a).present
      /\ level < 3 => E3(a).present
  BY <1>1, <1>2, <1>3, SlotEntry
<1>5. E4(a)' = E4(a) /\ E3(a)' = E3(a) /\ E2(a)' = E2(a)
  BY <1>2, SameMemory
<1>6. Reached'
  <2>1. CASE level = 4
    BY <2>1, <1>2, <1>3, <1>4, <1>5 DEF Reached
  <2>2. CASE level = 3
    BY <2>2, <1>2, <1>3, <1>4, <1>5 DEF Reached
  <2>3. CASE level = 2
    BY <2>3, <1>2, <1>3, <1>4, <1>5 DEF Reached
  <2> QED BY <1>2, <1>4, <2>1, <2>2, <2>3
<1>7. pc \in Calls /\ pc' \in Calls
  BY <1>2 DEF Calls
<1> QED BY <1>1, <1>2, <1>6, <1>7, QuietTranslated

\* A call returns.
LEMMA ReturnTranslated ==
  ASSUME Translated, pc \in {"map", "protect"}, NEW result \in BOOLEAN, Return(result),
         UNCHANGED <<memory, tlb>>
  PROVE  Translated'
<1>1. PagesOwned'
  BY ReturnOwned DEF Translated
<1>2. UNCHANGED <<mem, tlb>> /\ pc \in Calls /\ pc' \in Calls /\ pc' = "idle"
  BY DEF Return, memory, Calls
<1>3. Reached'
  BY <1>2 DEF Reached
<1> QED BY <1>1, <1>2, <1>3, QuietTranslated

\* The processor caches translations of pages that can be used.
LEMMA CacheTranslated ==
  ASSUME Translated, UNCHANGED <<memory, pc, walk, ret, loops, scan, lost>>, pc = "idle",
         \A t \in tlb' : t \in tlb \/ \E a \in UserPages \cup KernelPages :
                                         t = Translation(a) /\ Access(a) # {}
  PROVE  Translated'
<1>1. UNCHANGED <<mem, pc>>
  BY DEF memory
<1>2. ASSUME NEW t \in tlb'
      PROVE  /\ t = Translation(t.page)' /\ t.access # {}
             /\ t \in [page : UserPages \cup KernelPages, base : Frames \cup {0},
                       access : SUBSET ({"read"} \cup Flags)]
  <2>1. CASE t \in tlb
    <3>1. t = Translation(t.page) /\ t.access # {}
      BY <2>1 DEF Translated, TlbCoherent, Cached
    <3>2. Translation(t.page)' = Translation(t.page)
      BY <1>1, SameMemory
    <3> QED BY <2>1, <3>1, <3>2 DEF Translated, PagesOwned, TypeOK
  <2>2. ASSUME NEW a \in UserPages \cup KernelPages, t = Translation(a), Access(a) # {}
        PROVE  /\ t = Translation(t.page)' /\ t.access # {}
               /\ t \in [page : UserPages \cup KernelPages, base : Frames \cup {0},
                         access : SUBSET ({"read"} \cup Flags)]
    <3>1. t.page = a /\ t.access = Access(a)
      BY <2>2 DEF Translation
    <3>2. Translation(a)' = Translation(a)
      BY <1>1, SameMemory
    <3> QED BY <2>2, <3>1, <3>2, TranslationType DEF Translated, PagesOwned
  <2> QED BY <1>2, <2>1, <2>2
<1>3. PagesOwned'
  <2>1. tlb' \subseteq [page : UserPages \cup KernelPages, base : Frames \cup {0},
                        access : SUBSET ({"read"} \cup Flags)]
    BY <1>2
  <2> QED BY <2>1, CacheOwned DEF Translated
<1>4. Cached' /\ TlbCoherent'
  BY <1>1, <1>2 DEF Cached, TlbCoherent
<1>5. Reached'
  BY <1>1 DEF Reached
<1>6. Granted'
  <2>1. \A a \in UserPages : E4(a)' = E4(a) /\ E3(a)' = E3(a) /\ E2(a)' = E2(a)
    BY <1>1, SameMemory
  <2> QED BY <2>1, <1>1 DEF Granted, Translated
<1> QED BY <1>3, <1>4, <1>5, <1>6 DEF Translated

LEMMA TouchTranslated ==
  ASSUME Translated, NEW a \in Touched, Touch(a)
  PROVE  Translated'
<1>1. a \in UserPages \cup KernelPages
  BY PagingAssumption
<1> QED BY <1>1, CacheTranslated DEF Touch

\* While the lower half is being unmapped the cache may be stale.
LEMMA UnmappingTranslated ==
  ASSUME Translated, PagesOwned', pc' \in Unmapping, tlb' = tlb
  PROVE  Translated'
<1>1. pc' \notin Calls /\ pc' # "scan" /\ pc' \notin {"map", "protect"}
  BY DEF Unmapping, Calls
<1> QED BY <1>1 DEF Translated, Reached, Granted, Cached, TlbCoherent, Unmapping

\* mem_init starts before anything is cached.
LEMMA ScanTranslated ==
  ASSUME Translated, PagesOwned', pc = "scan", pc' = "scan", tlb' = tlb
  PROVE  Translated'
BY DEF Translated, Reached, Granted, Cached, TlbCoherent, Calls

\* When the loops are done the lower half is empty.
LEMMA L4DoneWalk ==
  ASSUME PagesOwned, L4Done, NEW a \in UserPages
  PROVE  ~E4(a).present /\ Access(a) = {} /\ E4(a)' = E4(a)
<1>0. TypeOK /\ mem \in [Words -> Entry] /\ pc = "l4" /\ l4_index \notin LowerIndex
  BY DEF PagesOwned, TypeOK, L4Done
<1>1. PICK role, dad, idx : Tree(role, dad, idx)
  BY DEF PagesOwned
<1>2. a[4] \in LowerIndex
  BY AddressTypes
<1>3. ~E4(a).present
  <2> SUFFICES ASSUME E4(a).present PROVE FALSE
    OBVIOUS
  <2>1. HasTable(E4(a))
    BY <1>1, <1>2 DEF Tree, SmallPages, E4, HasTable
  <2>2. role[Base(E4(a))] = 3 /\ Base(E4(a)) \in Pages
    BY <2>1, <1>0, <1>1, WalkRoles, WalkTypes
  <2> QED BY <2>2, <1>0, <1>1, NoneLeft
<1>4. Access(a) = {}
  <2>1. ToSet(Path(a)) = {E4(a)}
    BY <1>3, PathParts DEF Path, HasTable
  <2> QED BY <2>1, <1>3 DEF Access
<1>5. UNCHANGED mem
  BY DEF L4Done, memory
<1> QED BY <1>3, <1>4, <1>5, SameMemory

LEMMA L4DoneTranslated ==
  ASSUME Translated, L4Done
  PROVE  Translated'
<1>1. PagesOwned'
  BY L4DoneOwned DEF Translated
<1>2. pc' = "idle" /\ tlb' = {}
  BY DEF L4Done, Return
<1>3. \A a \in UserPages : ~E4(a)'.present
  BY L4DoneWalk DEF Translated
<1> QED BY <1>1, <1>2, <1>3 DEF Translated, Reached, Granted, Cached, TlbCoherent

\* Every step of a loop preserves the invariant.
LEMMA KernelTranslated ==
  ASSUME Translated, KernelStep
  PROVE  Translated'
<1>0. PagesOwned'
  BY NextOwned DEF Next, Translated
<1>1. CASE Descend
  BY <1>1, DescendTranslated
<1>2. CASE MapTaken \/ MapNoMemory \/ ProtectMissing
  BY <1>2, ReturnTranslated DEF MapTaken, MapNoMemory, ProtectMissing
<1>3. CASE MapTable
  BY <1>3, MapTableTranslated
<1>4. CASE MapPage
  BY <1>4, MapPageTranslated
<1>5. CASE ProtectPage
  BY <1>5, ProtectTranslated
<1>6. CASE L4Step \/ L3Step \/ L2Step \/ L2Done \/ L3Done \/ ScanDone
  <2>1. tlb' = tlb /\ pc' \in Unmapping
    BY <1>6 DEF L4Step, L3Step, L2Step, L2Done, L3Done, ScanDone, Unmapping
  <2> QED BY <1>0, <2>1, UnmappingTranslated
<1>7. CASE L4Done
  BY <1>7, L4DoneTranslated
<1>8. CASE ScanPage \/ ScanEntry
  <2>1. tlb' = tlb /\ pc = "scan" /\ pc' = "scan"
    BY <1>8 DEF ScanPage, ScanEntry
  <2> QED BY <1>0, <2>1, ScanTranslated
<1> QED BY <1>1, <1>2, <1>3, <1>4, <1>5, <1>6, <1>7, <1>8 DEF KernelStep

LEMMA UnmapTranslated ==
  ASSUME Translated, unmap_lower_half
  PROVE  Translated'
<1>1. PagesOwned' /\ tlb' = tlb /\ pc' \in Unmapping
  BY UnmapOwned DEF Translated, unmap_lower_half, Unmapping
<1> QED BY <1>1, UnmappingTranslated

LEMMA StutterTranslated ==
  ASSUME Translated, UNCHANGED vars
  PROVE  Translated'
<1>0. PagesOwned'
  BY NextOwned DEF Translated
<1>1. UNCHANGED <<mem, tlb, pc, table, level, address>>
  BY DEF vars, memory, walk
<1>2. CASE pc \in Calls
  <2>1. PICK a : a = address
    OBVIOUS
  <2>2. E4(a)' = E4(a) /\ E3(a)' = E3(a) /\ E2(a)' = E2(a)
    BY <1>1, SameMemory
  <2>3. Reached'
    BY <1>1, <2>1, <2>2 DEF Reached, Translated
  <2> QED BY <1>0, <1>1, <1>2, <2>3, QuietTranslated
<1>3. CASE pc = "scan"
  BY <1>0, <1>1, <1>3, ScanTranslated
<1>4. CASE pc \in Unmapping
  BY <1>0, <1>1, <1>4, UnmappingTranslated
<1> QED BY <1>2, <1>3, <1>4 DEF Calls, Unmapping, Translated, PagesOwned, TypeOK

LEMMA InitTranslated == Init => Translated
<1> SUFFICES ASSUME Init PROVE Translated
  OBVIOUS
<1>1. PagesOwned
  BY InitOwned
<1>2. pc = "scan" /\ tlb = {}
  BY DEF Init
<1> QED BY <1>1, <1>2 DEF Translated, Reached, Granted, Cached, TlbCoherent, Calls

LEMMA NextTranslated ==
  ASSUME Translated, [Next]_vars
  PROVE  Translated'
<1>1. ASSUME NEW a \in UserPages, NEW rights \in Protections, vm_map(a, rights) \/ vm_protect(a, rights)
      PROVE  Translated'
  BY <1>1, StartTranslated, PagingAssumption DEF vm_map, vm_protect
<1>2. CASE unmap_lower_half
  BY <1>2, UnmapTranslated
<1>3. CASE KernelStep
  BY <1>3, KernelTranslated
<1>4. ASSUME NEW a \in Touched, Touch(a)
      PROVE  Translated'
  BY <1>4, TouchTranslated
<1>5. CASE UNCHANGED vars
  BY <1>5, StutterTranslated
<1> QED BY <1>1, <1>2, <1>3, <1>4, <1>5 DEF Next

\* The invariant of the address space is inductive.
THEOREM AlwaysTranslated == Spec => []Translated
<1>1. Init => Translated
  BY InitTranslated
<1>2. Translated /\ [Next]_vars => Translated'
  BY NextTranslated
<1> QED BY <1>1, <1>2, PTL DEF Spec

(***************************************************************************)
(* vm_map's and vm_protect's invalidate_tlb and unmap_lower_half's reload  *)
(* of CR3 are enough: no cached translation is stale when they return.     *)
(***************************************************************************)
THEOREM TlbCorrect == Spec => []TlbCoherent
<1>1. Translated => TlbCoherent
  BY DEF Translated
<1> QED BY <1>1, AlwaysTranslated, PTL
-----------------------------------------------------------------------------
(***************************************************************************)
(* page.c implements AddressSpace.tla.                                     *)
(***************************************************************************)

\* The call under way, by the loop that runs.
LEMMA OperationIs ==
  /\ pc = "idle" => Operation = "none"
  /\ pc = "map" => Operation = "vm_map"
  /\ pc = "protect" => Operation = "vm_protect"
  /\ pc \in {"scan", "l4", "l3", "l2"} => Operation = "unmap_lower_half"
BY DEF Operation

LEMMA OperationNext ==
  /\ pc' = "idle" => Operation' = "none"
  /\ pc' = "map" => Operation' = "vm_map"
  /\ pc' = "protect" => Operation' = "vm_protect"
  /\ pc' \in {"scan", "l4", "l3", "l2"} => Operation' = "unmap_lower_half"
BY DEF Operation

\* What is not changed for any page of the lower half is not changed at all.
LEMMA SpaceSame ==
  ASSUME PagesOwned, PagesOwned', \A a \in UserPages : Access(a)' = Access(a)
  PROVE  Space' = Space
<1>1. \A a \in UserPages \cup KernelPages : Access(a)' = Access(a)
  BY UpperSteps
<1> QED BY <1>1 DEF Space

\* A change to one page of the lower half.
LEMMA SpaceOne ==
  ASSUME PagesOwned, PagesOwned', NEW b \in UserPages, NEW rights, Access(b)' = rights,
         \A a \in UserPages \ {b} : Access(a)' = Access(a)
  PROVE  Space' = [Space EXCEPT ![b] = rights]
<1>0. b \notin KernelPages
  BY AddressTypes
<1>1. \A a \in (UserPages \cup KernelPages) \ {b} : Access(a)' = Access(a)
  BY UpperSteps
<1> QED BY <1>0, <1>1 DEF Space

\* Freeing a table that is no longer reached is not seen.
LEMMA FreeWalk ==
  ASSUME NEW role, NEW dad, NEW idx, TypeOK, Tree(role, dad, idx), NEW q \in Pages,
         role[q] \notin 1..4, NEW count \in Int, q \in Frames, Push(q, count), NEW a \in UserPages
  PROVE  Access(a)' = Access(a)
<1>1. \A w \in Words : w # q => mem'[w] = mem[w]
  BY PushFacts
<1>2. ASSUME NEW s \in Pages, NEW j \in Index, role[s] \in 1..4
      PROVE  mem'[s + j] = mem[s + j]
  <2>1. s # q /\ s + j \in Words
    BY <1>2, EntryWord
  <2>2. q + 0 = q /\ 0 \in Index
    BY PageNumber, Indices
  <2>3. s + j # q
    BY <2>1, <2>2, WordUnique
  <2> QED BY <1>1, <2>1, <2>3
<1> QED BY <1>2, KeptWalk

\* The loops of unmap_lower_half free only what is no longer reached.
LEMMA L2StepWalk ==
  ASSUME PagesOwned, L2Step, NEW a \in UserPages
  PROVE  Access(a)' = Access(a)
<1>0. TypeOK /\ pc = "l2" /\ l2_index \in Index
  BY DEF PagesOwned, L2Step
<1>1. PICK role, dad, idx : Tree(role, dad, idx)
  BY DEF PagesOwned
<1>2. CASE ~HasTable(mem[L2Word])
  BY <1>2, SameMemory DEF L2Step, memory
<1>3. CASE HasTable(mem[L2Word])
  <2>1. PICK q : q = Base(mem[L2Word])
    OBVIOUS
  <2>2. q \in Frames
    BY <1>0, <1>1, <1>3, <2>1, L2FreeTree
  <2>3. Cur2 \in Pages /\ role[Cur2] = 12
    BY <1>0, <1>1, LoopTables
  <2>4. Has(mem, Cur2, l2_index) /\ Goes(mem, Cur2, l2_index) = q
    BY <1>3, <2>1, LoopWords
  <2>5. l2_index >= l2_index
    BY <1>0, Indices
  <2>6. Child(role, dad, idx, Cur2, l2_index)
    BY <1>0, <1>1, <2>3, <2>4, <2>5 DEF Tree, DoomedDown
  <2>7. role[q] = 11
    BY <2>3, <2>4, <2>6 DEF Child
  <2>8. q \in Pages /\ role[q] \notin 1..4 /\ Push(q, 1)
    BY <1>3, <2>1, <2>2, <2>7 DEF Pages, L2Step, pmem_free
  <2> QED BY <1>0, <1>1, <2>2, <2>8, FreeWalk
<1> QED BY <1>2, <1>3

LEMMA DoneWalk ==
  ASSUME PagesOwned, L2Done \/ L3Done, NEW a \in UserPages
  PROVE  Access(a)' = Access(a)
<1>0. TypeOK
  BY DEF PagesOwned
<1>1. PICK role, dad, idx : Tree(role, dad, idx)
  BY DEF PagesOwned
<1>2. CASE L2Done
  <2>1. PICK q : q = Base(mem[L3Word])
    OBVIOUS
  <2>2. q \in Frames
    BY <1>0, <1>1, <1>2, <2>1, L2DoneTree
  <2>3. role[q] = 12
    BY <1>0, <1>1, <1>2, <2>1, LoopTables, LoopWords DEF L2Done
  <2>4. q \in Pages /\ role[q] \notin 1..4 /\ Push(q, 1)
    BY <1>2, <2>1, <2>2, <2>3 DEF Pages, L2Done, pmem_free
  <2> QED BY <1>0, <1>1, <2>2, <2>4, FreeWalk
<1>3. CASE L3Done
  <2>1. PICK q : q = Base(L4Entry)
    OBVIOUS
  <2>2. q \in Frames
    BY <1>0, <1>1, <1>3, <2>1, L3DoneTree
  <2>3. role[q] = 13
    BY <1>0, <1>1, <1>3, <2>1, LoopTables, LoopWords DEF L3Done
  <2>4. q \in Pages /\ role[q] \notin 1..4 /\ Push(q, 1)
    BY <1>3, <2>1, <2>2, <2>3 DEF Pages, L3Done, pmem_free
  <2> QED BY <1>0, <1>1, <2>2, <2>4, FreeWalk
<1> QED BY <1>2, <1>3

\* Nor is what mem_init puts on the freelist mapped.
LEMMA ScanPageWalk ==
  ASSUME PagesOwned, ScanPage, NEW a \in UserPages
  PROVE  Access(a)' = Access(a)
<1>0. TypeOK /\ pc = "scan" /\ InUsable /\ curr < EndOf(memmap[current]) /\ Push(curr, 2)
  BY DEF PagesOwned, ScanPage
<1>1. PICK role, dad, idx : Tree(role, dad, idx)
  BY DEF PagesOwned
<1>2. PICK q : q = curr
  OBVIOUS
<1>3. q \in Frames
  BY <1>0, <1>1, <1>2, ScanPageTree
<1>4. q \in Pages /\ q \in Nat /\ current \in DOMAIN memmap /\ memmap[current].type = USABLE
  BY <1>0, <1>3, PageNumber DEF Pages, InUsable
<1>5. memmap[current].base <= q
  BY <1>0, <1>1, <1>2 DEF Tree, Scanned
<1>6. IsAhead(q)
  <2>1. current >= current /\ curr <= q
    BY <1>2, <1>4, MapEntries
  <2> QED BY <2>1, <1>0, <1>2, <1>4, <1>5 DEF IsAhead
<1>7. role[q] = AHEAD
  BY <1>0, <1>1, <1>4, <1>6 DEF Tree, Scanned
<1>8. role[q] \notin 1..4 /\ Push(q, 2)
  BY <1>0, <1>2, <1>7 DEF AHEAD
<1> QED BY <1>0, <1>1, <1>3, <1>4, <1>8, FreeWalk

\* Clearing a level 4 entry unmaps the pages behind it and no others.
LEMMA L4CutWalk ==
  ASSUME PagesOwned, L4Step, L4Entry.present, NEW n, n = l4_index, NEW a \in UserPages
  PROVE  Access(a)' = IF a[4] = n THEN {} ELSE Access(a)
<1>0. /\ TypeOK /\ mem \in [Words -> Entry] /\ n \in Index
      /\ mem' = [mem EXCEPT ![CR3 + n].present = FALSE]
  BY Indices DEF PagesOwned, TypeOK, L4Step
<1>1. PICK role, dad, idx : Tree(role, dad, idx)
  BY DEF PagesOwned
<1>2. /\ \A s \in Pages, j \in Index : ~(s = CR3 /\ j = n) => mem'[s + j] = mem[s + j]
      /\ ~mem'[CR3 + n].present
  BY <1>0, ClearFacts
<1>3. CASE a[4] = n
  <2>1. ~E4(a)'.present
    BY <1>2, <1>3 DEF E4
  <2>2. Path(a)' = <<E4(a)'>>
    BY <2>1 DEF Path, HasTable
  <2>3. ToSet(Path(a)') = {E4(a)'}
    BY <2>2, PathParts
  <2>4. Access(a)' = {}
    BY <2>1, <2>3 DEF Access
  <2> QED BY <1>3, <2>4
<1>4. CASE a[4] # n
  <2>1. a[1] \in Index /\ a[2] \in Index /\ a[3] \in Index /\ a[4] \in Index
    BY AddressTypes
  <2>2. Base(E4(a)) \in Pages /\ Base(E3(a)) \in Pages /\ Base(E2(a)) \in Pages /\ CR3 \in Pages
    BY <1>0, WalkTypes, RootPage
  <2>3. /\ role[CR3] = 4
        /\ HasTable(E4(a)) => role[Base(E4(a))] = 3
        /\ HasTable(E4(a)) /\ HasTable(E3(a)) => role[Base(E3(a))] = 2
        /\ HasTable(E4(a)) /\ HasTable(E3(a)) /\ HasTable(E2(a)) => role[Base(E2(a))] = 1
    BY <1>0, <1>1, WalkRoles
  <2>4. E4(a)' = E4(a)
    BY <1>2, <1>4, <2>1, <2>2 DEF E4
  <2>5. HasTable(E4(a)) => E3(a)' = E3(a)
    BY <1>2, <2>1, <2>2, <2>3, <2>4 DEF E3
  <2>6. HasTable(E4(a)) /\ HasTable(E3(a)) => E2(a)' = E2(a)
    BY <1>2, <2>1, <2>2, <2>3, <2>5 DEF E2
  <2>7. HasTable(E4(a)) /\ HasTable(E3(a)) /\ HasTable(E2(a)) => E1(a)' = E1(a)
    BY <1>2, <2>1, <2>2, <2>3, <2>6 DEF E1
  <2> QED BY <1>4, <2>4, <2>5, <2>6, <2>7, SameWalk
<1> QED BY <1>3, <1>4

\* A step of the loops that changes nothing a caller sees.
LEMMA Unseen ==
  ASSUME Translated, PagesOwned', Operation' = Operation, UNCHANGED <<address, flags, ret>>,
         \A a \in UserPages : Access(a)' = Access(a)
  PROVE  UNCHANGED AS!vars
<1>1. Space' = Space
  BY SpaceSame DEF Translated
<1> QED BY <1>1 DEF AS!vars

\* Calls.
LEMMA CallStep ==
  ASSUME Translated, PagesOwned', NEW f \in {"vm_map", "vm_protect", "unmap_lower_half"},
         pc = "idle", Operation' = f, UNCHANGED <<mem, ret>>,
         address' \in UserPages, flags' \in SUBSET Flags
  PROVE  AS!Next
<1>1. Space' = Space
  BY SpaceSame, SameMemory DEF Translated
<1>2. AS!Call(f, address', flags')
  BY <1>1, OperationIs DEF AS!Call
<1> QED BY <1>2 DEF AS!Next

LEMMA UnmapCallStep ==
  ASSUME Translated, PagesOwned', unmap_lower_half
  PROVE  AS!Next
<1>1. /\ pc = "idle" /\ pc' = "l4" /\ UNCHANGED <<mem, ret>>
      /\ address' = address /\ flags' = flags
  BY DEF unmap_lower_half, memory, walk
<1>2. address \in UserPages /\ flags \in SUBSET Flags
  BY DEF Translated, PagesOwned, TypeOK
<1> QED BY <1>1, <1>2, OperationNext, CallStep

LEMMA StartCallStep ==
  ASSUME Translated, PagesOwned', NEW a \in UserPages, NEW rights \in SUBSET Flags,
         vm_map(a, rights) \/ vm_protect(a, rights)
  PROVE  AS!Next
<1>1. /\ pc = "idle" /\ pc' \in {"map", "protect"} /\ UNCHANGED <<mem, ret>>
      /\ address' = a /\ flags' = rights
  BY DEF vm_map, vm_protect, Start, memory
<1> QED BY <1>1, OperationNext, CallStep

\* Returns that change nothing.
LEMMA MapFailsStep ==
  ASSUME Translated, PagesOwned', MapTaken \/ MapNoMemory
  PROVE  AS!Next
<1>1. /\ pc = "map" /\ pc' = "idle" /\ ret' = FALSE /\ UNCHANGED <<mem, address, flags>>
  BY DEF MapTaken, MapNoMemory, Return, memory, walk
<1>2. Space' = Space
  BY <1>1, SpaceSame, SameMemory DEF Translated
<1>3. AS!Return("vm_map", FALSE)
  BY <1>1, OperationIs, OperationNext DEF AS!Return
<1>4. AS!MapReturns
  BY <1>2, <1>3 DEF AS!MapReturns
<1> QED BY <1>4 DEF AS!Next

LEMMA ProtectFailsStep ==
  ASSUME Translated, PagesOwned', ProtectMissing
  PROVE  AS!Next
<1>1. /\ pc = "protect" /\ pc' = "idle" /\ ret' = FALSE /\ UNCHANGED <<mem, address, flags>>
      /\ ~mem[Slot].present
  BY DEF ProtectMissing, Return, memory, walk
<1>2. Space' = Space
  BY <1>1, SpaceSame, SameMemory DEF Translated
<1>3. AS!Return("vm_protect", FALSE)
  BY <1>1, OperationIs, OperationNext DEF AS!Return
<1>4. ~Present(address) /\ address \in UserPages
  <2>1. PICK b : b = address
    OBVIOUS
  <2>2. /\ b \in UserPages /\ level \in 1..4
        /\ level = 4 => mem[Slot] = E4(b)
        /\ level = 3 => mem[Slot] = E3(b)
        /\ level = 2 => mem[Slot] = E2(b)
        /\ level = 1 => mem[Slot] = E1(b)
    BY <1>1, <2>1, SlotEntry DEF Translated
  <2>3. level = 1 \/ level = 2 \/ level = 3 \/ level = 4
    BY <2>2
  <2>4. ~Present(b)
    BY <1>1, <2>2, <2>3 DEF Present
  <2> QED BY <2>1, <2>2, <2>4
<1>5. Access(address) = {}
  BY <1>1, <1>4, LowerWalks DEF LowerWalk, Translated, Calls
<1>6. Space[address] = AS!Unmapped
  BY <1>4, <1>5 DEF Space, AS!Unmapped
<1>7. AS!ProtectReturns
  BY <1>2, <1>3, <1>6 DEF AS!ProtectReturns
<1> QED BY <1>7 DEF AS!Next

\* Returns that change one page.
LEMMA MapPageStep ==
  ASSUME Translated, PagesOwned', MapPage
  PROVE  AS!Next
<1>1. /\ pc = "map" /\ pc' = "idle" /\ ret' = TRUE /\ UNCHANGED <<address, flags>>
  BY DEF MapPage, Return, walk
<1>2. PICK b : b = address
  OBVIOUS
<1>3. PICK rights : rights = {"read"} \cup flags
  OBVIOUS
<1>4. b \in UserPages
  BY <1>2 DEF Translated, PagesOwned, TypeOK
<1>5. /\ Access(b) = {} /\ Access(b)' = rights
      /\ \A a \in UserPages \ {b} : Access(a)' = Access(a)
  BY <1>2, <1>3, MapPageWalk
<1>6. Space' = [Space EXCEPT ![b] = rights]
  BY <1>4, <1>5, SpaceOne DEF Translated
<1>7. AS!Return("vm_map", TRUE)
  BY <1>1, OperationIs, OperationNext DEF AS!Return
<1>8. Space[address] = AS!Unmapped
  BY <1>2, <1>4, <1>5 DEF Space, AS!Unmapped
<1>9. AS!MapReturns
  BY <1>2, <1>3, <1>6, <1>7, <1>8 DEF AS!MapReturns, AS!Mapped
<1> QED BY <1>9 DEF AS!Next

LEMMA ProtectPageStep ==
  ASSUME Translated, PagesOwned', ProtectPage
  PROVE  AS!Next
<1>1. /\ pc = "protect" /\ pc' = "idle" /\ ret' = TRUE /\ UNCHANGED <<address, flags>>
  BY DEF ProtectPage, Return, walk
<1>2. PICK b : b = address
  OBVIOUS
<1>3. PICK rights : rights = {"read"} \cup flags
  OBVIOUS
<1>4. b \in UserPages
  BY <1>2 DEF Translated, PagesOwned, TypeOK
<1>5. /\ Access(b) # {} /\ Access(b)' = rights
      /\ \A a \in UserPages \ {b} : Access(a)' = Access(a)
  BY <1>2, <1>3, ProtectWalk
<1>6. Space' = [Space EXCEPT ![b] = rights]
  BY <1>4, <1>5, SpaceOne DEF Translated
<1>7. AS!Return("vm_protect", TRUE)
  BY <1>1, OperationIs, OperationNext DEF AS!Return
<1>8. Space[address] # AS!Unmapped
  BY <1>2, <1>4, <1>5 DEF Space, AS!Unmapped
<1>9. AS!ProtectReturns
  BY <1>2, <1>3, <1>6, <1>7, <1>8 DEF AS!ProtectReturns, AS!Mapped
<1> QED BY <1>9 DEF AS!Next

\* unmap_lower_half.
LEMMA CutStep ==
  ASSUME Translated, PagesOwned', L4Step, L4Entry.present
  PROVE  AS!Next
<1>1. /\ pc = "l4" /\ pc' = "l3" /\ UNCHANGED <<address, flags, ret>>
  BY DEF L4Step, walk
<1>2. PICK n : n = l4_index
  OBVIOUS
<1>3. PICK gone : gone = {a \in UserPages : a[4] = n}
  OBVIOUS
<1>4. \A a \in UserPages : Access(a)' = IF a \in gone THEN {} ELSE Access(a)
  BY <1>2, <1>3, L4CutWalk DEF Translated
<1>5. \A a \in KernelPages : Access(a)' = Access(a) /\ a \notin gone
  BY <1>3, UpperSteps, AddressTypes DEF Translated
<1>6. Space' = [a \in UserPages \cup KernelPages |-> IF a \in gone THEN {} ELSE Space[a]]
  BY <1>4, <1>5 DEF Space
<1>7. Operation = "unmap_lower_half" /\ Operation' = Operation
  BY <1>1, OperationIs, OperationNext
<1>8. AS!Clear(gone)
  BY <1>1, <1>6, <1>7 DEF AS!Clear, AS!Unmapped
<1>9. gone \in SUBSET UserPages
  BY <1>3
<1> QED BY <1>8, <1>9 DEF AS!Next

LEMMA ClearedStep ==
  ASSUME Translated, PagesOwned', L4Done
  PROVE  AS!Next
<1>1. /\ pc = "l4" /\ pc' = "idle" /\ ret' = TRUE /\ UNCHANGED <<mem, address, flags>>
  BY DEF L4Done, Return, memory, walk
<1>2. Space' = Space
  BY <1>1, SpaceSame, SameMemory DEF Translated
<1>3. AS!Return("unmap_lower_half", TRUE)
  BY <1>1, OperationIs, OperationNext DEF AS!Return
<1>4. \A a \in UserPages : Space[a] = AS!Unmapped
  BY L4DoneWalk DEF Space, AS!Unmapped, Translated
<1>5. AS!ClearReturns
  BY <1>2, <1>3, <1>4 DEF AS!ClearReturns
<1> QED BY <1>5 DEF AS!Next

\* The other steps of the loops.
LEMMA LoopStep ==
  ASSUME Translated, PagesOwned',
         \/ Descend \/ MapTable \/ L3Step \/ L2Step \/ L2Done \/ L3Done
         \/ L4Step /\ ~L4Entry.present
         \/ ScanPage \/ ScanEntry \/ ScanDone
  PROVE  UNCHANGED AS!vars
<1>1. UNCHANGED <<address, flags, ret>>
  BY DEF Descend, MapTable, L3Step, L2Step, L2Done, L3Done, L4Step,
         ScanPage, ScanEntry, ScanDone, walk
<1>2. Operation' = Operation
  <2>1. CASE Descend \/ MapTable
    BY <2>1 DEF Descend, MapTable, Operation
  <2>2. CASE ~(Descend \/ MapTable)
    <3>1. pc \in {"scan", "l4", "l3", "l2"} /\ pc' \in {"scan", "l4", "l3", "l2"}
      BY <2>2 DEF L3Step, L2Step, L2Done, L3Done, L4Step, ScanPage, ScanEntry, ScanDone
    <3> QED BY <3>1, OperationIs, OperationNext
  <2> QED BY <2>1, <2>2
<1>3. ASSUME NEW a \in UserPages PROVE Access(a)' = Access(a)
  <2>1. CASE UNCHANGED mem
    BY <2>1, SameMemory
  <2>2. CASE MapTable
    BY <2>2, MapTableWalk
  <2>3. CASE L2Step
    BY <2>3, L2StepWalk DEF Translated
  <2>4. CASE L2Done \/ L3Done
    BY <2>4, DoneWalk DEF Translated
  <2>5. CASE ScanPage
    BY <2>5, ScanPageWalk DEF Translated
  <2> QED BY <2>1, <2>2, <2>3, <2>4, <2>5
         DEF Descend, L3Step, L4Step, ScanEntry, ScanDone, memory
<1> QED BY <1>1, <1>2, <1>3, Unseen

\* A step that only caches a translation, or none.
LEMMA CacheStep ==
  ASSUME Translated, PagesOwned', UNCHANGED <<memory, pc, walk, ret>>
  PROVE  UNCHANGED AS!vars
<1>1. UNCHANGED <<mem, pc, address, flags, ret>>
  BY DEF memory, walk
<1>2. Operation' = Operation
  BY <1>1 DEF Operation
<1>3. \A a \in UserPages : Access(a)' = Access(a)
  BY <1>1, SameMemory
<1> QED BY <1>1, <1>2, <1>3, Unseen

LEMMA KernelStepRefines ==
  ASSUME Translated, KernelStep
  PROVE  [AS!Next]_AS!vars
<1>0. PagesOwned'
  BY NextOwned DEF Next, Translated
<1>1. CASE MapTaken \/ MapNoMemory
  BY <1>0, <1>1, MapFailsStep
<1>2. CASE MapPage
  BY <1>0, <1>2, MapPageStep
<1>3. CASE ProtectMissing
  BY <1>0, <1>3, ProtectFailsStep
<1>4. CASE ProtectPage
  BY <1>0, <1>4, ProtectPageStep
<1>5. CASE L4Step /\ L4Entry.present
  BY <1>0, <1>5, CutStep
<1>6. CASE L4Done
  BY <1>0, <1>6, ClearedStep
<1>7. CASE \/ Descend \/ MapTable \/ L3Step \/ L2Step \/ L2Done \/ L3Done
           \/ L4Step /\ ~L4Entry.present
           \/ ScanPage \/ ScanEntry \/ ScanDone
  BY <1>0, <1>7, LoopStep
<1> QED BY <1>1, <1>2, <1>3, <1>4, <1>5, <1>6, <1>7 DEF KernelStep

LEMMA NextRefines ==
  ASSUME Translated, [Next]_vars
  PROVE  [AS!Next]_AS!vars
<1>0. PagesOwned'
  BY NextOwned DEF Translated
<1>1. ASSUME NEW a \in UserPages, NEW rights \in Protections, vm_map(a, rights) \/ vm_protect(a, rights)
      PROVE  AS!Next
  BY <1>0, <1>1, StartCallStep, PagingAssumption
<1>2. CASE unmap_lower_half
  BY <1>0, <1>2, UnmapCallStep
<1>3. CASE KernelStep
  BY <1>3, KernelStepRefines
<1>4. ASSUME NEW a \in Touched, Touch(a)
      PROVE  UNCHANGED AS!vars
  <2>1. UNCHANGED <<memory, pc, walk, ret>>
    BY <1>4 DEF Touch
  <2> QED BY <1>0, <2>1, CacheStep
<1>5. CASE UNCHANGED vars
  <2>1. UNCHANGED <<memory, pc, walk, ret>>
    BY <1>5 DEF vars
  <2> QED BY <1>0, <2>1, CacheStep
<1> QED BY <1>1, <1>2, <1>3, <1>4, <1>5 DEF Next

LEMMA InitRefines == Init => AS!Init
<1> SUFFICES ASSUME Init PROVE AS!Init
  OBVIOUS
<1>1. /\ pc = "scan" /\ address \in UserPages /\ flags = {} /\ ret = FALSE
  BY DEF Init
<1>2. ASSUME NEW a \in UserPages \cup KernelPages
      PROVE  Access(a) \in {AS!Unmapped} \cup {AS!Mapped(rights) : rights \in SUBSET Flags}
  <2>1. PICK rights \in SUBSET Flags :
           rights = {f \in Flags : \A e \in ToSet(Path(a)) : f \in e.flags}
    OBVIOUS
  <2>2. Access(a) = AS!Unmapped \/ Access(a) = AS!Mapped(rights)
    BY <2>1 DEF Access, AS!Unmapped, AS!Mapped
  <2> QED BY <2>2
<1>3. Space \in [UserPages \cup KernelPages ->
                    {AS!Unmapped} \cup {AS!Mapped(rights) : rights \in SUBSET Flags}]
  BY <1>2 DEF Space
<1> QED BY <1>1, <1>3, OperationIs DEF AS!Init

(***************************************************************************)
(* The loops of page.c implement AddressSpace.tla: whatever they find in   *)
(* the tables, and for every memory map, each call changes what can be     *)
(* done with the pages its comment names and with no other.                *)
(***************************************************************************)
THEOREM Refinement == Spec => ImplementsAddressSpace
<1>1. Init => AS!Init
  BY InitRefines
<1>2. Translated /\ [Next]_vars => [AS!Next]_AS!vars
  BY NextRefines
<1> QED BY <1>1, <1>2, AlwaysTranslated, PTL DEF Spec, ImplementsAddressSpace, AS!Spec
=============================================================================
