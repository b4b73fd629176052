----------------------------- MODULE ExecProofs -----------------------------
(***************************************************************************)
(* Proofs about Exec.tla: what exec_setup leaves in the address space of   *)
(* the program it starts, and why it stops the machine when it does not    *)
(* start one.  What the loops of page.c do to the address space comes from *)
(* PagingProofs.tla; the rest is about Space, the address space, and       *)
(* FrameOf, the physical pages behind it.                                  *)
(***************************************************************************)
EXTENDS Exec, PagingProofs, NaturalsInduction, WellFoundedInduction

FrameOf == [a \in UserPages |-> Translation(a).base]

\* exec_setup has found the module, or the program runs.
Loading == {"headers", "copy", "protect", "user"}

Segments == Modules[ourmod].segments
Touches(i) == Segments[i].touches
FirstPage(i) == Touches(i)[1]
Load == Loads(Modules[ourmod])

\* The rights under which pages are mapped before they are filled.
FillRights == {"user", "writable"}
Writable == {"read"} \cup FillRights

\* exec_setup waits for the page.c function that it has called.
Phases ==
    /\ step = "find" => pc \in Unmapping \cup {"idle"}
    /\ step = "headers" => pc \in Calls
    /\ step = "copy" => pc \in {"idle", "map"}
    /\ step \in {"protect", "user", "halted"} => pc = "idle"
    /\ step \in Loading => ph_entry \in 1..Len(Segments) + 1
    /\ step = "user" => ~HeadersLeft /\ p \notin DOMAIN user_stack

\* unmap_lower_half has left nothing when exec_setup goes on.
Cleared == step = "find" /\ pc = "idle" => \A a \in UserPages : Space[a] = {}

\* The segments for which a page has been asked, and filled.
Asked == {i \in Load : i < ph_entry \/ (i = ph_entry /\ step \in {"copy", "protect"})}
Filled == {i \in Load : i < ph_entry \/ (i = ph_entry /\ step = "protect")}

\* What is mapped is the first page of such a segment, or stack.
Confined ==
    step \in Loading =>
        \A a \in UserPages : Space[a] # {} =>
            a \in ToSet(user_stack) \/ \E i \in Asked : a = FirstPage(i)

\* The arguments of the call under way.
Arguments ==
    /\ step \in {"headers", "copy"} /\ pc = "map" => flags = FillRights
    /\ step = "copy" /\ pc = "map" => address = FirstPage(ph_entry) /\ Space[address] = {}
    /\ step = "headers" /\ pc = "map" => address \in ToSet(user_stack)
    /\ step = "headers" /\ pc = "protect" =>
          \E i \in Load : /\ i + 1 = ph_entry
                          /\ address = FirstPage(i)
                          /\ flags = Rights(Segments[i])

\* A stack page is mapped as asked, or memory has run out.
StackPages ==
    step \in Loading =>
        \A k \in DOMAIN user_stack :
            /\ Space[user_stack[k]] \in {{}, Writable}
            /\ k < p => \/ Space[user_stack[k]] # {} \/ freelist = NULL
                        \/ step = "headers" /\ pc = "map" /\ address = user_stack[k]

\* The page asked for a segment is there, or memory has run out.
Answered ==
    step = "copy" /\ pc = "idle" => Space[FirstPage(ph_entry)] = Writable \/ freelist = NULL

\* A segment that was copied fits into its page, which holds it.
Copied ==
    step \in Loading =>
        \A i \in Filled :
            /\ DOMAIN Touches(i) = {1}
            /\ Space[FirstPage(i)] # {}
            /\ data[FrameOf[FirstPage(i)]] = <<ourmod, i, 1>>

\* Its rights are those of its header once vm_protect has returned.
Protected ==
    step \in Loading =>
        \A i \in Load : i < ph_entry =>
            \/ Space[FirstPage(i)] = {"read"} \cup Rights(Segments[i])
            \/ pc = "protect" /\ i + 1 = ph_entry

\* The kernel's names are mapped, and stay so.
NamesMapped ==
    \A c \in UserCalls \cup {BootCall} : c.page \in KernelPages => Access(c.page) # {}

\* The inductive invariant of exec_setup.
ExecInv ==
    /\ Translated /\ ExecTypeOK /\ DOMAIN data = Frames \cup {0}
    /\ Phases /\ Cleared /\ Confined /\ Arguments
    /\ StackPages /\ Answered /\ Copied /\ Protected
-----------------------------------------------------------------------------
(***************************************************************************)
(* What page.c's loops do, for exec_setup.                                 *)
(***************************************************************************)

\* Between calls the processor sees what is in the page tables.
LEMMA SeenIs ==
  ASSUME Translated, pc = "idle", NEW a \in UserPages \cup KernelPages
  PROVE  /\ Seen(a) = Translation(a) /\ Seen(a).access = Space[a] /\ Seen(a).access = Access(a)
         /\ a \in UserPages => Seen(a).base = FrameOf[a]
<1>1. \A t \in tlb : t.page = a => t = Translation(a)
  BY DEF Translated, TlbCoherent
<1>2. Seen(a) = Translation(a)
  BY <1>1 DEF Seen
<1>3. Translation(a).access = Access(a)
  BY DEF Translation
<1> QED BY <1>2, <1>3 DEF Space, FrameOf

\* A page of the lower half is mapped if all its entries are present.
LEMMA MappedIs ==
  ASSUME PagesOwned, pc \in Calls, NEW a \in UserPages
  PROVE  Space[a] # {} <=> Present(a)
<1>1. Present(a) => Access(a) # {}
  BY LowerWalks DEF LowerWalk
<1>2. ~Present(a) => Access(a) = {}
  BY LowerWalks DEF LowerWalk
<1> QED BY <1>1, <1>2 DEF Space

\* No two pages share memory.
LEMMA FramesDistinct ==
  ASSUME PagesOwned, pc \in Calls, NEW a \in UserPages, NEW b \in UserPages,
         Space[a] # {}, Space[b] # {}, FrameOf[a] = FrameOf[b]
  PROVE  a = b
<1>0. TypeOK /\ mem \in [Words -> Entry]
  BY DEF PagesOwned, TypeOK
<1>1. PICK role, dad, idx : Tree(role, dad, idx)
  BY DEF PagesOwned
<1>2. Present(a) /\ Present(b)
  BY MappedIs
<1>3. Base(E1(a)) = Base(E1(b))
  BY <1>2, LowerWalks DEF LowerWalk, FrameOf
<1>4. ASSUME NEW c \in UserPages, Present(c)
      PROVE  dad[Base(E1(c))] = Base(E2(c)) /\ idx[Base(E1(c))] = c[1]
  <2>1. c[1] \in Index
    BY AddressTypes
  <2>2. Base(E2(c)) \in Pages
    BY <1>0, WalkTypes
  <2>3. role[Base(E2(c))] = 1
    BY <1>0, <1>1, <1>4, WalkRoles, SmallWalk DEF Present
  <2>4. Goes(mem, Base(E2(c)), c[1]) = Base(E1(c)) /\ mem[Base(E2(c)) + c[1]].present
    BY <1>4 DEF Goes, E1, Present
  <2>5. Base(E1(c)) \in Managed /\ ~mem[Base(E2(c)) + c[1]].page_size
    BY <1>1, <2>1, <2>2, <2>3, <2>4 DEF Tree, SmallPages, Calls
  <2>6. Has(mem, Base(E2(c)), c[1]) /\ c[1] \in Entries(role, Base(E2(c)))
    BY <2>1, <2>3, <2>4, <2>5 DEF Has, HasTable, Entries, ROOT
  <2>7. Child(role, dad, idx, Base(E2(c)), c[1])
    BY <1>1, <2>2, <2>3, <2>4, <2>5, <2>6 DEF Tree, Down, Walking, Calls
  <2> QED BY <2>4, <2>7 DEF Child
<1>5. Base(E2(a)) = Base(E2(b)) /\ a[1] = b[1]
  BY <1>2, <1>3, <1>4
<1> QED BY <1>2, <1>5, SameAddress DEF Present

\* Pages that keep their translation keep their frame.
LEMMA FramesKept ==
  ASSUME PagesOwned, pc \in Calls,
         \A a \in UserPages : Present(a) => Translation(a)' = Translation(a)
  PROVE  \A a \in UserPages : Space[a] # {} => FrameOf'[a] = FrameOf[a]
<1> SUFFICES ASSUME NEW a \in UserPages, Space[a] # {} PROVE FrameOf'[a] = FrameOf[a]
  OBVIOUS
<1>1. Translation(a)' = Translation(a)
  BY MappedIs
<1> QED BY <1>1 DEF FrameOf

\* A step that leaves memory alone.
LEMMA SameSpace ==
  ASSUME UNCHANGED mem
  PROVE  Space' = Space /\ FrameOf' = FrameOf
<1>1. \A a \in UserPages \cup KernelPages : Access(a)' = Access(a)
  BY SameMemory
<1>2. \A a \in UserPages : Translation(a)'.base = Translation(a).base
  BY SameMemory
<1> QED BY <1>1, <1>2 DEF Space, FrameOf

\* A step of the loop of vm_map or vm_protect.
LoopEffect ==
    /\ address' = address /\ flags' = flags
    /\ freelist = NULL => freelist' = NULL
    /\ \A a \in UserPages : Space[a] # {} => FrameOf'[a] = FrameOf[a]
    /\ \/ pc' = pc /\ Space' = Space
       \/ /\ pc = "map" /\ pc' = "idle" /\ Space' = Space
          /\ Space[address] # {} \/ freelist' = NULL
       \/ /\ pc = "map" /\ pc' = "idle" /\ Space[address] = {}
          /\ Space' = [Space EXCEPT ![address] = {"read"} \cup flags]
       \/ pc = "protect" /\ pc' = "idle" /\ Space[address] = {} /\ Space' = Space
       \/ /\ pc = "protect" /\ pc' = "idle" /\ Space[address] # {}
          /\ Space' = [Space EXCEPT ![address] = {"read"} \cup flags]

LEMMA WalkStep ==
  ASSUME Translated, Descend \/ MapTable
  PROVE  LoopEffect
<1>0. PagesOwned /\ PagesOwned' /\ Translated' /\ pc \in Calls
  BY KernelTranslated DEF KernelStep, Translated, Calls, Descend, MapTable
<1>1. pc' = pc /\ UNCHANGED <<address, flags>>
  BY DEF Descend, MapTable
<1>2. freelist = NULL => freelist' = NULL
  BY DEF Descend, MapTable, memory, pmem_alloc
<1>3. ASSUME NEW a \in UserPages
      PROVE  Access(a)' = Access(a) /\ (Present(a) => Translation(a)' = Translation(a))
  <2>1. CASE Descend
    BY <2>1, SameMemory DEF Descend, memory
  <2>2. CASE MapTable
    BY <2>2, MapTableWalk
  <2> QED BY <2>1, <2>2
<1>4. Space' = Space
  BY <1>0, <1>3, SpaceSame
<1>5. \A a \in UserPages : Space[a] # {} => FrameOf'[a] = FrameOf[a]
  BY <1>0, <1>3, FramesKept
<1> QED BY <1>1, <1>2, <1>4, <1>5 DEF LoopEffect

\* The entry that vm_protect misses, or that vm_map finds.
LEMMA SlotMapped ==
  ASSUME Translated, pc \in {"map", "protect"}
  PROVE  /\ ~mem[Slot].present => Space[address] = {}
         /\ mem[Slot].present /\ level = 1 => Space[address] # {}
<1>0. PagesOwned /\ Reached /\ pc \in Calls
  BY DEF Translated, Calls
<1>1. PICK b : b = address
  OBVIOUS
<1>2. /\ b \in UserPages /\ level \in 1..4
      /\ level = 4 => mem[Slot] = E4(b)
      /\ level = 3 => mem[Slot] = E3(b)
      /\ level = 2 => mem[Slot] = E2(b)
      /\ level = 1 => mem[Slot] = E1(b)
      /\ level < 4 => E4(b).present
      /\ level < 3 => E3(b).present
      /\ level < 2 => E2(b).present
  BY <1>0, <1>1, SlotEntry
<1>3. level = 1 \/ level = 2 \/ level = 3 \/ level = 4
  BY <1>2
<1>4. ~mem[Slot].present => ~Present(b)
  BY <1>2, <1>3 DEF Present
<1>5. mem[Slot].present /\ level = 1 => Present(b)
  BY <1>2 DEF Present
<1> QED BY <1>0, <1>1, <1>2, <1>4, <1>5, MappedIs

LEMMA ReturnStep ==
  ASSUME Translated, MapTaken \/ MapNoMemory \/ ProtectMissing
  PROVE  LoopEffect
<1>1. /\ pc \in {"map", "protect"} /\ pc' = "idle" /\ UNCHANGED <<mem, freelist, address, flags>>
      /\ MapTaken => pc = "map" /\ mem[Slot].present /\ level = 1
      /\ MapNoMemory => pc = "map" /\ freelist = NULL
      /\ ProtectMissing => pc = "protect" /\ ~mem[Slot].present
  BY DEF MapTaken, MapNoMemory, ProtectMissing, Return, memory, walk
<1>2. Space' = Space /\ FrameOf' = FrameOf
  BY <1>1, SameSpace
<1>3. /\ MapTaken => Space[address] # {}
      /\ ProtectMissing => Space[address] = {}
  BY <1>1, SlotMapped
<1> QED BY <1>1, <1>2, <1>3 DEF LoopEffect

LEMMA ChangeStep ==
  ASSUME Translated, MapPage \/ ProtectPage
  PROVE  LoopEffect
<1>0. PagesOwned /\ PagesOwned' /\ pc \in Calls
  BY KernelTranslated DEF KernelStep, Translated, Calls, MapPage, ProtectPage
<1>1. /\ MapPage => pc = "map" /\ freelist # NULL
      /\ ProtectPage => pc = "protect" /\ freelist' = freelist
      /\ pc' = "idle" /\ UNCHANGED <<address, flags>>
  BY DEF MapPage, ProtectPage, Return, walk, pmem_alloc
<1>2. PICK b : b = address
  OBVIOUS
<1>3. PICK rights : rights = {"read"} \cup flags
  OBVIOUS
<1>4. b \in UserPages
  BY <1>0, <1>2 DEF PagesOwned, TypeOK
<1>5. /\ MapPage => Access(b) = {}
      /\ ProtectPage => Access(b) # {} /\ Translation(b)'.base = Translation(b).base
      /\ Access(b)' = rights
      /\ \A a \in UserPages \ {b} : /\ Access(a)' = Access(a)
                                    /\ Present(a) => Translation(a)' = Translation(a)
  BY <1>2, <1>3, MapPageWalk, ProtectWalk
<1>6. Space' = [Space EXCEPT ![b] = rights] /\ Space[b] = Access(b)
  <2>1. Space' = [Space EXCEPT ![b] = rights]
    BY <1>0, <1>4, <1>5, SpaceOne
  <2> QED BY <1>4, <2>1 DEF Space
<1>7. ASSUME NEW a \in UserPages, Space[a] # {} PROVE FrameOf'[a] = FrameOf[a]
  <2>1. CASE a = b
    <3>1. ProtectPage
      BY <1>5, <1>6, <1>7, <2>1
    <3>2. Translation(a)'.base = Translation(a).base
      BY <1>5, <2>1, <3>1
    <3> QED BY <3>2 DEF FrameOf
  <2>2. CASE a # b
    <3>1. Present(a)
      BY <1>0, <1>7, MappedIs
    <3>2. Translation(a)' = Translation(a)
      BY <1>5, <2>2, <3>1
    <3> QED BY <3>2 DEF FrameOf
  <2> QED BY <2>1, <2>2
<1>8. Space' = [Space EXCEPT ![address] = {"read"} \cup flags]
  BY <1>2, <1>3, <1>6
<1>9. /\ MapPage => Space[address] = {}
      /\ ProtectPage => Space[address] # {}
  BY <1>2, <1>5, <1>6
<1> QED BY <1>1, <1>7, <1>8, <1>9 DEF LoopEffect

LEMMA LoopEffects ==
  ASSUME Translated, KernelStep, pc \in {"map", "protect"}
  PROVE  LoopEffect
<1>1. \/ Descend \/ MapTable
      \/ MapTaken \/ MapNoMemory \/ ProtectMissing
      \/ MapPage \/ ProtectPage
  BY DEF KernelStep, L4Step, L3Step, L2Step, L2Done, L3Done, L4Done, ScanPage, ScanEntry, ScanDone
<1> QED BY <1>1, WalkStep, ReturnStep, ChangeStep

\* unmap_lower_half goes on, or has left nothing.
LEMMA UnmapEffects ==
  ASSUME Translated, KernelStep, pc \in Unmapping
  PROVE  \/ pc' \in Unmapping
         \/ pc' = "idle" /\ \A a \in UserPages : Space'[a] = {}
<1>1. L4Step \/ L3Step \/ L2Step \/ L2Done \/ L3Done \/ L4Done
  BY DEF KernelStep, Unmapping, Descend, MapTaken, MapNoMemory, MapTable, MapPage,
         ProtectMissing, ProtectPage, ScanPage, ScanEntry, ScanDone
<1>2. CASE L4Step \/ L3Step \/ L2Step \/ L2Done \/ L3Done
  BY <1>2 DEF L4Step, L3Step, L2Step, L2Done, L3Done, Unmapping
<1>3. CASE L4Done
  <2>1. pc' = "idle" /\ UNCHANGED mem
    BY <1>3 DEF L4Done, Return, memory
  <2>2. \A a \in UserPages : Access(a) = {}
    BY <1>3, L4DoneWalk DEF Translated
  <2>3. \A a \in UserPages : Space[a] = {}
    BY <2>2 DEF Space
  <2> QED BY <2>1, <2>3, SameSpace
<1> QED BY <1>1, <1>2, <1>3

\* Nothing of page.c runs between calls.
LEMMA IdleKernel ==
  ASSUME KernelStep
  PROVE  pc # "idle"
BY DEF KernelStep, Descend, MapTaken, MapNoMemory, MapTable, MapPage, ProtectMissing,
       ProtectPage, L4Step, L3Step, L2Step, L2Done, L3Done, L4Done, ScanPage, ScanEntry, ScanDone
-----------------------------------------------------------------------------
(***************************************************************************)
(* Facts about modules and the stack.                                      *)
(***************************************************************************)

\* The first of the modules with a name: it is one of them.
LEMMA MatchingIs ==
  Matching # 0 => Matching \in DOMAIN Modules
<1> DEFINE I == {i \in 1..Len(Modules) : Modules[i].string = modulename.string}
<1>0. Len(Modules) \in Nat /\ DOMAIN Modules = 1..Len(Modules)
  <2>1. Modules \in Seq(ToSet(Modules))
    BY ExecAssumption
  <2> QED BY <2>1, LenProperties
<1>1. Matching = IF I # {} THEN Min(I) ELSE 0
  BY DEF Matching, SelectInSeq
<1>2. I # {} => Min(I) \in I
  <2> SUFFICES ASSUME I # {} PROVE Min(I) \in I
    OBVIOUS
  <2>1. I \subseteq Nat
    BY <1>0
  <2>2. \E x \in I : \A y \in I : ~(<<y, x>> \in OpToRel(<, Nat))
    BY <2>1, WFMin, NatLessThanWellFounded
  <2>3. PICK x \in I : \A y \in I : ~(<<y, x>> \in OpToRel(<, Nat))
    BY <2>2
  <2>4. ASSUME NEW y \in I PROVE x <= y
    <3>1. x \in Nat /\ y \in Nat /\ <<y, x>> \notin OpToRel(<, Nat)
      BY <2>1, <2>3
    <3>2. <<y, x>> \in {s \in Nat \X Nat : s[1] < s[2]} <=> y < x
      BY <3>1
    <3>3. ~(y < x)
      BY <3>1, <3>2 DEF OpToRel
    <3>4. \A u, v \in Nat : ~(u < v) => v <= u
      OBVIOUS
    <3> QED BY <3>1, <3>3, <3>4
  <2> QED BY <2>4 DEF Min
<1> QED BY <1>0, <1>1, <1>2

LEMMA StackFacts ==
  /\ Len(user_stack) \in Nat \ {0} /\ DOMAIN user_stack = 1..Len(user_stack)
  /\ \A k \in DOMAIN user_stack : user_stack[k] \in UserPages /\ user_stack[k] \in ToSet(user_stack)
  /\ \A a \in ToSet(user_stack) : \E k \in DOMAIN user_stack : a = user_stack[k]
<1>1. user_stack \in Seq(UserPages) /\ user_stack # <<>>
  BY ExecAssumption
<1>2. Len(user_stack) \in Nat /\ DOMAIN user_stack = 1..Len(user_stack)
  BY <1>1, LenProperties
<1>3. Len(user_stack) # 0
  BY <1>1, EmptySeq
<1>4. \A k \in DOMAIN user_stack : user_stack[k] \in UserPages
  BY <1>1, <1>2, ElementOfSeq
<1> QED BY <1>2, <1>3, <1>4 DEF ToSet

LEMMA LoadFacts ==
  ASSUME ourmod \in DOMAIN Modules
  PROVE  /\ Len(Segments) \in Nat /\ DOMAIN Segments = 1..Len(Segments)
         /\ \A i : i \in Load <=> i \in DOMAIN Segments /\ Loadable(Segments[i])
         /\ \A i \in Load :
              /\ i \in Nat \ {0}
              /\ 1 \in DOMAIN Touches(i) /\ FirstPage(i) \in UserPages
              /\ \A k \in DOMAIN Touches(i) :
                    /\ Touches(i)[k] \in UserPages /\ Touches(i)[k] \notin ToSet(user_stack)
                    /\ Touches(i)[k] \in ToSet(Touches(i))
                    /\ Touches(i)[k] = FirstPage(i) => k = 1
                    /\ \A j \in Load : Touches(i)[k] = FirstPage(j) => j = i
              /\ \A a \in ToSet(Touches(i)) : \E k \in DOMAIN Touches(i) : a = Touches(i)[k]
<1>1. PICK m \in ToSet(Modules) : m = Modules[ourmod]
  BY DEF ToSet
<1>2. /\ Segments \in Seq(Segment) /\ Segments = m.segments
      /\ \A i \in Load :
            /\ Touches(i) # <<>> /\ IsInjective(Touches(i))
            /\ ToSet(Touches(i)) \cap ToSet(user_stack) = {}
            /\ \A j \in Load \ {i} : ToSet(Touches(i)) \cap ToSet(Touches(j)) = {}
  BY <1>1, ExecAssumption DEF Segments, Load, Touches
<1>3. Len(Segments) \in Nat /\ DOMAIN Segments = 1..Len(Segments)
  BY <1>2, LenProperties
<1>4. \A i : i \in Load <=> i \in DOMAIN Segments /\ Loadable(Segments[i])
  BY DEF Load, Loads, Segments
<1>5. ASSUME NEW i \in Load
      PROVE  /\ i \in Nat \ {0} /\ Touches(i) \in Seq(UserPages) /\ 1 \in DOMAIN Touches(i)
             /\ \A k \in DOMAIN Touches(i) : Touches(i)[k] \in UserPages
  <2>1. Segments[i] \in Segment /\ i \in Nat \ {0}
    BY <1>2, <1>3, <1>4, ElementOfSeq
  <2>2. Touches(i) \in Seq(UserPages)
    BY <2>1 DEF Segment, Touches
  <2>3. Len(Touches(i)) \in Nat /\ DOMAIN Touches(i) = 1..Len(Touches(i))
    BY <2>2, LenProperties
  <2>4. Len(Touches(i)) # 0
    BY <1>2, <2>2, EmptySeq
  <2>5. 1 \in DOMAIN Touches(i)
    BY <2>3, <2>4
  <2> QED BY <2>1, <2>2, <2>3, <2>5, ElementOfSeq
<1>6. ASSUME NEW i \in Load, NEW k \in DOMAIN Touches(i)
      PROVE  Touches(i)[k] \in ToSet(Touches(i))
  BY DEF ToSet
<1>7. ASSUME NEW i \in Load, NEW k \in DOMAIN Touches(i), Touches(i)[k] = FirstPage(i)
      PROVE  k = 1
  BY <1>2, <1>5, <1>7 DEF IsInjective, FirstPage
<1>8. ASSUME NEW i \in Load, NEW k \in DOMAIN Touches(i), NEW j \in Load,
             Touches(i)[k] = FirstPage(j)
      PROVE  j = i
  <2>1. FirstPage(j) \in ToSet(Touches(j))
    BY <1>5, <1>6 DEF FirstPage
  <2> QED BY <1>2, <1>6, <1>8, <2>1
<1>9. ASSUME NEW i \in Load, NEW a \in ToSet(Touches(i))
      PROVE  \E k \in DOMAIN Touches(i) : a = Touches(i)[k]
  BY DEF ToSet
<1>10. \A i \in Load : FirstPage(i) \in UserPages
  BY <1>5 DEF FirstPage
<1>11. ASSUME NEW i \in Load, NEW k \in DOMAIN Touches(i)
       PROVE  Touches(i)[k] \notin ToSet(user_stack)
  BY <1>2, <1>6
<1> QED BY <1>3, <1>4, <1>5, <1>6, <1>7, <1>8, <1>9, <1>10, <1>11

\* As long as the module is the same.
LEMMA SameModule ==
  ASSUME ourmod' = ourmod
  PROVE  /\ Segments' = Segments /\ Load' = Load
         /\ \A i : Touches(i)' = Touches(i) /\ FirstPage(i)' = FirstPage(i)
BY DEF Segments, Load, Touches, FirstPage
-----------------------------------------------------------------------------
(***************************************************************************)
(* exec_setup's steps preserve its invariant.                              *)
(***************************************************************************)

\* Parts of the invariant that say nothing where no program is loaded.
LEMMA NotLoading ==
  ASSUME step' \notin Loading, step' = "find" => pc' # "idle"
  PROVE  Cleared' /\ Confined' /\ Arguments' /\ StackPages' /\ Answered' /\ Copied' /\ Protected'
<1>1. step' \notin {"headers", "copy", "protect", "user"}
  BY DEF Loading
<1>2. Cleared' /\ Confined'
  BY DEF Cleared, Confined
<1>3. Arguments' /\ Answered'
  BY <1>1 DEF Arguments, Answered
<1>4. StackPages' /\ Copied' /\ Protected'
  BY DEF StackPages, Copied, Protected
<1> QED BY <1>2, <1>3, <1>4

LEMMA InitExec == ExecInit => ExecInv
<1> SUFFICES ASSUME ExecInit PROVE ExecInv
  OBVIOUS
<1>0. /\ Init /\ step = "boot" /\ modulename = BootCall /\ p = 1
      /\ data = [f \in Frames \cup {0} |-> Zero]
  BY DEF ExecInit
<1>1. Translated /\ TypeOK
  BY <1>0, InitTranslated DEF Translated, PagesOwned
<1>2. DOMAIN data = Frames \cup {0}
  BY <1>0
<1>3. ExecTypeOK
  <2>1. p \in 1..Len(user_stack) + 1
    BY <1>0, StackFacts
  <2> QED BY <1>0, <1>1, <2>1 DEF ExecTypeOK
<1>4. Phases
  BY <1>0 DEF Phases, Loading
<1>5. Cleared /\ Confined /\ Arguments
  BY <1>0 DEF Cleared, Confined, Arguments, Loading
<1>6. StackPages /\ Answered /\ Copied /\ Protected
  BY <1>0 DEF StackPages, Answered, Copied, Protected, Loading
<1> QED BY <1>1, <1>2, <1>3, <1>4, <1>5, <1>6 DEF ExecInv

\* A call to exec begins.
LEMMA ExecSetupInv ==
  ASSUME ExecInv, NEW call \in UserCalls \cup {BootCall}, exec_setup(call)
  PROVE  ExecInv'
<1>1. /\ unmap_lower_half /\ step' = "find" /\ modulename' = call
      /\ UNCHANGED <<ourmod, ph_entry, p, data>>
  BY DEF exec_setup
<1>2. Translated' /\ TypeOK' /\ pc' = "l4"
  BY <1>1, UnmapTranslated DEF ExecInv, Translated, PagesOwned, unmap_lower_half
<1>3. ExecTypeOK' /\ DOMAIN data' = Frames \cup {0}
  BY <1>1, <1>2 DEF ExecTypeOK, ExecInv
<1>4. Phases'
  BY <1>1, <1>2 DEF Phases, Loading, Unmapping
<1> QED BY <1>1, <1>2, <1>3, <1>4, NotLoading DEF ExecInv, Loading

\* exec_setup returns, or the machine stops.
LEMMA StopInv ==
  ASSUME ExecInv, pc = "idle", step' = "halted",
         UNCHANGED <<vars, modulename, ourmod, ph_entry, p, data>>
  PROVE  ExecInv'
<1>1. Translated' /\ TypeOK' /\ pc' = "idle"
  BY StutterTranslated DEF ExecInv, Translated, PagesOwned, vars
<1>2. ExecTypeOK' /\ DOMAIN data' = Frames \cup {0}
  BY <1>1 DEF ExecTypeOK, ExecInv
<1>3. Phases'
  BY <1>1 DEF Phases, ExecInv, Loading
<1> QED BY <1>1, <1>2, <1>3, NotLoading DEF ExecInv, Loading

\* Caching what is seen of mapped pages.
LEMMA CacheInv ==
  ASSUME Translated, pc = "idle", NEW pages \in SUBSET (UserPages \cup KernelPages),
         \A a \in pages : Seen(a).access # {}, Cache(pages),
         UNCHANGED <<memory, pc, walk, ret, loops, scan, lost>>
  PROVE  Translated'
<1>1. ASSUME NEW t \in tlb'
      PROVE  t \in tlb \/ \E a \in UserPages \cup KernelPages :
                              t = Translation(a) /\ Access(a) # {}
  <2>1. tlb' = tlb \cup {Seen(a) : a \in pages}
    BY DEF Cache
  <2>2. CASE t \in tlb
    BY <2>2
  <2>3. CASE \E a \in pages : t = Seen(a)
    <3>1. PICK a \in pages : t = Seen(a)
      BY <2>3
    <3>2. a \in UserPages \cup KernelPages
      OBVIOUS
    <3> QED BY <3>1, <3>2, SeenIs
  <2> QED BY <2>1, <2>2, <2>3
<1> QED BY <1>1, CacheTranslated

LEMMA FindModuleInv ==
  ASSUME ExecInv, FindModule
  PROVE  ExecInv'
<1>0. /\ step = "find" /\ pc = "idle" /\ step' = "headers" /\ UNCHANGED modulename
      /\ Seen(modulename.page).access # {} /\ Matching # 0
      /\ ourmod' = Matching /\ ph_entry' = 1 /\ p' = 1 /\ Cache({modulename.page})
      /\ UNCHANGED <<memory, pc, walk, ret, loops, scan, lost>> /\ data' = data
  BY DEF FindModule, At
<1>1. Translated' /\ TypeOK'
  <2>1. {modulename.page} \in SUBSET (UserPages \cup KernelPages)
    BY ExecAssumption DEF ExecInv, ExecTypeOK
  <2>2. Translated'
    BY <1>0, <2>1, CacheInv DEF ExecInv
  <2> QED BY <2>2 DEF Translated, PagesOwned
<1>2. pc' = "idle" /\ UNCHANGED mem
  BY <1>0 DEF memory
<1>3. ourmod' \in DOMAIN Modules
  BY <1>0, MatchingIs
<1>4. \A a \in UserPages : Space'[a] = {}
  BY <1>0, <1>2, SameSpace DEF ExecInv, Cleared
<1>5. ExecTypeOK' /\ DOMAIN data' = Frames \cup {0}
  BY <1>0, <1>1, <1>3, StackFacts DEF ExecTypeOK, ExecInv
<1>6. /\ Len(Segments') \in Nat
      /\ \A i \in Load' : ~(i < ph_entry')
  <2>1. Segments' \in Seq(Segment)
    BY <1>3, ExecAssumption DEF Segments, ToSet
  <2>2. Len(Segments') \in Nat /\ DOMAIN Segments' = 1..Len(Segments')
    BY <2>1, LenProperties
  <2>3. Load' \subseteq DOMAIN Segments'
    BY DEF Load, Loads, Segments
  <2> QED BY <1>0, <2>2, <2>3
<1>7. Phases'
  BY <1>0, <1>2, <1>6 DEF Phases, Loading, Calls, ExecInv
<1>8. Cleared' /\ Confined' /\ Arguments' /\ Answered'
  BY <1>0, <1>2, <1>4 DEF Cleared, Confined, Arguments, Answered
<1>9. StackPages'
  BY <1>0, <1>4, StackFacts DEF StackPages
<1>10. Copied' /\ Protected'
  BY <1>0, <1>6 DEF Copied, Protected, Filled
<1> QED BY <1>1, <1>5, <1>7, <1>8, <1>9, <1>10 DEF ExecInv

\* What a step of the loop over the headers starts from.
LEMMA AtHeaders ==
  ASSUME ExecInv, step \in Loading
  PROVE  /\ ourmod \in DOMAIN Modules /\ ph_entry \in Nat \ {0}
         /\ ph_entry \in 1..Len(Segments) + 1 /\ Len(Segments) \in Nat
         /\ DOMAIN Segments = 1..Len(Segments)
         /\ (HeadersLeft <=> ph_entry <= Len(Segments)) /\ Header = Segments[ph_entry]
         /\ HeadersLeft /\ Loadable(Header) <=> ph_entry \in Load
         /\ \A i \in Load : i \in Nat
         /\ p \in 1..Len(user_stack) + 1 /\ p \in Nat
<1>1. ourmod \in DOMAIN Modules /\ p \in 1..Len(user_stack) + 1
  BY DEF ExecInv, ExecTypeOK, Loading
<1>2. ph_entry \in 1..Len(Segments) + 1
  BY DEF ExecInv, Phases
<1>3. /\ Len(Segments) \in Nat /\ DOMAIN Segments = 1..Len(Segments)
      /\ \A i : i \in Load <=> i \in DOMAIN Segments /\ Loadable(Segments[i])
  BY <1>1, LoadFacts
<1>4. HeadersLeft <=> ph_entry \in DOMAIN Segments
  BY DEF HeadersLeft, Segments
<1>5. Header = Segments[ph_entry]
  BY DEF Header, Segments
<1> QED BY <1>1, <1>2, <1>3, <1>4, <1>5, StackFacts

LEMMA SkipHeaderInv ==
  ASSUME ExecInv, SkipHeader
  PROVE  ExecInv'
<1>0. /\ step = "headers" /\ pc = "idle" /\ step' = step /\ UNCHANGED modulename
      /\ HeadersLeft /\ ~Loadable(Header) /\ ph_entry' = ph_entry + 1
      /\ UNCHANGED <<vars, ourmod, p, data>>
  BY DEF SkipHeader, At
<1>1. Translated' /\ TypeOK' /\ UNCHANGED <<mem, pc, address, flags, freelist>>
  BY <1>0, StutterTranslated DEF ExecInv, Translated, PagesOwned, vars, memory, walk
<1>2. Space' = Space /\ FrameOf' = FrameOf
  BY <1>1, SameSpace
<1>3. Segments' = Segments /\ Load' = Load /\ \A i : Touches(i)' = Touches(i) /\ FirstPage(i)' = FirstPage(i)
  BY <1>0, SameModule
<1>4. /\ ourmod \in DOMAIN Modules /\ ph_entry \in Nat \ {0} /\ ph_entry <= Len(Segments)
      /\ Len(Segments) \in Nat /\ ph_entry \notin Load /\ \A i \in Load : i \in Nat
  BY <1>0, AtHeaders DEF Loading
<1>5. \A i \in Load : i < ph_entry' <=> i < ph_entry
  BY <1>0, <1>4
<1>6. Asked' = Asked /\ Filled' = Filled
  BY <1>0, <1>3, <1>4, <1>5 DEF Asked, Filled
<1>7. ExecTypeOK' /\ DOMAIN data' = Frames \cup {0}
  BY <1>0, <1>1, <1>4 DEF ExecTypeOK, ExecInv
<1>8. Phases'
  BY <1>0, <1>1, <1>3, <1>4 DEF Phases, ExecInv, Loading
<1>9. Cleared' /\ Arguments' /\ Answered'
  BY <1>0, <1>1 DEF Cleared, Arguments, Answered
<1>10. Confined'
  BY <1>0, <1>2, <1>3, <1>6 DEF Confined, ExecInv
<1>11. StackPages'
  BY <1>0, <1>1, <1>2 DEF StackPages, ExecInv
<1>12. Copied'
  BY <1>0, <1>2, <1>3, <1>6 DEF Copied, ExecInv
<1>13. Protected'
  BY <1>0, <1>1, <1>2, <1>3, <1>5 DEF Protected, ExecInv
<1> QED BY <1>1, <1>7, <1>8, <1>9, <1>10, <1>11, <1>12, <1>13 DEF ExecInv

\* A call of vm_map or vm_protect begins.
LEMMA StartSame ==
  ASSUME Translated, NEW f \in {"map", "protect"}, NEW a \in UserPages,
         NEW rights \in SUBSET Flags, Start(f, a, rights)
  PROVE  /\ Translated' /\ TypeOK' /\ pc = "idle" /\ pc' = f /\ address' = a /\ flags' = rights
         /\ freelist' = freelist /\ Space' = Space /\ FrameOf' = FrameOf
<1>1. UNCHANGED <<mem, freelist>> /\ pc = "idle" /\ pc' = f /\ address' = a /\ flags' = rights
  BY DEF Start, memory
<1>2. Space' = Space /\ FrameOf' = FrameOf
  BY <1>1, SameSpace
<1>3. Translated' /\ TypeOK'
  BY StartTranslated DEF Translated, PagesOwned
<1> QED BY <1>1, <1>2, <1>3

LEMMA MapSegmentInv ==
  ASSUME ExecInv, MapSegment
  PROVE  ExecInv'
<1>0. /\ step = "headers" /\ pc = "idle" /\ step' = "copy" /\ UNCHANGED modulename
      /\ HeadersLeft /\ Loadable(Header) /\ vm_map(Header.touches[1], FillRights)
      /\ UNCHANGED <<ourmod, ph_entry, p, data>>
  BY DEF MapSegment, At, FillRights
<1>1. /\ ourmod \in DOMAIN Modules /\ ph_entry \in Nat /\ ph_entry \in Load
      /\ \A i \in Load : i \in Nat
  BY <1>0, AtHeaders DEF Loading
<1>2. PICK a \in UserPages : a = FirstPage(ph_entry) /\ Start("map", a, FillRights)
  <2>1. Header.touches[1] = FirstPage(ph_entry)
    BY DEF Header, FirstPage, Touches, Segments
  <2> QED BY <1>0, <1>1, <2>1, LoadFacts DEF vm_map
<1>3. FillRights \in SUBSET Flags
  BY DEF FillRights, Flags
<1>4. /\ Translated' /\ TypeOK' /\ pc' = "map" /\ address' = a /\ flags' = FillRights
      /\ freelist' = freelist /\ Space' = Space /\ FrameOf' = FrameOf
  BY <1>2, <1>3, StartSame DEF ExecInv
<1>5. Segments' = Segments /\ Load' = Load /\ \A i : Touches(i)' = Touches(i) /\ FirstPage(i)' = FirstPage(i)
  BY <1>0, SameModule
<1>6. Asked \subseteq Asked' /\ Filled' = Filled /\ \A i \in Asked : i # ph_entry
  BY <1>0, <1>1, <1>5 DEF Asked, Filled
<1>7. Space[a] = {}
  <2>1. a \notin ToSet(user_stack)
    BY <1>1, <1>2, LoadFacts DEF FirstPage
  <2>2. \A i \in Asked : a # FirstPage(i)
    <3> SUFFICES ASSUME NEW i \in Asked, a = FirstPage(i) PROVE FALSE
      OBVIOUS
    <3>1. i \in Load /\ 1 \in DOMAIN Touches(ph_entry) /\ Touches(ph_entry)[1] = FirstPage(i)
      BY <1>1, <1>2, LoadFacts DEF Asked, FirstPage
    <3>2. i = ph_entry
      BY <1>1, <3>1, LoadFacts
    <3> QED BY <1>6, <3>2
  <2> QED BY <1>0, <2>1, <2>2 DEF ExecInv, Confined, Loading
<1>8. ExecTypeOK' /\ DOMAIN data' = Frames \cup {0}
  BY <1>0, <1>1, <1>4 DEF ExecTypeOK, ExecInv, HeadersLeft, Header
<1>9. Phases'
  BY <1>0, <1>4, <1>5 DEF Phases, ExecInv, Loading
<1>10. Cleared' /\ Answered'
  BY <1>0, <1>4 DEF Cleared, Answered
<1>11. Arguments'
  BY <1>0, <1>2, <1>4, <1>5, <1>7 DEF Arguments
<1>12. Confined'
  BY <1>0, <1>4, <1>5, <1>6 DEF Confined, ExecInv, Loading
<1>13. StackPages'
  BY <1>0, <1>4 DEF StackPages, ExecInv, Loading
<1>14. Copied'
  BY <1>0, <1>4, <1>5, <1>6 DEF Copied, ExecInv, Loading
<1>15. Protected'
  BY <1>0, <1>4, <1>5 DEF Protected, ExecInv, Loading
<1> QED BY <1>4, <1>8, <1>9, <1>10, <1>11, <1>12, <1>13, <1>14, <1>15 DEF ExecInv

\* A frame is a page of memory for which data is kept.
LEMMA FrameTypes ==
  ASSUME PagesOwned, NEW a \in UserPages
  PROVE  FrameOf[a] \in Frames \cup {0}
<1>1. Translation(a).base \in Frames \cup {0}
  BY TranslationType DEF PagesOwned, TypeOK
<1> QED BY <1>1 DEF FrameOf

\* A segment that can be copied has one page, and only its own data is there.
LEMMA CopySegmentInv ==
  ASSUME ExecInv, CopySegment
  PROVE  ExecInv'
<1>0. /\ step = "copy" /\ pc = "idle" /\ step' = "protect" /\ UNCHANGED modulename
      /\ \A a \in ToSet(Header.touches) : "writable" \in Seen(a).access
      /\ Cache(ToSet(Header.touches))
      /\ UNCHANGED <<memory, pc, walk, ret, loops, scan, lost, ourmod, ph_entry, p>>
  BY DEF CopySegment, At
<1>1. /\ ourmod \in DOMAIN Modules /\ ph_entry \in Nat /\ ph_entry \in Load
      /\ HeadersLeft /\ Loadable(Header) /\ \A i \in Load : i \in Nat
  BY <1>0, AtHeaders DEF Loading, ExecInv, ExecTypeOK
<1>2. PICK n : n = ph_entry
  OBVIOUS
<1>3. Header.touches = Touches(n)
  BY <1>2 DEF Header, Touches, Segments
<1>4. Translated /\ PagesOwned /\ pc \in Calls /\ DOMAIN data = Frames \cup {0}
  BY <1>0 DEF ExecInv, Translated, Calls
<1>5. \A k \in DOMAIN Touches(n) :
          /\ Touches(n)[k] \in UserPages /\ Touches(n)[k] \in ToSet(Touches(n))
          /\ Space[Touches(n)[k]] # {} /\ Seen(Touches(n)[k]).base = FrameOf[Touches(n)[k]]
  <2> SUFFICES ASSUME NEW k \in DOMAIN Touches(n)
               PROVE  /\ Touches(n)[k] \in UserPages /\ Touches(n)[k] \in ToSet(Touches(n))
                      /\ Space[Touches(n)[k]] # {}
                      /\ Seen(Touches(n)[k]).base = FrameOf[Touches(n)[k]]
    OBVIOUS
  <2>1. Touches(n)[k] \in UserPages /\ Touches(n)[k] \in ToSet(Touches(n))
    BY <1>1, <1>2, LoadFacts
  <2>2. "writable" \in Seen(Touches(n)[k]).access
    BY <1>0, <1>3, <2>1
  <2>3. /\ Seen(Touches(n)[k]).access = Space[Touches(n)[k]]
        /\ Seen(Touches(n)[k]).base = FrameOf[Touches(n)[k]]
    BY <1>0, <1>4, <2>1, SeenIs
  <2> QED BY <2>1, <2>2, <2>3
<1>6. Translated' /\ TypeOK'
  <2>1. ToSet(Touches(n)) \in SUBSET (UserPages \cup KernelPages)
    BY <1>1, <1>2, LoadFacts
  <2>2. \A a \in ToSet(Touches(n)) : Seen(a).access # {}
    BY <1>0, <1>3
  <2>3. Translated'
    BY <1>0, <1>3, <1>4, <2>1, <2>2, CacheInv
  <2> QED BY <2>3 DEF Translated, PagesOwned
<1>7. UNCHANGED <<mem, pc, address, flags, freelist>>
  BY <1>0 DEF memory, walk
<1>8. Space' = Space /\ FrameOf' = FrameOf
  BY <1>7, SameSpace
<1>9. Segments' = Segments /\ Load' = Load /\ \A i : Touches(i)' = Touches(i) /\ FirstPage(i)' = FirstPage(i)
  BY <1>0, SameModule
<1>10. DOMAIN Touches(n) = {1} /\ FirstPage(n) = Touches(n)[1]
  <2>1. ASSUME NEW k \in DOMAIN Touches(n) PROVE k = 1
    <3>1. Touches(n)[k] \notin ToSet(user_stack)
      BY <1>1, <1>2, LoadFacts
    <3>2. PICK i \in Asked : Touches(n)[k] = FirstPage(i)
      BY <1>0, <1>5, <3>1 DEF ExecInv, Confined, Loading
    <3>3. i \in Load
      BY DEF Asked
    <3>4. i = n
      BY <1>1, <1>2, <3>2, <3>3, LoadFacts
    <3> QED BY <1>1, <1>2, <3>2, <3>4, LoadFacts
  <2>2. 1 \in DOMAIN Touches(n)
    BY <1>1, <1>2, LoadFacts
  <2> QED BY <2>1, <2>2 DEF FirstPage
<1>11. PICK a \in UserPages : a = FirstPage(n)
  BY <1>5, <1>10
<1>12. data' = [f \in DOMAIN data |-> IF FrameOf[a] = f THEN <<ourmod, n, 1>> ELSE data[f]]
  <2>1. data' = [f \in DOMAIN data |->
                  IF \E k \in DOMAIN Touches(n) : Seen(Touches(n)[k]).base = f
                  THEN <<ourmod, n,
                         CHOOSE k \in DOMAIN Touches(n) : Seen(Touches(n)[k]).base = f>>
                  ELSE data[f]]
    BY <1>2, <1>3 DEF CopySegment
  <2>2. ASSUME NEW f
        PROVE  /\ (\E k \in DOMAIN Touches(n) : Seen(Touches(n)[k]).base = f) <=> FrameOf[a] = f
               /\ (\E k \in DOMAIN Touches(n) : Seen(Touches(n)[k]).base = f) =>
                     (CHOOSE k \in DOMAIN Touches(n) : Seen(Touches(n)[k]).base = f) = 1
    BY <1>5, <1>10, <1>11
  <2> QED BY <2>1, <2>2
<1>13. Asked' = Asked /\ Filled' = Filled \cup {n}
  BY <1>0, <1>1, <1>2, <1>9 DEF Asked, Filled
<1>14. FrameOf[a] \in DOMAIN data
  BY <1>4, FrameTypes
<1>15. Copied'
  <2>1. ASSUME NEW i \in Filled \cup {n}
        PROVE  /\ DOMAIN Touches(i) = {1} /\ Space[FirstPage(i)] # {}
               /\ data'[FrameOf[FirstPage(i)]] = <<ourmod, i, 1>>
    <3>1. CASE i = n
      <4>1. data'[FrameOf[a]] = <<ourmod, n, 1>>
        BY <1>12, <1>14
      <4> QED BY <3>1, <4>1, <1>5, <1>10, <1>11
    <3>2. CASE i # n
      <4>1. /\ i \in Load /\ DOMAIN Touches(i) = {1} /\ Space[FirstPage(i)] # {}
            /\ data[FrameOf[FirstPage(i)]] = <<ourmod, i, 1>>
        BY <1>0, <3>2 DEF ExecInv, Copied, Filled, Loading
      <4>2. PICK b \in UserPages : b = FirstPage(i)
        BY <1>1, <4>1, LoadFacts
      <4>3. a # b
        BY <1>1, <1>2, <1>10, <1>11, <3>2, <4>1, <4>2, LoadFacts
      <4>4. FrameOf[a] # FrameOf[b]
        BY <1>4, <1>5, <1>10, <1>11, <4>1, <4>2, <4>3, FramesDistinct
      <4>5. FrameOf[b] \in DOMAIN data
        BY <1>4, FrameTypes
      <4>6. data'[FrameOf[b]] = data[FrameOf[b]]
        BY <1>12, <4>4, <4>5
      <4> QED BY <4>1, <4>2, <4>6
    <3> QED BY <3>1, <3>2
  <2> QED BY <2>1, <1>0, <1>8, <1>9, <1>13 DEF Copied
<1>16. ExecTypeOK' /\ DOMAIN data' = Frames \cup {0}
  <2>1. DOMAIN data' = Frames \cup {0}
    BY <1>4, <1>12
  <2> QED BY <2>1, <1>0, <1>1, <1>6 DEF ExecTypeOK, ExecInv, HeadersLeft, Header
<1>17. Phases'
  BY <1>0, <1>7, <1>9 DEF Phases, ExecInv, Loading
<1>18. Cleared' /\ Answered' /\ Arguments'
  BY <1>0, <1>7 DEF Cleared, Answered, Arguments
<1>19. Confined'
  BY <1>0, <1>8, <1>9, <1>13 DEF Confined, ExecInv, Loading
<1>20. StackPages'
  BY <1>0, <1>7, <1>8 DEF StackPages, ExecInv, Loading
<1>21. Protected'
  BY <1>0, <1>7, <1>8, <1>9 DEF Protected, ExecInv, Loading
<1> QED BY <1>6, <1>15, <1>16, <1>17, <1>18, <1>19, <1>20, <1>21 DEF ExecInv

LEMMA ProtectSegmentInv ==
  ASSUME ExecInv, ProtectSegment
  PROVE  ExecInv'
<1>0. /\ step = "protect" /\ pc = "idle" /\ step' = "headers" /\ UNCHANGED modulename
      /\ vm_protect(Header.touches[1], Rights(Header)) /\ ph_entry' = ph_entry + 1
      /\ UNCHANGED <<ourmod, p, data>>
  BY DEF ProtectSegment, At
<1>1. /\ ourmod \in DOMAIN Modules /\ ph_entry \in Nat \ {0} /\ ph_entry \in Load
      /\ ph_entry <= Len(Segments) /\ Len(Segments) \in Nat /\ \A i \in Load : i \in Nat
  BY <1>0, AtHeaders DEF Loading, ExecInv, ExecTypeOK
<1>2. PICK a \in UserPages : a = FirstPage(ph_entry) /\ Header.touches[1] = a
  <2>1. Header.touches[1] = FirstPage(ph_entry)
    BY DEF Header, FirstPage, Touches, Segments
  <2> QED BY <1>0, <1>1, <2>1, LoadFacts
<1>3. PICK rights \in SUBSET Flags : rights = Rights(Segments[ph_entry]) /\ Rights(Header) = rights
  <2>1. Rights(Header) = Rights(Segments[ph_entry])
    BY DEF Header, Segments
  <2>2. Rights(Header) \in SUBSET Flags
    BY DEF Rights, Flags
  <2> QED BY <2>1, <2>2
<1>4. /\ Translated' /\ TypeOK' /\ pc' = "protect" /\ address' = a /\ flags' = rights
      /\ freelist' = freelist /\ Space' = Space /\ FrameOf' = FrameOf
  BY <1>0, <1>2, <1>3, StartSame DEF ExecInv, vm_protect
<1>5. Segments' = Segments /\ Load' = Load /\ \A i : Touches(i)' = Touches(i) /\ FirstPage(i)' = FirstPage(i)
  BY <1>0, SameModule
<1>6. \A i \in Load : i < ph_entry + 1 <=> i < ph_entry \/ i = ph_entry
  BY <1>1
<1>7. Asked' = Asked /\ Filled' = Filled
  BY <1>0, <1>1, <1>5, <1>6 DEF Asked, Filled
<1>8. ExecTypeOK' /\ DOMAIN data' = Frames \cup {0}
  BY <1>0, <1>1, <1>4 DEF ExecTypeOK, ExecInv
<1>9. Phases'
  BY <1>0, <1>1, <1>4, <1>5 DEF Phases, ExecInv, Loading, Calls
<1>10. Cleared' /\ Answered'
  BY <1>0, <1>4 DEF Cleared, Answered
<1>11. Arguments'
  <2>1. \E i \in Load : i + 1 = ph_entry' /\ address' = FirstPage(i) /\ flags' = Rights(Segments[i])
    BY <1>0, <1>1, <1>2, <1>3, <1>4
  <2>2. (\E i \in Load : /\ i + 1 = ph_entry /\ address = FirstPage(i)
                         /\ flags = Rights(Segments[i]))'
    BY <2>1, <1>5 DEF Rights
  <2> QED BY <2>2, <1>0, <1>4 DEF Arguments
<1>12. Confined'
  BY <1>0, <1>4, <1>5, <1>7 DEF Confined, ExecInv, Loading
<1>13. StackPages'
  BY <1>0, <1>4 DEF StackPages, ExecInv, Loading
<1>14. Copied'
  BY <1>0, <1>4, <1>5, <1>7 DEF Copied, ExecInv, Loading
<1>15. Protected'
  <2>1. ASSUME NEW i \in Load, i < ph_entry + 1
        PROVE  \/ Space[FirstPage(i)] = {"read"} \cup Rights(Segments[i])
               \/ i + 1 = ph_entry + 1
    BY <1>0, <1>6, <2>1 DEF Protected, ExecInv, Loading
  <2> QED BY <2>1, <1>0, <1>4, <1>5 DEF Protected, Rights
<1> QED BY <1>4, <1>8, <1>9, <1>10, <1>11, <1>12, <1>13, <1>14, <1>15 DEF ExecInv

LEMMA MapStackInv ==
  ASSUME ExecInv, MapStack
  PROVE  ExecInv'
<1>0. /\ step = "headers" /\ pc = "idle" /\ step' = "headers" /\ UNCHANGED modulename
      /\ ~HeadersLeft /\ p \in DOMAIN user_stack /\ vm_map(user_stack[p], FillRights)
      /\ p' = p + 1 /\ UNCHANGED <<ourmod, ph_entry, data>>
  BY DEF MapStack, At, FillRights
<1>1. /\ ourmod \in DOMAIN Modules /\ p \in Nat /\ p <= Len(user_stack)
      /\ Len(user_stack) \in Nat /\ p \in 1..Len(user_stack)
  BY <1>0, AtHeaders, StackFacts DEF Loading
<1>2. PICK a \in UserPages : a = user_stack[p] /\ a \in ToSet(user_stack)
  BY <1>0, StackFacts
<1>3. FillRights \in SUBSET Flags
  BY DEF FillRights, Flags
<1>4. /\ Translated' /\ TypeOK' /\ pc' = "map" /\ address' = a /\ flags' = FillRights
      /\ freelist' = freelist /\ Space' = Space /\ FrameOf' = FrameOf
  BY <1>0, <1>2, <1>3, StartSame DEF ExecInv, vm_map
<1>5. Segments' = Segments /\ Load' = Load /\ \A i : Touches(i)' = Touches(i) /\ FirstPage(i)' = FirstPage(i)
  BY <1>0, SameModule
<1>6. Asked' = Asked /\ Filled' = Filled
  BY <1>0, <1>5 DEF Asked, Filled
<1>7. ExecTypeOK' /\ DOMAIN data' = Frames \cup {0}
  <2>1. p' \in 1..Len(user_stack) + 1
    BY <1>0, <1>1
  <2> QED BY <2>1, <1>0, <1>1, <1>4 DEF ExecTypeOK, ExecInv
<1>8. Phases'
  BY <1>0, <1>4, <1>5 DEF Phases, ExecInv, Loading, Calls
<1>9. Cleared' /\ Answered'
  BY <1>0, <1>4 DEF Cleared, Answered
<1>10. Arguments'
  BY <1>0, <1>2, <1>4 DEF Arguments
<1>11. Confined'
  BY <1>0, <1>4, <1>5, <1>6 DEF Confined, ExecInv, Loading
<1>12. StackPages'
  <2>1. ASSUME NEW k \in DOMAIN user_stack, k < p + 1
        PROVE  Space[user_stack[k]] # {} \/ freelist = NULL \/ address' = user_stack[k]
    <3>1. k < p \/ k = p
      BY <1>1, <2>1, StackFacts
    <3> QED BY <3>1, <1>0, <1>2, <1>4 DEF ExecInv, StackPages, Loading
  <2>2. \A k \in DOMAIN user_stack : Space[user_stack[k]] \in {{}, Writable}
    BY <1>0 DEF ExecInv, StackPages, Loading
  <2> QED BY <2>1, <2>2, <1>0, <1>4 DEF StackPages
<1>13. Copied'
  BY <1>0, <1>4, <1>5, <1>6 DEF Copied, ExecInv, Loading
<1>14. Protected'
  BY <1>0, <1>4, <1>5 DEF Protected, ExecInv, Loading
<1> QED BY <1>4, <1>7, <1>8, <1>9, <1>10, <1>11, <1>12, <1>13, <1>14 DEF ExecInv

\* A step between calls that leaves the page tables and exec_setup alone.
LEMMA QuietInv ==
  ASSUME ExecInv, Translated', UNCHANGED <<mem, pc, address, flags, freelist>>,
         UNCHANGED <<modulename, ourmod, ph_entry, p, data>>,
         \/ step' = step
         \/ step = "headers" /\ step' = "user" /\ pc = "idle"
            /\ ~HeadersLeft /\ p \notin DOMAIN user_stack
  PROVE  ExecInv'
<1>0. TypeOK'
  BY DEF Translated, PagesOwned
<1>1. Space' = Space /\ FrameOf' = FrameOf
  BY SameSpace
<1>2. Segments' = Segments /\ Load' = Load /\ \A i : Touches(i)' = Touches(i) /\ FirstPage(i)' = FirstPage(i)
  BY SameModule
<1>3. /\ step' \in Loading <=> step \in Loading
      /\ step' \in {"find", "copy", "protect", "halted"} => step' = step
      /\ step' = "headers" => step = "headers"
  BY DEF Loading
<1>4. Asked' = Asked /\ Filled' = Filled
  BY <1>2, <1>3 DEF Asked, Filled
<1>5. ExecTypeOK' /\ DOMAIN data' = Frames \cup {0}
  BY <1>0 DEF ExecTypeOK, ExecInv, HeadersLeft, Header
<1>6. Phases'
  BY <1>2, <1>3 DEF Phases, ExecInv, HeadersLeft, Loading
<1>7. Cleared' /\ Answered'
  BY <1>1, <1>2, <1>3 DEF Cleared, Answered, ExecInv
<1>8. Arguments'
  BY <1>1, <1>2, <1>3 DEF Arguments, ExecInv, Rights
<1>9. Confined'
  BY <1>1, <1>2, <1>3, <1>4 DEF Confined, ExecInv
<1>10. StackPages'
  BY <1>1, <1>3 DEF StackPages, ExecInv
<1>11. Copied'
  BY <1>1, <1>2, <1>3, <1>4 DEF Copied, ExecInv
<1>12. Protected'
  BY <1>1, <1>2, <1>3 DEF Protected, ExecInv, Rights
<1> QED BY <1>5, <1>6, <1>7, <1>8, <1>9, <1>10, <1>11, <1>12 DEF ExecInv

LEMMA EntryInv ==
  ASSUME ExecInv, usermode_entry
  PROVE  ExecInv'
<1>1. Translated' /\ UNCHANGED <<mem, pc, address, flags, freelist>>
  BY StutterTranslated DEF usermode_entry, ExecInv, vars, memory, walk
<1> QED BY <1>1, QuietInv DEF usermode_entry, At

LEMMA TouchInv ==
  ASSUME ExecInv, NEW a \in Touched, ProgramTouch(a)
  PROVE  ExecInv'
<1>1. Translated'
  BY TouchTranslated DEF ProgramTouch, ExecInv
<1>2. UNCHANGED <<mem, pc, address, flags, freelist>> /\ step' = step
      /\ UNCHANGED <<modulename, ourmod, ph_entry, p, data>>
  BY DEF ProgramTouch, Touch, memory, walk, execvars
<1> QED BY <1>1, <1>2, QuietInv

LEMMA StutterInv ==
  ASSUME ExecInv, UNCHANGED allvars
  PROVE  ExecInv'
<1>1. UNCHANGED vars /\ UNCHANGED <<mem, pc, address, flags, freelist>> /\ step' = step
      /\ UNCHANGED <<modulename, ourmod, ph_entry, p, data>>
  BY DEF allvars, vars, memory, walk, execvars
<1>2. Translated'
  BY <1>1, StutterTranslated DEF ExecInv
<1> QED BY <1>1, <1>2, QuietInv

\* The loops of vm_map and vm_protect while a program is loaded.
LEMMA LoopInv ==
  ASSUME ExecInv, Translated', LoopEffect, UNCHANGED execvars,
         step \in {"headers", "copy"}, pc \in {"map", "protect"}
  PROVE  ExecInv'
<1>0. /\ step' = step /\ UNCHANGED <<modulename, ourmod, ph_entry, p, data>>
      /\ TypeOK' /\ address' = address /\ flags' = flags /\ step \in Loading
      /\ address \in UserPages
  <2>1. TypeOK' /\ step \in Loading
    BY DEF Translated, PagesOwned, Loading
  <2>2. address \in UserPages
    BY DEF ExecInv, ExecTypeOK, TypeOK
  <2> QED BY <2>1, <2>2 DEF execvars, LoopEffect
<1>1. /\ ourmod \in DOMAIN Modules /\ ph_entry \in Nat \ {0} /\ \A i \in Load : i \in Nat
      /\ step = "copy" => ph_entry \in Load
  BY <1>0, AtHeaders DEF ExecInv, ExecTypeOK
<1>2. Segments' = Segments /\ Load' = Load /\ \A i : Touches(i)' = Touches(i) /\ FirstPage(i)' = FirstPage(i)
  BY <1>0, SameModule
<1>3. Asked' = Asked /\ Filled' = Filled
  BY <1>0, <1>2 DEF Asked, Filled
<1>4. /\ pc' = pc \/ pc' = "idle"
      /\ pc' = pc => Space' = Space
      /\ \A a \in UserPages : a # address => Space'[a] = Space[a]
      /\ Space'[address] = Space[address] \/ Space'[address] = {"read"} \cup flags
      /\ \A a \in UserPages : Space[a] # {} => FrameOf'[a] = FrameOf[a]
      /\ freelist = NULL => freelist' = NULL
      /\ pc = "map" /\ pc' = "idle" =>
            /\ Space'[address] # {} \/ freelist' = NULL
            /\ Space[address] # {} => Space' = Space
      /\ pc = "protect" /\ pc' = "idle" /\ Space[address] # {} =>
            Space'[address] = {"read"} \cup flags
  <2>1. DOMAIN Space = UserPages \cup KernelPages
    BY DEF Space
  <2> QED BY <2>1, <1>0 DEF LoopEffect
<1>5. \A a \in UserPages : Space[a] # {} => Space'[a] # {}
  BY <1>4
<1>6. ExecTypeOK' /\ DOMAIN data' = Frames \cup {0}
  BY <1>0 DEF ExecTypeOK, ExecInv, HeadersLeft, Header
<1>7. Phases'
  BY <1>0, <1>2, <1>4 DEF Phases, ExecInv, Loading, Calls
<1>8. Cleared'
  BY <1>0 DEF Cleared
<1>9. Arguments'
  BY <1>0, <1>2, <1>4 DEF Arguments, ExecInv, Rights
<1>10. \A i \in Filled : i \in Load /\ FirstPage(i) \in UserPages /\ Space[FirstPage(i)] # {}
  BY <1>0, <1>1, LoadFacts DEF ExecInv, Copied, Filled
<1>11. ASSUME pc = "protect"
       PROVE  /\ step = "headers"
              /\ \E i \in Load : /\ i + 1 = ph_entry /\ address = FirstPage(i)
                                 /\ flags = Rights(Segments[i]) /\ i \in Filled
  <2>1. step = "headers"
    BY <1>11 DEF ExecInv, Phases
  <2>2. PICK i \in Load : i + 1 = ph_entry /\ address = FirstPage(i) /\ flags = Rights(Segments[i])
    BY <1>11, <2>1 DEF ExecInv, Arguments
  <2>3. i < ph_entry
    BY <1>1, <2>2
  <2> QED BY <2>1, <2>2, <2>3 DEF Filled
<1>12. Confined'
  <2>1. address \in ToSet(user_stack) \/ \E i \in Asked : address = FirstPage(i)
    <3>1. CASE pc = "protect"
      BY <3>1, <1>11 DEF Asked, Filled
    <3>2. CASE pc = "map" /\ step = "headers"
      BY <3>2 DEF ExecInv, Arguments
    <3>3. CASE pc = "map" /\ step = "copy"
      <4>1. address = FirstPage(ph_entry) /\ ph_entry \in Asked
        BY <3>3, <1>1 DEF ExecInv, Arguments, Asked
      <4> QED BY <4>1
    <3> QED BY <3>1, <3>2, <3>3
  <2>2. ASSUME NEW a \in UserPages, Space'[a] # {}
        PROVE  a \in ToSet(user_stack) \/ \E i \in Asked : a = FirstPage(i)
    <3>1. CASE a = address
      BY <3>1, <2>1
    <3>2. CASE a # address
      BY <3>2, <2>2, <1>0, <1>4 DEF ExecInv, Confined
    <3> QED BY <3>1, <3>2
  <2> QED BY <2>2, <1>2, <1>3 DEF Confined
<1>13. StackPages'
  <2> SUFFICES ASSUME NEW k \in DOMAIN user_stack
               PROVE  /\ Space'[user_stack[k]] \in {{}, Writable}
                      /\ k < p => \/ Space'[user_stack[k]] # {} \/ freelist' = NULL
                                  \/ step = "headers" /\ pc' = "map" /\ address = user_stack[k]
    BY <1>0 DEF StackPages
  <2>1. user_stack[k] \in UserPages /\ user_stack[k] \in ToSet(user_stack)
    BY StackFacts
  <2>2. /\ Space[user_stack[k]] \in {{}, Writable}
        /\ k < p => \/ Space[user_stack[k]] # {} \/ freelist = NULL
                    \/ step = "headers" /\ pc = "map" /\ address = user_stack[k]
    BY <1>0 DEF ExecInv, StackPages
  <2>3. pc = "protect" => address # user_stack[k]
    BY <1>1, <1>11, <2>1, LoadFacts DEF FirstPage
  <2>4. Space'[user_stack[k]] \in {{}, Writable}
    <3>1. CASE address # user_stack[k]
      BY <3>1, <1>4, <2>1, <2>2
    <3>2. CASE address = user_stack[k]
      <4>1. pc = "map" /\ flags = FillRights
        BY <3>2, <2>3 DEF ExecInv, Arguments
      <4> QED BY <3>2, <4>1, <1>4, <2>2 DEF Writable
    <3> QED BY <3>1, <3>2
  <2>5. k < p => \/ Space'[user_stack[k]] # {} \/ freelist' = NULL
                 \/ step = "headers" /\ pc' = "map" /\ address = user_stack[k]
    BY <1>4, <1>5, <2>1, <2>2
  <2> QED BY <2>4, <2>5
<1>14. Answered'
  <2> SUFFICES ASSUME step = "copy", pc' = "idle"
               PROVE  Space'[FirstPage(ph_entry)] = Writable \/ freelist' = NULL
    BY <1>0, <1>2 DEF Answered
  <2>1. pc = "map"
    BY <1>11
  <2>2. address = FirstPage(ph_entry) /\ Space[address] = {} /\ flags = FillRights
    BY <2>1 DEF ExecInv, Arguments
  <2> QED BY <1>4, <2>1, <2>2 DEF Writable
<1>15. Copied'
  <2>1. ASSUME NEW i \in Filled
        PROVE  /\ DOMAIN Touches(i) = {1} /\ Space'[FirstPage(i)] # {}
               /\ data[FrameOf'[FirstPage(i)]] = <<ourmod, i, 1>>
    BY <1>0, <1>4, <1>5, <1>10 DEF ExecInv, Copied
  <2> QED BY <2>1, <1>0, <1>2, <1>3 DEF Copied
<1>16. Protected'
  <2>1. ASSUME NEW i \in Load, i < ph_entry
        PROVE  \/ Space'[FirstPage(i)] = {"read"} \cup Rights(Segments[i])
               \/ pc' = "protect" /\ i + 1 = ph_entry
    <3>0. i \in Filled
      BY <2>1 DEF Filled
    <3>1. FirstPage(i) \in UserPages /\ Space[FirstPage(i)] # {}
      BY <3>0, <1>10
    <3>2. \/ Space[FirstPage(i)] = {"read"} \cup Rights(Segments[i])
          \/ pc = "protect" /\ i + 1 = ph_entry
      BY <2>1, <1>0 DEF ExecInv, Protected
    <3>3. CASE pc' = pc
      BY <3>2, <3>3, <1>4
    <3>4. CASE pc' = "idle" /\ pc = "map"
      <4>1. Space'[FirstPage(i)] = Space[FirstPage(i)]
        BY <3>1, <3>4, <1>4
      <4> QED BY <3>2, <3>4, <4>1
    <3>5. CASE pc' = "idle" /\ pc = "protect"
      <4>1. PICK j \in Load : /\ j + 1 = ph_entry /\ address = FirstPage(j)
                              /\ flags = Rights(Segments[j]) /\ j \in Filled
        BY <3>5, <1>11
      <4>2. CASE i = j
        BY <3>1, <3>5, <4>1, <4>2, <1>4
      <4>3. CASE i # j
        <5>1. FirstPage(i) # address
          BY <1>1, <4>1, <4>3, LoadFacts DEF FirstPage
        <5>2. i + 1 # ph_entry
          BY <1>1, <4>1, <4>3
        <5> QED BY <3>1, <3>2, <5>1, <5>2, <1>4
      <4> QED BY <4>2, <4>3
    <3> QED BY <3>3, <3>4, <3>5, <1>4
  <2> QED BY <2>1, <1>0, <1>2 DEF Protected, Rights
<1> QED BY <1>6, <1>7, <1>8, <1>9, <1>12, <1>13, <1>14, <1>15, <1>16 DEF ExecInv

LEMMA KernelInv ==
  ASSUME ExecInv, KernelStep, UNCHANGED execvars
  PROVE  ExecInv'
<1>0. /\ step' = step /\ UNCHANGED <<modulename, ourmod, ph_entry, p, data>>
      /\ Translated /\ Translated' /\ TypeOK' /\ pc # "idle"
  BY KernelTranslated, IdleKernel DEF execvars, ExecInv, Translated, PagesOwned
<1>1. ExecTypeOK' /\ DOMAIN data' = Frames \cup {0}
  BY <1>0 DEF ExecTypeOK, ExecInv, HeadersLeft, Header
<1>2. step \in {"boot", "find", "headers", "copy"}
  BY <1>0 DEF ExecInv, ExecTypeOK, Phases
<1>3. CASE step = "boot"
  <2>1. Phases'
    BY <1>0, <1>3 DEF Phases, ExecInv, Loading
  <2> QED BY <1>0, <1>1, <1>3, <2>1, NotLoading DEF ExecInv, Loading
<1>4. CASE step = "find"
  <2>1. pc \in Unmapping
    BY <1>0, <1>4 DEF ExecInv, Phases
  <2>2. \/ pc' \in Unmapping
        \/ pc' = "idle" /\ \A a \in UserPages : Space'[a] = {}
    BY <1>0, <2>1, UnmapEffects
  <2>3. Phases'
    BY <1>0, <1>4, <2>2 DEF Phases, ExecInv, Loading
  <2>4. Cleared'
    BY <2>2 DEF Cleared, Unmapping
  <2>5. Confined' /\ Arguments' /\ StackPages' /\ Answered' /\ Copied' /\ Protected'
    BY <1>0, <1>4 DEF Confined, Arguments, StackPages, Answered, Copied, Protected, Loading
  <2> QED BY <1>0, <1>1, <2>3, <2>4, <2>5 DEF ExecInv
<1>5. CASE step \in {"headers", "copy"}
  <2>1. pc \in {"map", "protect"}
    BY <1>0, <1>5 DEF ExecInv, Phases, Calls
  <2> QED BY <1>0, <1>5, <2>1, LoopEffects, LoopInv
<1> QED BY <1>2, <1>3, <1>4, <1>5

LEMMA NextExec ==
  ASSUME ExecInv, [ExecNext]_allvars
  PROVE  ExecInv'
<1>1. CASE BootExec
  BY <1>1, ExecSetupInv DEF BootExec
<1>2. CASE NameFault \/ NotFound \/ CopyFault \/ ProgramFault
  <2>1. /\ pc = "idle" /\ step' = "halted"
        /\ UNCHANGED <<vars, modulename, ourmod, ph_entry, p, data>>
    BY <1>2 DEF NameFault, NotFound, CopyFault, ProgramFault, At
  <2> QED BY <2>1, StopInv
<1>3. CASE FindModule
  BY <1>3, FindModuleInv
<1>4. CASE SkipHeader
  BY <1>4, SkipHeaderInv
<1>5. CASE MapSegment
  BY <1>5, MapSegmentInv
<1>6. CASE CopySegment
  BY <1>6, CopySegmentInv
<1>7. CASE ProtectSegment
  BY <1>7, ProtectSegmentInv
<1>8. CASE MapStack
  BY <1>8, MapStackInv
<1>9. CASE usermode_entry
  BY <1>9, EntryInv
<1>10. CASE KernelStep /\ UNCHANGED execvars
  BY <1>10, KernelInv
<1>11. ASSUME NEW a \in Touched, ProgramTouch(a) PROVE ExecInv'
  BY <1>11, TouchInv
<1>12. ASSUME NEW call \in UserCalls, ProgramExec(call) PROVE ExecInv'
  BY <1>12, ExecSetupInv DEF ProgramExec
<1>13. CASE UNCHANGED allvars
  BY <1>13, StutterInv
<1> QED BY <1>1, <1>2, <1>3, <1>4, <1>5, <1>6, <1>7, <1>8, <1>9, <1>10, <1>11, <1>12, <1>13
       DEF ExecNext, ExecStep
-----------------------------------------------------------------------------
(***************************************************************************)
(* What exec promises.                                                     *)
(***************************************************************************)

\* The invariant of exec_setup is inductive.
THEOREM ExecAlways == ExecSpec => []ExecInv
<1>1. ExecInit => ExecInv
  BY InitExec
<1>2. ExecInv /\ [ExecNext]_allvars => ExecInv'
  BY NextExec
<1> QED BY <1>1, <1>2, PTL DEF ExecSpec

(***************************************************************************)
(* exec_setup's variables keep their types: a module and a loadable header *)
(* are at hand wherever it uses them.                                      *)
(***************************************************************************)
THEOREM ExecTypeCorrect == ExecSpec => []ExecTypeOK
<1>1. ExecInv => ExecTypeOK
  BY DEF ExecInv
<1> QED BY <1>1, ExecAlways, PTL

(***************************************************************************)
(* exec leaks no page and gives none out twice, also when it stops half    *)
(* way through a segment or the stack.                                     *)
(***************************************************************************)
THEOREM ExecPartition == ExecSpec => []Partition
<1>1. ExecInv => PagesOwned
  BY DEF ExecInv, Translated
<1> QED BY <1>1, OwnedPartition, ExecAlways, PTL

\* When the program runs exec_setup has gone through all headers.
LEMMA AllLoaded ==
  ASSUME ExecInv, step = "user"
  PROVE  /\ pc = "idle" /\ step \in Loading /\ ourmod \in DOMAIN Modules
         /\ \A i \in Load : i < ph_entry /\ i \in Asked /\ i \in Filled
<1>1. /\ pc = "idle" /\ step \in Loading /\ ~HeadersLeft
  BY DEF ExecInv, Phases, Loading
<1>2. /\ ourmod \in DOMAIN Modules /\ ph_entry \in 1..Len(Segments) + 1 /\ Len(Segments) \in Nat
      /\ (HeadersLeft <=> ph_entry <= Len(Segments)) /\ DOMAIN Segments = 1..Len(Segments)
  BY <1>1, AtHeaders
<1>3. \A i \in Load : i \in 1..Len(Segments)
  BY <1>2, LoadFacts
<1>4. \A i \in Load : i < ph_entry
  BY <1>1, <1>2, <1>3
<1> QED BY <1>1, <1>2, <1>4 DEF Asked, Filled

(***************************************************************************)
(* unmap_lower_half and exec_setup leave a program nothing of those before *)
(* it, in its page tables or in a cached translation.                      *)
(***************************************************************************)
THEOREM NothingLeftOver == ExecSpec => []OnlyOwnPages
<1>1. ExecInv => OnlyOwnPages
  <2> SUFFICES ASSUME ExecInv, step = "user", NEW a \in UserPages, Seen(a).access # {}
               PROVE  a \in OwnPages(Modules[ourmod])
    BY DEF OnlyOwnPages
  <2>1. pc = "idle" /\ step \in Loading /\ ourmod \in DOMAIN Modules
    BY AllLoaded
  <2>2. Space[a] # {}
    BY <2>1, SeenIs DEF ExecInv
  <2>3. CASE a \in ToSet(user_stack)
    BY <2>3 DEF OwnPages
  <2>4. CASE \E i \in Asked : a = FirstPage(i)
    <3>1. PICK i \in Load : a = FirstPage(i)
      BY <2>4 DEF Asked
    <3>2. a \in ToSet(Touches(i))
      BY <2>1, <3>1, LoadFacts DEF FirstPage
    <3>3. i \in Loads(Modules[ourmod]) /\ Touches(i) = Modules[ourmod].segments[i].touches
      BY DEF Load, Touches, Segments
    <3> QED BY <3>2, <3>3 DEF OwnPages
  <2> QED BY <2>1, <2>2, <2>3, <2>4 DEF ExecInv, Confined
<1> QED BY <1>1, ExecAlways, PTL

(***************************************************************************)
(* exec_setup never starts a program that is half loaded, although it      *)
(* looks at no result of vm_map and maps one page per segment.             *)
(***************************************************************************)
THEOREM LoadedWhole == ExecSpec => []StartsWhole
<1>1. ExecInv => StartsWhole
  <2> SUFFICES ASSUME ExecInv, step = "user" PROVE StartsWhole
    BY DEF StartsWhole
  <2>1. /\ pc = "idle" /\ step \in Loading /\ ourmod \in DOMAIN Modules
        /\ \A i \in Load : i < ph_entry /\ i \in Asked /\ i \in Filled
    BY AllLoaded
  <2>2. ASSUME NEW i \in Load, NEW k \in DOMAIN Touches(i)
        PROVE  /\ Seen(Touches(i)[k]).access = {"read"} \cup Rights(Segments[i])
               /\ data[Seen(Touches(i)[k]).base] = <<ourmod, i, k>>
    <3>1. /\ DOMAIN Touches(i) = {1}
          /\ data[FrameOf[FirstPage(i)]] = <<ourmod, i, 1>>
      BY <2>1 DEF ExecInv, Copied
    <3>2. Space[FirstPage(i)] = {"read"} \cup Rights(Segments[i])
      BY <2>1 DEF ExecInv, Protected
    <3>3. k = 1 /\ Touches(i)[k] = FirstPage(i) /\ FirstPage(i) \in UserPages
      BY <2>1, <3>1, LoadFacts DEF FirstPage
    <3>4. /\ Seen(FirstPage(i)).access = Space[FirstPage(i)]
          /\ Seen(FirstPage(i)).base = FrameOf[FirstPage(i)]
      BY <2>1, <3>3, SeenIs DEF ExecInv
    <3> QED BY <3>1, <3>2, <3>3, <3>4
  <2>3. ASSUME NEW a \in ToSet(user_stack)
        PROVE  Seen(a).access \in {{}, {"read", "user", "writable"}}
    <3>1. PICK k \in DOMAIN user_stack : a = user_stack[k] /\ a \in UserPages
      BY StackFacts
    <3>2. Space[a] \in {{}, Writable}
      BY <2>1, <3>1 DEF ExecInv, StackPages
    <3>3. Seen(a).access = Space[a]
      BY <2>1, <3>1, SeenIs DEF ExecInv
    <3> QED BY <3>2, <3>3 DEF Writable, FillRights
  <2> QED BY <2>2, <2>3 DEF StartsWhole, Load, Touches, Segments
<1> QED BY <1>1, ExecAlways, PTL

\* Where exec gives up.
LEMMA NameCause ==
  ASSUME ExecInv, NamesMapped, NameFault
  PROVE  modulename.page \in UserPages
<1>0. /\ step = "find" /\ pc = "idle" /\ Seen(modulename.page).access = {}
  BY DEF NameFault, At
<1>1. modulename \in UserCalls \cup {BootCall}
  BY DEF ExecInv, ExecTypeOK
<1>2. modulename.page \in UserPages \cup KernelPages
  BY <1>1, ExecAssumption
<1>3. Access(modulename.page) = {}
  BY <1>0, <1>2, SeenIs DEF ExecInv
<1>4. modulename.page \notin KernelPages
  BY <1>1, <1>3 DEF NamesMapped
<1> QED BY <1>1, <1>2, <1>4

LEMMA CopyCause ==
  ASSUME ExecInv, CopyFault
  PROVE  freelist = NULL \/ \E i \in Load : Len(Touches(i)) > 1
<1>0. /\ step = "copy" /\ pc = "idle" /\ step \in Loading
      /\ \E a \in ToSet(Header.touches) : "writable" \notin Seen(a).access
  BY DEF CopyFault, At, Loading
<1>1. ourmod \in DOMAIN Modules /\ ph_entry \in Load /\ Header = Segments[ph_entry]
  BY <1>0, AtHeaders DEF ExecInv, ExecTypeOK
<1>2. PICK n \in Load : n = ph_entry
  BY <1>1
<1>3. PICK k \in DOMAIN Touches(n) : "writable" \notin Seen(Touches(n)[k]).access
  <2>1. Header.touches = Touches(n)
    BY <1>1, <1>2 DEF Touches
  <2> QED BY <1>0, <1>1, <2>1, LoadFacts
<1>4. CASE k = 1
  <2>1. Touches(n)[k] = FirstPage(n) /\ FirstPage(n) \in UserPages
    BY <1>1, <1>4, LoadFacts DEF FirstPage
  <2>2. Space[FirstPage(n)] # Writable
    BY <1>0, <1>3, <2>1, SeenIs DEF ExecInv, Writable, FillRights
  <2> QED BY <1>0, <1>2, <2>2 DEF ExecInv, Answered
<1>5. CASE k # 1
  <2>1. Touches(n) \in Seq(UserPages)
    <3>1. Segments[n] \in Segment
      <4>1. Segments \in Seq(Segment)
        BY <1>1, ExecAssumption DEF Segments, ToSet
      <4>2. n \in 1..Len(Segments)
        BY <1>1, LoadFacts
      <4> QED BY <4>1, <4>2, ElementOfSeq
    <3> QED BY <3>1 DEF Segment, Touches
  <2>2. Len(Touches(n)) \in Nat /\ k \in 1..Len(Touches(n))
    BY <2>1, LenProperties
  <2>3. Len(Touches(n)) > 1
    BY <1>5, <2>2
  <2> QED BY <2>3
<1> QED BY <1>4, <1>5

LEMMA RunCause ==
  ASSUME ExecInv, ProgramFault
  PROVE  freelist = NULL
<1> SUFFICES ASSUME freelist # NULL PROVE CanRun
  BY DEF ProgramFault
<1>0. step = "user"
  BY DEF ProgramFault, At
<1>1. /\ pc = "idle" /\ step \in Loading /\ ourmod \in DOMAIN Modules
      /\ \A i \in Load : i < ph_entry /\ i \in Asked /\ i \in Filled
  BY <1>0, AllLoaded
<1>2. PICK i \in Load : /\ Modules[ourmod].e_entry \in ToSet(Touches(i))
                        /\ "X" \in Segments[i].p_flags
  <2>1. Modules[ourmod] \in ToSet(Modules)
    BY <1>1 DEF ToSet
  <2> QED BY <2>1, ExecAssumption DEF Load, Touches, Segments
<1>3. Modules[ourmod].e_entry = FirstPage(i) /\ FirstPage(i) \in UserPages
  <2>1. DOMAIN Touches(i) = {1}
    BY <1>1 DEF ExecInv, Copied
  <2> QED BY <1>1, <1>2, <2>1, LoadFacts DEF FirstPage
<1>4. Seen(Modules[ourmod].e_entry).access = {"read"} \cup Rights(Segments[i])
  <2>1. Space[FirstPage(i)] = {"read"} \cup Rights(Segments[i])
    BY <1>1 DEF ExecInv, Protected
  <2> QED BY <1>1, <1>3, <2>1, SeenIs DEF ExecInv
<1>5. {"user", "executable"} \subseteq Seen(Modules[ourmod].e_entry).access
  BY <1>2, <1>4 DEF Rights
<1>6. PICK k \in DOMAIN user_stack : k = Len(user_stack) /\ k < p
  <2>1. p \in 1..Len(user_stack) + 1 /\ p \notin DOMAIN user_stack
    BY <1>0 DEF ExecInv, ExecTypeOK, Phases
  <2> QED BY <2>1, StackFacts
<1>7. Space[user_stack[k]] = Writable
  BY <1>0, <1>1, <1>6 DEF ExecInv, StackPages
<1>8. {"user", "writable"} \subseteq Seen(StackTop).access
  <2>1. StackTop = user_stack[k] /\ StackTop \in UserPages
    BY <1>6, StackFacts DEF StackTop
  <2> QED BY <1>1, <1>7, <2>1, SeenIs DEF ExecInv, Writable, FillRights
<1> QED BY <1>5, <1>8 DEF CanRun

LEMMA HaltStep ==
  ASSUME ExecInv, NamesMapped, HaltsForCause, [ExecNext]_allvars
  PROVE  HaltsForCause'
<1> SUFFICES ASSUME step' = "halted" PROVE HaltsForCause'
  BY DEF HaltsForCause
<1>1. CASE step = "halted"
  <2>1. UNCHANGED allvars
    <3>1. pc = "idle"
      BY <1>1 DEF ExecInv, Phases
    <3>2. ~KernelStep
      BY <3>1, IdleKernel
    <3> QED BY <1>1, <3>2 DEF ExecNext, ExecStep, BootExec, NameFault, FindModule, NotFound,
             SkipHeader, MapSegment, CopySegment, CopyFault, ProtectSegment, MapStack,
             usermode_entry, ProgramFault, ProgramTouch, ProgramExec, At
  <2>2. UNCHANGED <<step, modulename, ourmod, freelist>>
    BY <2>1 DEF allvars, execvars, vars, memory
  <2>3. Matching' = Matching
    BY <2>2 DEF Matching, SelectInSeq
  <2> QED BY <2>2, <2>3 DEF HaltsForCause
<1>2. CASE step # "halted"
  <2>1. NameFault \/ NotFound \/ CopyFault \/ ProgramFault
    BY <1>2 DEF ExecNext, ExecStep, BootExec, FindModule, SkipHeader, MapSegment, CopySegment,
       ProtectSegment, MapStack, usermode_entry, ProgramTouch, ProgramExec, At, exec_setup,
       execvars, allvars
  <2>2. UNCHANGED <<modulename, ourmod, freelist>>
    BY <2>1 DEF NameFault, NotFound, CopyFault, ProgramFault, At, vars, memory
  <2>3. Matching' = Matching
    BY <2>2 DEF Matching, SelectInSeq
  <2>4. NotFound => Matching = 0
    BY DEF NotFound
  <2>5. \/ modulename.page \in UserPages
        \/ Matching = 0
        \/ freelist = NULL
        \/ \E i \in Load : Len(Touches(i)) > 1
    BY <2>1, <2>4, NameCause, CopyCause, RunCause
  <2> QED BY <2>2, <2>3, <2>5 DEF HaltsForCause, Load, Touches, Segments
<1> QED BY <1>1, <1>2

LEMMA NamesStep ==
  ASSUME ExecInv, ExecInv', NamesMapped
  PROVE  NamesMapped'
<1>1. \A a \in KernelPages : Access(a)' = Access(a)
  BY UpperSteps DEF ExecInv, Translated
<1>2. ASSUME NEW c \in UserCalls \cup {BootCall}, c.page \in KernelPages
      PROVE  Access(c.page)' # {}
  BY <1>1, <1>2 DEF NamesMapped
<1> QED BY <1>2 DEF NamesMapped

(***************************************************************************)
(* The four reasons for which exec stops the machine are all there are,    *)
(* where the names that the kernel keeps in its own half are mapped.       *)
(***************************************************************************)
THEOREM HaltsOnlyForCause == ExecSpec /\ NamesMapped => []HaltsForCause
<1>1. ExecInit => HaltsForCause
  BY DEF ExecInit, HaltsForCause
<1>2. ExecInv /\ ExecInv' /\ NamesMapped /\ HaltsForCause /\ [ExecNext]_allvars
        => NamesMapped' /\ HaltsForCause'
  BY HaltStep, NamesStep
<1> QED BY <1>1, <1>2, ExecAlways, PTL DEF ExecSpec
=============================================================================
