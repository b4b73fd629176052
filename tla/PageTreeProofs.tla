--------------------------- MODULE PageTreeProofs ---------------------------
(***************************************************************************)
(* Proofs about Paging.tla, for every page size, memory map and set of     *)
(* addresses: who owns each page of memory.                                *)
(*                                                                         *)
(* Every page has a role, and a table or a mapped page has one parent:     *)
(* the table dad that leads to it and the index idx of the entry.  The     *)
(* inductive invariant says that such roles and parents exist; each step   *)
(* of the kernel is shown to have new ones.                                *)
(***************************************************************************)
EXTENDS Paging, FiniteSetTheorems, SequenceTheorems, TLAPS

Pages == Frames \cup {NULL}

-----------------------------------------------------------------------------
(***************************************************************************)
(* Addresses.                                                              *)
(***************************************************************************)

\* The pages of memory, by their number.
LEMMA PageNumber ==
  /\ Pages \subseteq Nat
  /\ \A p \in Pages : \E f \in 0..FRAMES - 1 : p = f * PAGE
  /\ \A f \in 0..FRAMES - 1 : f * PAGE \in Pages
<1>0. PAGE \in Nat /\ FRAMES \in Nat
  BY PagingAssumption
<1>1. CR3 \in Frames
  BY PagingAssumption
<1>2. PICK g \in 1..FRAMES - 1 : CR3 = g * PAGE
  BY <1>1 DEF Frames
<1>3. 0 \in 0..FRAMES - 1 /\ 0 * PAGE = 0
  BY <1>0, <1>2
<1>4. ASSUME NEW f \in 0..FRAMES - 1
      PROVE  f * PAGE \in Pages /\ f * PAGE \in Nat
  <2>1. CASE f = 0
    BY <2>1, <1>3 DEF Pages, NULL
  <2>2. CASE f # 0
    BY <2>2, <1>0 DEF Pages, Frames
  <2> QED BY <2>1, <2>2
<1>5. ASSUME NEW p \in Pages
      PROVE  \E f \in 0..FRAMES - 1 : p = f * PAGE
  BY <1>3, <1>0 DEF Pages, Frames, NULL
<1> QED BY <1>4, <1>5

\* Pages do not overlap.
LEMMA PageOrder ==
  ASSUME NEW p \in Pages, NEW q \in Pages, p < q
  PROVE  p + PAGE <= q
<1>0. PAGE \in Nat
  BY PagingAssumption
<1>1. PICK f \in 0..FRAMES - 1 : p = f * PAGE
  BY PageNumber
<1>2. PICK g \in 0..FRAMES - 1 : q = g * PAGE
  BY PageNumber
<1>3. FRAMES \in Nat /\ f \in Nat /\ g \in Nat
  BY PagingAssumption
<1>4. ~(g <= f)
  <2> SUFFICES ASSUME g <= f PROVE FALSE
    OBVIOUS
  <2> DEFINE d == f - g
  <2>1. d \in Nat /\ f = g + d
    BY <1>3
  <2> HIDE DEF d
  <2>2. d * PAGE \in Nat /\ g * PAGE \in Nat /\ f * PAGE = g * PAGE + d * PAGE
    BY <2>1, <1>0, <1>3
  <2> QED BY <2>2, <1>1, <1>2
<1> DEFINE d == g - f - 1
<1>5. d \in Nat /\ g = f + d + 1
  BY <1>3, <1>4
<1> HIDE DEF d
<1>6. d * PAGE \in Nat /\ f * PAGE \in Nat /\ g * PAGE = f * PAGE + d * PAGE + PAGE
  BY <1>0, <1>3, <1>5
<1> QED BY <1>6, <1>1, <1>2, <1>0

\* An entry of a page is a word of memory.
LEMMA EntryWord ==
  ASSUME NEW p \in Pages, NEW i \in Index
  PROVE  p + i \in Words /\ p \in Words
<1>0. PAGE \in Nat /\ FRAMES \in Nat /\ PAGE > 0
  BY PagingAssumption
<1>1. PICK f \in 0..FRAMES - 1 : p = f * PAGE
  BY PageNumber
<1> DEFINE d == FRAMES - 1 - f
<1>2. d \in Nat /\ FRAMES = f + d + 1 /\ f \in Nat
  BY <1>0
<1> HIDE DEF d
<1>3. d * PAGE \in Nat /\ f * PAGE \in Nat /\ FRAMES * PAGE = f * PAGE + d * PAGE + PAGE
  BY <1>0, <1>2
<1> QED BY <1>0, <1>1, <1>3 DEF Words, Index

\* A word belongs to one page, at one index.
LEMMA WordUnique ==
  ASSUME NEW p \in Pages, NEW q \in Pages, NEW i \in Index, NEW j \in Index,
         p + i = q + j
  PROVE  p = q /\ i = j
<1>0. PAGE \in Nat /\ p \in Nat /\ q \in Nat
  BY PagingAssumption, PageNumber
<1>1. ~(p < q)
  BY <1>0, PageOrder DEF Index
<1>2. ~(q < p)
  BY <1>0, PageOrder DEF Index
<1> QED BY <1>0, <1>1, <1>2 DEF Index

\* Indices: 0 is one, and those of the lower half are.
LEMMA Indices ==
  /\ 0 \in Index /\ Index \subseteq Nat
  /\ 0 \in LowerIndex /\ LowerIndex \subseteq Index
  /\ PAGE \div 2 \in Nat /\ PAGE \div 2 <= PAGE
<1>1. PAGE \in Nat /\ PAGE >= 2
  BY PagingAssumption
<1>2. PAGE \div 2 \in Nat /\ PAGE \div 2 <= PAGE /\ PAGE \div 2 >= 1
  BY <1>1
<1> QED BY <1>1, <1>2 DEF Index, LowerIndex

\* A word that leads somewhere leads to a page, and a link where it was made to.
LEMMA Bases ==
  /\ \A e \in Entry : Base(e) \in Pages
  /\ \A p \in Pages : Link(p) \in Entry /\ Base(Link(p)) = p
<1>0. PAGE \in Nat /\ FRAMES \in Nat /\ PAGE > 0
  BY PagingAssumption
<1>1. ASSUME NEW e \in Entry
      PROVE  Base(e) \in Pages
  BY PageNumber DEF Base, Entry
<1>2. ASSUME NEW p \in Pages
      PROVE  Link(p) \in Entry /\ Base(Link(p)) = p
  <2>1. PICK f \in 0..FRAMES - 1 : p = f * PAGE
    BY PageNumber
  <2>2. p \div PAGE = f
    BY <2>1, <1>0
  <2> QED BY <2>1, <2>2 DEF Link, Base, Entry, Flags
<1> QED BY <1>1, <1>2
-----------------------------------------------------------------------------
(***************************************************************************)
(* The freelist.                                                           *)
(***************************************************************************)

\* The pages in a sequence.
LEMMA InSet ==
  ASSUME NEW s \in Seq(Frames), NEW p
  PROVE  p \in ToSet(s) <=> \E k \in 1..Len(s) : s[k] = p
BY DEF ToSet

\* What putting a page on the freelist does.
LEMMA PushFacts ==
  ASSUME TypeOK, NEW p \in Frames, NEW count \in Int, Push(p, count)
  PROVE  /\ mem' \in [Words -> Entry]
         /\ \A w \in Words : w # p => mem'[w] = mem[w]
         /\ mem'[p] = Link(freelist)
         /\ free' \in Seq(Frames) /\ Len(free') = Len(free) + 1
         /\ free'[1] = p
         /\ \A k \in 1..Len(free) : free'[k + 1] = free[k]
         /\ \A q : q \in ToSet(free') <=> q = p \/ q \in ToSet(free)
         /\ freelist' = p
         /\ free_page_counter' = free_page_counter + count
         /\ free_page_counter' \in Int
<1>0. /\ mem \in [Words -> Entry] /\ freelist \in Pages /\ free \in Seq(Frames)
      /\ free_page_counter \in Int
  BY DEF TypeOK, Pages
<1>1. p \in Words
  BY EntryWord, Indices DEF Pages
<1>2. Link(freelist) \in Entry
  BY <1>0, Bases
<1>3. /\ mem' = [mem EXCEPT ![p] = Link(freelist)]
      /\ free' = <<p>> \o free
      /\ freelist' = p /\ free_page_counter' = free_page_counter + count
  BY DEF Push
<1>4. /\ mem' \in [Words -> Entry]
      /\ \A w \in Words : w # p => mem'[w] = mem[w]
      /\ mem'[p] = Link(freelist)
  BY <1>0, <1>1, <1>2, <1>3
<1>5. /\ free' \in Seq(Frames) /\ Len(free') = Len(free) + 1
      /\ free'[1] = p
      /\ \A k \in 1..Len(free) : free'[k + 1] = free[k]
  <2>1. <<p>> \in Seq(Frames) /\ Len(<<p>>) = 1 /\ <<p>>[1] = p
    OBVIOUS
  <2> DEFINE one == <<p>>
  <2>2. one \in Seq(Frames) /\ Len(one) = 1 /\ one[1] = p
    BY <2>1
  <2> HIDE DEF one
  <2>3. /\ one \o free \in Seq(Frames)
        /\ Len(one \o free) = Len(one) + Len(free)
        /\ \A k \in 1..Len(one) + Len(free) :
              (one \o free)[k] = IF k <= Len(one) THEN one[k] ELSE free[k - Len(one)]
    BY <2>2, <1>0, ConcatProperties
  <2>4. free' = one \o free
    BY <1>3 DEF one
  <2>5. Len(free) \in Nat
    BY <1>0
  <2> QED BY <2>2, <2>3, <2>4, <2>5
<1>6. ASSUME NEW q
      PROVE  q \in ToSet(free') <=> q = p \/ q \in ToSet(free)
  <2>1. Len(free) \in Nat
    BY <1>0
  <2>2. q \in ToSet(free') <=> \E k \in 1..Len(free') : free'[k] = q
    BY <1>5, InSet
  <2>3. q \in ToSet(free) <=> \E k \in 1..Len(free) : free[k] = q
    BY <1>0, InSet
  <2>4. ASSUME NEW k \in 1..Len(free'), free'[k] = q
        PROVE  q = p \/ \E j \in 1..Len(free) : free[j] = q
    <3>1. CASE k = 1
      BY <3>1, <2>4, <1>5
    <3>2. CASE k # 1
      <4>1. k - 1 \in 1..Len(free) /\ k = (k - 1) + 1
        BY <3>2, <2>1, <1>5
      <4> QED BY <4>1, <2>4, <1>5
    <3> QED BY <3>1, <3>2
  <2>5. ASSUME NEW j \in 1..Len(free), free[j] = q
        PROVE  \E k \in 1..Len(free') : free'[k] = q
    <3>1. j + 1 \in 1..Len(free')
      BY <2>1, <1>5
    <3> QED BY <3>1, <2>5, <1>5
  <2>6. 1 \in 1..Len(free')
    BY <2>1, <1>5
  <2> QED BY <2>2, <2>3, <2>4, <2>5, <2>6, <1>5
<1> QED BY <1>0, <1>3, <1>4, <1>5, <1>6

\* A page that is not on the freelist can be put in front of it.
LEMMA PushIntact ==
  ASSUME TypeOK, FreelistIntact, NEW p \in Frames, NEW count \in Int, Push(p, count),
         p \notin ToSet(free)
  PROVE  FreelistIntact'
<1>0. /\ free \in Seq(Frames) /\ Len(free) \in Nat /\ freelist \in Pages
      /\ DOMAIN free = 1..Len(free)
  BY DEF TypeOK, Pages
<1>1. /\ \A w \in Words : w # p => mem'[w] = mem[w]
      /\ mem'[p] = Link(freelist)
      /\ free' \in Seq(Frames) /\ Len(free') = Len(free) + 1
      /\ free'[1] = p
      /\ \A k \in 1..Len(free) : free'[k + 1] = free[k]
      /\ freelist' = p
  BY PushFacts
<1>2. \A k \in 1..Len(free) : free[k] # p /\ free[k] \in Words
  BY <1>0, InSet, EntryWord, Indices DEF Pages
<1>3. DOMAIN free' = 1..Len(free') /\ free' # <<>>
  BY <1>0, <1>1
<1>4. freelist' = IF free' = <<>> THEN NULL ELSE free'[1]
  BY <1>1, <1>3
<1>5. ASSUME NEW k \in DOMAIN free'
      PROVE  /\ Base(mem'[free'[k]]) = IF k = Len(free') THEN NULL ELSE free'[k + 1]
             /\ \A j \in DOMAIN free' : free'[j] = free'[k] => j = k
  <2>1. CASE k = 1
    <3>1. Base(mem'[free'[k]]) = freelist
      BY <2>1, <1>0, <1>1, Bases
    <3>2. CASE Len(free) = 0
      <4>1. free = <<>>
        BY <3>2, <1>0
      <4> QED BY <3>1, <3>2, <4>1, <2>1, <1>0, <1>1, <1>3 DEF FreelistIntact
    <3>3. CASE Len(free) > 0
      <4>1. freelist = free[1]
        BY <3>3, <1>0 DEF FreelistIntact
      <4>2. free'[2] = free[1]
        BY <3>3, <1>0, <1>1
      <4>3. \A j \in DOMAIN free' : j # 1 => free'[j] # p
        <5> SUFFICES ASSUME NEW j \in DOMAIN free', j # 1 PROVE free'[j] # p
          OBVIOUS
        <5>1. j - 1 \in 1..Len(free) /\ j = (j - 1) + 1
          BY <1>0, <1>1, <1>3
        <5> QED BY <5>1, <1>1, <1>2
      <4> QED BY <3>1, <3>3, <4>1, <4>2, <4>3, <2>1, <1>0, <1>1
    <3> QED BY <3>2, <3>3, <1>0
  <2>2. CASE k # 1
    <3> DEFINE c == k - 1
    <3>1. c \in 1..Len(free) /\ k = c + 1
      BY <2>2, <1>0, <1>1, <1>3
    <3> HIDE DEF c
    <3>2. free'[k] = free[c] /\ mem'[free'[k]] = mem[free[c]]
      BY <3>1, <1>1, <1>2
    <3>3. Base(mem[free[c]]) = IF c = Len(free) THEN NULL ELSE free[c + 1]
      BY <3>1, <1>0 DEF FreelistIntact
    <3>4. c # Len(free) => free'[k + 1] = free[c + 1]
      <4> SUFFICES ASSUME c # Len(free) PROVE free'[k + 1] = free[c + 1]
        OBVIOUS
      <4>1. c + 1 \in 1..Len(free)
        <5>1. \A n \in Nat : \A a \in 1..n : a # n => a + 1 \in 1..n
          OBVIOUS
        <5> QED BY <5>1, <3>1, <1>0
      <4>2. \A i \in 1..Len(free) : free'[i + 1] = free[i]
        BY <1>1
      <4> QED BY <3>1, <4>1, <4>2
    <3>5. \A j \in DOMAIN free' : free'[j] = free'[k] => j = k
      <4> SUFFICES ASSUME NEW j \in DOMAIN free', free'[j] = free'[k] PROVE j = k
        OBVIOUS
      <4>1. j # 1
        BY <3>1, <3>2, <1>1, <1>2
      <4>2. j - 1 \in 1..Len(free) /\ j = (j - 1) + 1
        BY <4>1, <1>0, <1>1, <1>3
      <4>3. free[j - 1] = free[c]
        BY <4>2, <3>2, <1>1
      <4>4. j - 1 = c
        BY <4>2, <4>3, <3>1, <1>0 DEF FreelistIntact
      <4> QED BY <4>2, <4>4, <3>1
    <3>6. (k = Len(free')) <=> (c = Len(free))
      <4>1. Len(free') = Len(free) + 1
        BY <1>1
      <4>2. c \in Int /\ Len(free) \in Int /\ k = c + 1
        BY <3>1, <1>0
      <4> QED BY <4>1, <4>2
    <3> QED BY <3>2, <3>3, <3>4, <3>5, <3>6
  <2> QED BY <2>1, <2>2
<1> QED BY <1>4, <1>5 DEF FreelistIntact

\* What taking the first page off the freelist does.
LEMMA AllocFacts ==
  ASSUME TypeOK, FreelistIntact, pmem_alloc
  PROVE  /\ freelist \in Frames /\ freelist \in ToSet(free)
         /\ freelist' \in Pages
         /\ free' \in Seq(Frames) /\ Len(free') = Len(free) - 1
         /\ \A k \in 1..Len(free') : k + 1 \in 1..Len(free) /\ free'[k] = free[k + 1]
         /\ \A q : q \in ToSet(free') <=> q # freelist /\ q \in ToSet(free)
         /\ free_page_counter' = free_page_counter - 1
         /\ free_page_counter' \in Int
<1>0. /\ free \in Seq(Frames) /\ Len(free) \in Nat /\ freelist \in Frames \cup {NULL}
      /\ DOMAIN free = 1..Len(free) /\ free_page_counter \in Int
      /\ mem \in [Words -> Entry]
  BY DEF TypeOK
<1>1. /\ freelist # NULL /\ freelist' = Base(mem[freelist]) /\ free' = Tail(free)
      /\ free_page_counter' = free_page_counter - 1
  BY DEF pmem_alloc
<1>2. free # <<>> /\ freelist = free[1]
  BY <1>1 DEF FreelistIntact
<1>3. Len(free) > 0
  BY <1>0, <1>2
<1>4. /\ free' \in Seq(Frames) /\ Len(free') = Len(free) - 1
      /\ \A k \in 1..Len(free') : free'[k] = free[k + 1]
  BY <1>0, <1>1, <1>2, HeadTailProperties
<1>5. \A k \in 1..Len(free') : k + 1 \in 1..Len(free)
  BY <1>0, <1>3, <1>4
<1>6. freelist \in Words
  BY <1>0, EntryWord, Indices DEF Pages
<1>7. ASSUME NEW q
      PROVE  q \in ToSet(free') <=> q # freelist /\ q \in ToSet(free)
  <2>1. q \in ToSet(free') <=> \E k \in 1..Len(free') : free'[k] = q
    BY <1>4, InSet
  <2>2. q \in ToSet(free) <=> \E k \in 1..Len(free) : free[k] = q
    BY <1>0, InSet
  <2>3. ASSUME NEW k \in 1..Len(free'), free'[k] = q
        PROVE  q # freelist /\ \E j \in 1..Len(free) : free[j] = q
    <3>1. k + 1 \in 1..Len(free) /\ free[k + 1] = q /\ k + 1 # 1 /\ 1 \in 1..Len(free)
      BY <2>3, <1>0, <1>3, <1>4, <1>5
    <3>2. q # free[1]
      BY <3>1, <1>0 DEF FreelistIntact
    <3> QED BY <3>1, <3>2, <1>2
  <2>4. ASSUME NEW j \in 1..Len(free), free[j] = q, q # freelist
        PROVE  \E k \in 1..Len(free') : free'[k] = q
    <3>1. j # 1
      BY <2>4, <1>2
    <3>2. j - 1 \in 1..Len(free') /\ j = (j - 1) + 1
      BY <3>1, <1>0, <1>4
    <3> QED BY <3>2, <2>4, <1>4
  <2> QED BY <2>1, <2>2, <2>3, <2>4
<1>8. freelist \in ToSet(free)
  BY <1>0, <1>2, <1>3, InSet
<1>9. freelist' \in Pages
  BY <1>0, <1>1, <1>6, Bases
<1> QED BY <1>0, <1>1, <1>4, <1>5, <1>7, <1>8, <1>9

\* The rest of the freelist is intact as long as the pages in it are.
LEMMA AllocIntact ==
  ASSUME TypeOK, FreelistIntact, pmem_alloc,
         \A q \in ToSet(free') : mem'[q] = mem[q]
  PROVE  FreelistIntact'
<1>0. /\ free \in Seq(Frames) /\ Len(free) \in Nat /\ DOMAIN free = 1..Len(free)
  BY DEF TypeOK
<1>1. /\ free' \in Seq(Frames) /\ Len(free') = Len(free) - 1
      /\ \A k \in 1..Len(free') : k + 1 \in 1..Len(free) /\ free'[k] = free[k + 1]
      /\ freelist \in ToSet(free)
  BY AllocFacts
<1>2. Len(free') \in Nat /\ DOMAIN free' = 1..Len(free') /\ Len(free) > 0
  BY <1>0, <1>1, LenProperties
<1>3. \A k \in 1..Len(free') : mem'[free'[k]] = mem[free[k + 1]]
  BY <1>1, InSet
<1>4. freelist' = IF free' = <<>> THEN NULL ELSE free'[1]
  <2>1. freelist = free[1]
    BY <1>0, <1>2 DEF FreelistIntact
  <2>2. freelist' = Base(mem[free[1]])
    BY <2>1 DEF pmem_alloc
  <2>3. freelist' = IF 1 = Len(free) THEN NULL ELSE free[2]
    BY <2>2, <1>0, <1>2 DEF FreelistIntact
  <2>4. CASE Len(free) = 1
    <3>1. free' = <<>>
      BY <2>4, <1>1
    <3> QED BY <3>1, <2>3, <2>4
  <2>5. CASE Len(free) # 1
    <3>1. 1 \in 1..Len(free')
      BY <2>5, <1>0, <1>1, <1>2
    <3>2. free' # <<>> /\ free'[1] = free[2]
      BY <3>1, <1>1
    <3> QED BY <3>2, <2>3, <2>5
  <2> QED BY <2>4, <2>5
<1>5. ASSUME NEW k \in DOMAIN free'
      PROVE  /\ Base(mem'[free'[k]]) = IF k = Len(free') THEN NULL ELSE free'[k + 1]
             /\ \A j \in DOMAIN free' : free'[j] = free'[k] => j = k
  <2> DEFINE c == k + 1
  <2>1. c \in 1..Len(free) /\ free'[k] = free[c] /\ mem'[free'[k]] = mem[free[c]]
    BY <1>1, <1>2, <1>3
  <2>2. (k = Len(free')) <=> (c = Len(free))
    BY <1>0, <1>1, <1>2
  <2>3. k # Len(free') => free'[k + 1] = free[c + 1]
    BY <1>0, <1>1, <1>2
  <2> HIDE DEF c
  <2>4. Base(mem[free[c]]) = IF c = Len(free) THEN NULL ELSE free[c + 1]
    BY <2>1, <1>0 DEF FreelistIntact
  <2>5. \A j \in DOMAIN free' : free'[j] = free'[k] => j = k
    <3> SUFFICES ASSUME NEW j \in DOMAIN free', free'[j] = free'[k] PROVE j = k
      OBVIOUS
    <3>1. j + 1 \in 1..Len(free) /\ free[j + 1] = free[c]
      BY <1>1, <1>2, <2>1
    <3>2. j + 1 = c
      BY <3>1, <2>1, <1>0 DEF FreelistIntact
    <3> QED BY <3>2, <1>2 DEF c
  <2> QED BY <2>1, <2>2, <2>3, <2>4, <2>5
<1> QED BY <1>4, <1>5 DEF FreelistIntact
-----------------------------------------------------------------------------
(***************************************************************************)
(* The inductive invariant.  A page's role is                              *)
(*   ROOT      the level 4 table,                                          *)
(*   1..3      a table of the lower half of that level,                    *)
(*   MAPPED    a page of the kernel's that a level 1 table maps,           *)
(*   11..13    a table of level 1..3 that unmap_lower_half will free: the  *)
(*             level 4 entry above it is gone,                             *)
(*   FREE, LOST, or AHEAD (usable and not yet found by mem_init),          *)
(*   NONE      not the kernel's to give out.                               *)
(***************************************************************************)
ROOT == 4
MAPPED == 0
FREE == -1
AHEAD == -2
LOST == -3
NONE == -4
Roles == -4..4 \cup 11..13

\* Entry i of a page p, as a table of the memory m.
Has(m, p, i) == HasTable(m[p + i])
Goes(m, p, i) == Base(m[p + i])

\* The level 3 and the level 2 table that unmap_lower_half is in.
Cur3 == Goes(mem, CR3, l4_index)
Cur2 == Goes(mem, Cur3, l3_index)

GhostTypes(role, dad, idx) ==
    /\ role \in [Pages -> Roles]
    /\ dad \in [Pages -> Pages]
    /\ idx \in [Pages -> Index]

\* A page has one role, and the sets of the model are those of the roles.
Owners(role) ==
    \A p \in Pages :
        /\ role[p] = ROOT <=> p = CR3
        /\ p \in Managed <=> role[p] \notin {NONE, ROOT}
        /\ role[p] = FREE <=> p \in ToSet(free)
        /\ role[p] = LOST <=> p \in lost /\ p \in Managed

Entries(role, p) == IF role[p] = ROOT THEN LowerIndex ELSE Index

\* What entry i of p leads to is one level below, and p is its only parent.
Child(role, dad, idx, p, i) ==
    LET q == Goes(mem, p, i)
    IN  role[q] = role[p] - 1 /\ dad[q] = p /\ idx[q] = i

\* The parent of q leads to it.
Parent(role, dad, idx, q) ==
    /\ role[dad[q]] = role[q] + 1
    /\ Has(mem, dad[q], idx[q])
    /\ Goes(mem, dad[q], idx[q]) = q

(***************************************************************************)
(* The lower half is a tree, from its root down and from its leaves up.    *)
(* The pages that the boot loader maps are not part of it: it may map any. *)
(***************************************************************************)
Down(role, dad, idx) ==
    \A p \in Pages : role[p] \in 1..4 =>
        \A i \in Entries(role, p) :
            Has(mem, p, i) /\ (role[p] > 1 \/ (phase = "run" /\ Goes(mem, p, i) \in Managed))
                => Child(role, dad, idx, p, i)

Up(role, dad, idx) ==
    \A q \in Pages : role[q] \in 0..3 =>
        /\ Parent(role, dad, idx, q)
        /\ role[q] = 3 => idx[q] \in LowerIndex

\* So is what unmap_lower_half has cut off, from where its loops are on.
DoomedDown(role, dad, idx) ==
    \A p \in Pages, i \in Index :
        /\ Has(mem, p, i)
        /\ \/ role[p] = 13 /\ i >= l3_index
           \/ role[p] = 12 /\ (pc = "l2" /\ p = Cur2 => i >= l2_index)
        => Child(role, dad, idx, p, i)

DoomedUp(role, dad, idx) ==
    \A q \in Pages : role[q] \in 11..12 =>
        /\ Parent(role, dad, idx, q)
        /\ role[q] = 12 => idx[q] >= l3_index
        /\ role[q] = 11 /\ pc = "l2" /\ dad[q] = Cur2 => idx[q] >= l2_index

\* Where the loops are in the tree; the entries behind them are gone.
Clearing(role, idx) ==
    /\ \A q \in Pages : role[q] = 13 <=> pc \in {"l3", "l2"} /\ q = Cur3
    /\ pc \in {"l3", "l2"} => l4_index \in LowerIndex /\ ~L4Entry.present
    /\ pc = "l2" => l3_index \in Index /\ Has(mem, Cur3, l3_index)
    /\ pc \in {"l4", "l3", "l2"} => \A q \in Pages : role[q] = 3 => idx[q] >= l4_index

\* The usable pages that mem_init has not come to.
IsAhead(p) ==
    \E k \in DOMAIN memmap :
        /\ k >= current
        /\ memmap[k].type = USABLE /\ memmap[k].base <= p /\ p < EndOf(memmap[k])
        /\ k = current => curr <= p

Scanned(role) ==
    /\ \A p \in Pages : role[p] = AHEAD <=> pc = "scan" /\ IsAhead(p)
    /\ pc = "scan" => \A p \in Pages : p \in UsablePages <=> role[p] \in {FREE, AHEAD}
    /\ pc = "scan" /\ InUsable =>
          /\ memmap[current].base <= curr
          /\ curr < EndOf(memmap[current]) => curr \in Pages

\* Memory that is not the kernel's to give out is as the boot loader left it.
Untouched(role) ==
    \A p \in Pages, i \in Index :
        role[p] = NONE \/ (role[p] = ROOT /\ i \notin LowerIndex)
            => mem[p + i] = BootMem[p + i]

\* Once the boot loader's tables are gone there are no large pages.
SmallPages(role) ==
    /\ \A i \in LowerIndex : ~mem[CR3 + i].page_size
    /\ pc \in {"idle", "map", "protect"} =>
         \A p \in Pages, i \in Index : role[p] \in 1..3 =>
            /\ ~mem[p + i].page_size
            /\ role[p] = 1 /\ mem[p + i].present => Goes(mem, p, i) \in Managed

(***************************************************************************)
(* vm_map and vm_protect are in a table of the level they think they are   *)
(* in; nobody calls them, and no page is theirs, before mem_init returns.  *)
(***************************************************************************)
Walking(role) ==
    /\ pc \in {"map", "protect"} => role[table] = level
    /\ pc = "scan" => phase = "boot"
    /\ pc \in {"idle", "map", "protect"} => phase = "run"
    /\ phase = "boot" => \A q \in Pages : role[q] # MAPPED

Tree(role, dad, idx) ==
    /\ GhostTypes(role, dad, idx)
    /\ Owners(role)
    /\ Down(role, dad, idx)
    /\ Up(role, dad, idx)
    /\ DoomedDown(role, dad, idx)
    /\ DoomedUp(role, dad, idx)
    /\ Clearing(role, idx)
    /\ Scanned(role)
    /\ Untouched(role)
    /\ SmallPages(role)
    /\ Walking(role)

\* mem_init counts a page twice; everything after it counts once.
Counted ==
    free_page_counter = Len(free) + IF pc = "scan" THEN Len(free) ELSE Cardinality(UsablePages)

PagesOwned ==
    /\ TypeOK
    /\ FreelistIntact
    /\ Counted
    /\ \E role, dad, idx : Tree(role, dad, idx)
-----------------------------------------------------------------------------
(***************************************************************************)
(* Facts about one state.                                                  *)
(***************************************************************************)

\* The root is a page of memory, and no page the kernel manages is 0.
LEMMA RootPage ==
  /\ CR3 \in Frames /\ CR3 \in Pages /\ CR3 # NULL
  /\ CR3 \notin Managed /\ NULL \notin Managed /\ NULL \in Pages
<1>0. PAGE \in Nat /\ PAGE > 0 /\ FRAMES \in Nat /\ CR3 \in Frames
  BY PagingAssumption
<1>1. NULL \notin Frames
  BY <1>0 DEF Frames, NULL
<1>2. UsablePages \subseteq Frames
  BY DEF UsablePages
<1>3. /\ LowerTables(BootMem) \cap (UsablePages \cup {CR3, NULL}) = {}
      /\ CR3 \notin UsablePages
  BY BootLoaderAssumption
<1> QED BY <1>0, <1>1, <1>2, <1>3 DEF Pages, Managed

\* Entries of tables lead to pages.
LEMMA GoesToPage ==
  ASSUME NEW m \in [Words -> Entry], NEW p \in Pages, NEW i \in Index
  PROVE  m[p + i] \in Entry /\ Goes(m, p, i) \in Pages
BY EntryWord, Bases DEF Goes

\* A managed page is not page 0.
LEMMA RoleFrame ==
  ASSUME NEW role, Owners(role), NEW p \in Pages, role[p] # NONE
  PROVE  p \in Frames
BY RootPage DEF Owners, Pages

\* Outside the inner loops of unmap_lower_half nothing is about to be freed.
LEMMA NoneDoomed ==
  ASSUME NEW role, NEW dad, NEW idx, Tree(role, dad, idx), pc \notin {"l3", "l2"}
  PROVE  \A q \in Pages : role[q] \notin 11..13
<1>1. \A q \in Pages : role[q] # 13
  BY DEF Tree, Clearing
<1>2. \A q \in Pages : role[q] \in Int /\ dad[q] \in Pages
  BY DEF Tree, GhostTypes, Roles
<1>3. \A q \in Pages : role[q] \in 11..12 => role[dad[q]] = role[q] + 1
  BY DEF Tree, DoomedUp, Parent
<1>4. \A q \in Pages : role[q] # 12
  BY <1>1, <1>2, <1>3
<1>5. \A q \in Pages : role[q] # 11
  BY <1>4, <1>2, <1>3
<1> QED BY <1>1, <1>2, <1>4, <1>5
-----------------------------------------------------------------------------
(***************************************************************************)
(* Steps that change no link: the roles stay.                              *)
(***************************************************************************)

\* The tree depends on memory and on the sets of the model only.
LEMMA SameTree ==
  ASSUME NEW role, NEW dad, NEW idx, Tree(role, dad, idx), UNCHANGED <<free, lost>>,
         phase' = phase \/ \A q \in Pages : role[q] # 1,
         \A p \in Pages, i \in Index : /\ Has(mem', p, i) <=> Has(mem, p, i)
                                       /\ Goes(mem', p, i) = Goes(mem, p, i)
  PROVE  /\ GhostTypes(role, dad, idx)'
         /\ Owners(role)'
         /\ Down(role, dad, idx)'
         /\ Up(role, dad, idx)'
<1>1. GhostTypes(role, dad, idx)
  BY DEF Tree
<1>2. GhostTypes(role, dad, idx)'
  BY <1>1 DEF GhostTypes
<1>3. Owners(role)'
  BY DEF Tree, Owners
<1>4. Down(role, dad, idx)'
  <2> SUFFICES ASSUME NEW p \in Pages, role[p] \in 1..4, NEW i \in Entries(role, p),
                      Has(mem', p, i),
                      role[p] > 1 \/ (phase' = "run" /\ Goes(mem', p, i) \in Managed)
               PROVE  Child(role, dad, idx, p, i)'
    BY DEF Down
  <2>1. i \in Index
    BY Indices DEF Entries
  <2>2. role[p] > 1 \/ phase' = phase
    <3>1. role[p] # 1 => role[p] > 1
      OBVIOUS
    <3> QED BY <3>1
  <2>3. Child(role, dad, idx, p, i)
    BY <2>1, <2>2 DEF Tree, Down
  <2> QED BY <2>1, <2>3 DEF Child
<1>5. Up(role, dad, idx)'
  BY <1>1 DEF Tree, Up, Parent, GhostTypes
<1> QED BY <1>2, <1>3, <1>4, <1>5

\* A step of vm_map or vm_protect, or between calls, that changes rights at most.
LEMMA QuietTree ==
  ASSUME NEW role, NEW dad, NEW idx, Tree(role, dad, idx), UNCHANGED <<free, lost>>,
         \A p \in Pages, i \in Index :
            /\ Has(mem', p, i) <=> Has(mem, p, i)
            /\ Goes(mem', p, i) = Goes(mem, p, i)
            /\ mem'[p + i].present <=> mem[p + i].present
            /\ mem'[p + i].page_size <=> mem[p + i].page_size,
         pc \in {"idle", "map", "protect"}, pc' \in {"idle", "map", "protect"},
         Untouched(role)', Walking(role)', phase' = phase
  PROVE  Tree(role, dad, idx)'
<1>0. \A q \in Pages : role[q] \notin 11..13
  BY NoneDoomed
<1>1. /\ GhostTypes(role, dad, idx)' /\ Owners(role)'
      /\ Down(role, dad, idx)' /\ Up(role, dad, idx)'
  BY SameTree
<1>2. DoomedDown(role, dad, idx)' /\ DoomedUp(role, dad, idx)'
  BY <1>0 DEF DoomedDown, DoomedUp
<1>3. Clearing(role, idx)'
  BY <1>0 DEF Clearing
<1>4. Scanned(role)'
  BY DEF Tree, Scanned
<1>5. SmallPages(role)'
  BY RootPage, Indices DEF Tree, SmallPages
<1> QED BY <1>1, <1>2, <1>3, <1>4, <1>5 DEF Tree

\* A call of unmap_lower_half, or the end of mem_init's scan.
LEMMA UnmapStartsTree ==
  ASSUME NEW role, NEW dad, NEW idx, TypeOK, Tree(role, dad, idx), unmap_lower_half \/ ScanDone
  PROVE  Tree(role, dad, idx)'
<1>0. /\ UNCHANGED <<mem, free, lost, phase>> /\ pc \in {"idle", "scan"} /\ pc' = "l4"
      /\ l4_index' = 0 /\ (pc = "scan" => current \notin DOMAIN memmap)
  BY DEF unmap_lower_half, ScanDone, memory, scan
<1>1. /\ GhostTypes(role, dad, idx)' /\ Owners(role)'
      /\ Down(role, dad, idx)' /\ Up(role, dad, idx)'
  BY <1>0, SameTree
<1>2. \A q \in Pages : role[q] \notin 11..13
  BY <1>0, NoneDoomed
<1>3. DoomedDown(role, dad, idx)' /\ DoomedUp(role, dad, idx)'
  BY <1>2 DEF DoomedDown, DoomedUp
<1>4. Clearing(role, idx)'
  <2>0. \A q \in Pages : idx[q] \in Index
    BY DEF Tree, GhostTypes
  <2>1. \A q \in Pages : idx[q] >= 0
    BY <2>0 DEF Index
  <2> QED BY <2>1, <1>0, <1>2 DEF Clearing
<1>5. \A p \in Pages : role[p] # AHEAD
  <2>1. CASE pc = "idle"
    BY <2>1 DEF Tree, Scanned
  <2>2. CASE pc = "scan"
    <3>1. memmap \in Seq([type : Nat, base : Nat, length : Nat])
      BY BootLoaderAssumption
    <3>2. current \in 1..Len(memmap) + 1 /\ DOMAIN memmap = 1..Len(memmap)
      BY <3>1 DEF TypeOK
    <3>3. Len(memmap) \in Nat
      BY <3>1
    <3>4. \A k \in DOMAIN memmap : ~(k >= current)
      BY <3>2, <3>3, <2>2, <1>0
    <3> QED BY <3>4 DEF Tree, Scanned, IsAhead
  <2> QED BY <2>1, <2>2, <1>0
<1>6. Scanned(role)'
  BY <1>0, <1>5 DEF Scanned
<1>7. Untouched(role)' /\ SmallPages(role)' /\ Walking(role)'
  BY <1>0 DEF Tree, Untouched, SmallPages, Walking
<1> QED BY <1>1, <1>3, <1>4, <1>6, <1>7 DEF Tree

\* The entries of the memory map.
LEMMA MapEntries ==
  /\ Len(memmap) \in Nat /\ DOMAIN memmap = 1..Len(memmap)
  /\ \A k \in DOMAIN memmap :
        memmap[k].base \in Nat /\ memmap[k].length \in Nat /\ EndOf(memmap[k]) \in Nat
<1> DEFINE E == [type : Nat, base : Nat, length : Nat]
<1>1. memmap \in Seq(E)
  BY BootLoaderAssumption
<1>2. Len(memmap) \in Nat /\ DOMAIN memmap = 1..Len(memmap)
  BY <1>1
<1> HIDE DEF E
<1>3. \A k \in DOMAIN memmap : memmap[k] \in E
  BY <1>1, <1>2, ElementOfSeq
<1> QED BY <1>2, <1>3 DEF E, EndOf

\* mem_init goes on to the next entry of the memory map.
LEMMA ScanEntryTree ==
  ASSUME NEW role, NEW dad, NEW idx, TypeOK, Tree(role, dad, idx), ScanEntry
  PROVE  Tree(role, dad, idx)'
<1>0. /\ UNCHANGED <<mem, free, lost, pc, l4_index, l3_index, l2_index, table, level, phase>>
      /\ pc = "scan" /\ current \in DOMAIN memmap
      /\ InUsable => curr >= EndOf(memmap[current])
      /\ current' = current + 1
      /\ curr' = IF current' \in DOMAIN memmap THEN memmap[current'].base ELSE curr
  BY DEF ScanEntry, memory, loops, walk
<1>1. /\ GhostTypes(role, dad, idx)' /\ Owners(role)'
      /\ Down(role, dad, idx)' /\ Up(role, dad, idx)'
  BY <1>0, SameTree
<1>2. \A q \in Pages : role[q] \notin 11..13
  BY <1>0, NoneDoomed
<1>3. DoomedDown(role, dad, idx)' /\ DoomedUp(role, dad, idx)'
  BY <1>2 DEF DoomedDown, DoomedUp
<1>4. Clearing(role, idx)'
  BY <1>0, <1>2 DEF Clearing
<1>6. DOMAIN memmap = 1..Len(memmap) /\ Len(memmap) \in Nat /\ current \in Nat /\ curr \in Nat
  BY MapEntries DEF TypeOK
<1>7. \A k \in DOMAIN memmap : memmap[k].base \in Nat /\ EndOf(memmap[k]) \in Nat
  BY MapEntries
<1>8. ASSUME NEW p \in Pages
      PROVE  IsAhead(p)' <=> IsAhead(p)
  <2>0. p \in Nat
    BY PageNumber
  <2>1. ASSUME NEW k \in DOMAIN memmap, k >= current, memmap[k].type = USABLE,
               memmap[k].base <= p, p < EndOf(memmap[k]), k = current => curr <= p
        PROVE  IsAhead(p)'
    <3>1. k # current
      BY <2>0, <2>1, <1>0, <1>6, <1>7 DEF InUsable
    <3>2. k >= current'
      BY <3>1, <2>1, <1>0, <1>6
    <3>3. k = current' => curr' <= p
      BY <1>0, <2>1
    <3> QED BY <3>2, <3>3, <2>1 DEF IsAhead
  <2>2. ASSUME NEW k \in DOMAIN memmap, k >= current', memmap[k].type = USABLE,
               memmap[k].base <= p, p < EndOf(memmap[k])
        PROVE  IsAhead(p)
    <3>1. k >= current /\ k # current
      BY <2>2, <1>0, <1>6
    <3> QED BY <3>1, <2>2 DEF IsAhead
  <2> QED BY <2>1, <2>2 DEF IsAhead
<1>9. Scanned(role)'
  <2>1. \A p \in Pages : role[p] = AHEAD <=> pc' = "scan" /\ IsAhead(p)'
    BY <1>0, <1>8 DEF Tree, Scanned
  <2>2. \A p \in Pages : p \in UsablePages <=> role[p] \in {FREE, AHEAD}
    BY <1>0 DEF Tree, Scanned
  <2>3. ASSUME InUsable'
        PROVE  /\ memmap[current'].base <= curr'
               /\ curr' < EndOf(memmap[current']) => curr' \in Pages
    <3>1. current' \in DOMAIN memmap /\ memmap[current'].type = USABLE
      BY <2>3 DEF InUsable
    <3>2. curr' = memmap[current'].base /\ curr' \in Nat
      BY <3>1, <1>0, <1>7
    <3>3. memmap[current'].base \in Frames
      BY <3>1, BootLoaderAssumption
    <3> QED BY <3>2, <3>3 DEF Pages
  <2> QED BY <2>1, <2>2, <2>3 DEF Scanned
<1>10. Untouched(role)' /\ SmallPages(role)' /\ Walking(role)'
  BY <1>0 DEF Tree, Untouched, SmallPages, Walking
<1> QED BY <1>1, <1>3, <1>4, <1>9, <1>10 DEF Tree
-----------------------------------------------------------------------------
(***************************************************************************)
(* Steps of unmap_lower_half that free nothing.                            *)
(***************************************************************************)

\* The words the loops look at, as entries of the tables they are in.
LEMMA LoopWords ==
  /\ Has(mem, Cur3, l3_index) <=> HasTable(mem[L3Word])
  /\ Has(mem, Cur2, l2_index) <=> HasTable(mem[L2Word])
  /\ Base(L4Entry) = Cur3
  /\ Base(mem[L3Word]) = Cur2
  /\ Base(mem[L2Word]) = Goes(mem, Cur2, l2_index)
BY DEF Has, Goes, Cur3, Cur2, L4Entry, L3Word, L2Word

\* Indices that the loops have not reached.
LEMMA IndexTypes ==
  ASSUME TypeOK, NEW role, NEW dad, NEW idx, Tree(role, dad, idx)
  PROVE  /\ l4_index \in Nat /\ l3_index \in Nat /\ l2_index \in Nat
         /\ \A q \in Pages : idx[q] \in Index /\ idx[q] \in Nat /\ dad[q] \in Pages /\ role[q] \in Int
<1>1. l4_index \in Nat /\ l3_index \in Nat /\ l2_index \in Nat
  BY Indices DEF TypeOK, LowerIndex
<1>2. \A q \in Pages : idx[q] \in Index /\ dad[q] \in Pages /\ role[q] \in Roles
  BY DEF Tree, GhostTypes
<1>3. Roles \subseteq Int /\ Index \subseteq Nat
  BY Indices DEF Roles
<1> QED BY <1>1, <1>2, <1>3

\* A level 4 entry that is not present is passed over.
LEMMA L4SkipTree ==
  ASSUME NEW role, NEW dad, NEW idx, TypeOK, Tree(role, dad, idx), L4Step, ~L4Entry.present
  PROVE  Tree(role, dad, idx)'
<1>0. /\ UNCHANGED <<mem, free, lost, pc, l3_index, l2_index, phase>>
      /\ pc = "l4" /\ l4_index' = l4_index + 1
  BY DEF L4Step, scan
<1>1. /\ GhostTypes(role, dad, idx)' /\ Owners(role)'
      /\ Down(role, dad, idx)' /\ Up(role, dad, idx)'
  BY <1>0, SameTree
<1>2. \A q \in Pages : role[q] \notin 11..13
  BY <1>0, NoneDoomed
<1>3. DoomedDown(role, dad, idx)' /\ DoomedUp(role, dad, idx)'
  BY <1>2 DEF DoomedDown, DoomedUp
<1>4. ASSUME NEW q \in Pages, role[q] = 3
      PROVE  idx[q] >= l4_index + 1
  <2>1. Parent(role, dad, idx, q) /\ dad[q] \in Pages
    BY <1>4, IndexTypes DEF Tree, Up
  <2>2. role[dad[q]] = 4 /\ Has(mem, dad[q], idx[q])
    BY <1>4, <2>1 DEF Parent
  <2>3. dad[q] = CR3
    BY <2>1, <2>2 DEF Tree, Owners, ROOT
  <2>4. idx[q] # l4_index
    BY <2>2, <2>3 DEF Has, HasTable, L4Entry
  <2>5. idx[q] >= l4_index
    BY <1>4, <1>0 DEF Tree, Clearing
  <2> QED BY <2>4, <2>5, IndexTypes
<1>5. Clearing(role, idx)'
  BY <1>0, <1>2, <1>4 DEF Clearing
<1>6. Scanned(role)' /\ Untouched(role)' /\ SmallPages(role)' /\ Walking(role)'
  BY <1>0 DEF Tree, Scanned, Untouched, SmallPages, Walking
<1> QED BY <1>1, <1>3, <1>5, <1>6 DEF Tree

\* The level 3 loop goes into a level 2 table, or passes an entry over.
LEMMA L3StepTree ==
  ASSUME NEW role, NEW dad, NEW idx, TypeOK, Tree(role, dad, idx), L3Step
  PROVE  Tree(role, dad, idx)'
<1>0. /\ UNCHANGED <<mem, free, lost, l4_index, phase>>
      /\ pc = "l3" /\ l3_index \in Index
      /\ Has(mem, Cur3, l3_index) => l2_index' = 0 /\ pc' = "l2" /\ l3_index' = l3_index
      /\ ~Has(mem, Cur3, l3_index) => l3_index' = l3_index + 1 /\ pc' = "l3" /\ l2_index' = l2_index
  BY LoopWords DEF L3Step, memory, scan
<1>1. /\ GhostTypes(role, dad, idx)' /\ Owners(role)'
      /\ Down(role, dad, idx)' /\ Up(role, dad, idx)'
  BY <1>0, SameTree
<1>2. Cur3' = Cur3 /\ L4Entry' = L4Entry /\ pc' \in {"l3", "l2"}
  BY <1>0 DEF Cur3, L4Entry
<1>3. l3_index' >= l3_index /\ l3_index \in Nat
  BY <1>0, IndexTypes
<1>4. DoomedDown(role, dad, idx)'
  <2> SUFFICES ASSUME NEW p \in Pages, NEW i \in Index, Has(mem, p, i),
                      \/ role[p] = 13 /\ i >= l3_index'
                      \/ role[p] = 12
               PROVE  Child(role, dad, idx, p, i)
    BY <1>0 DEF DoomedDown, Child
  <2>1. i >= l3_index' => i >= l3_index
    BY <1>0, <1>3, Indices
  <2> QED BY <2>1, <1>0 DEF Tree, DoomedDown
<1>5. DoomedUp(role, dad, idx)'
  <2> SUFFICES ASSUME NEW q \in Pages, role[q] \in 11..12
               PROVE  /\ Parent(role, dad, idx, q)
                      /\ role[q] = 12 => idx[q] >= l3_index'
                      /\ pc' = "l2" => idx[q] >= l2_index'
    BY <1>0 DEF DoomedUp, Parent
  <2>1. Parent(role, dad, idx, q) /\ (role[q] = 12 => idx[q] >= l3_index)
    BY DEF Tree, DoomedUp
  <2>2. role[q] = 12 => dad[q] = Cur3
    BY <2>1, IndexTypes DEF Tree, Clearing, Parent
  <2>3. role[q] = 12 /\ ~Has(mem, Cur3, l3_index) => idx[q] # l3_index
    BY <2>1, <2>2 DEF Parent
  <2>4. idx[q] \in Nat
    BY IndexTypes
  <2>5. role[q] = 12 => idx[q] >= l3_index'
    BY <2>1, <2>3, <2>4, <1>0, <1>3
  <2>6. pc' = "l2" => idx[q] >= l2_index'
    BY <2>4, <1>0
  <2> QED BY <2>1, <2>5, <2>6
<1>6. Clearing(role, idx)'
  <2>1. /\ \A q \in Pages : role[q] = 13 <=> q = Cur3
        /\ l4_index \in LowerIndex /\ ~L4Entry.present
        /\ \A q \in Pages : role[q] = 3 => idx[q] >= l4_index
    BY <1>0 DEF Tree, Clearing
  <2>2. pc' = "l2" => l3_index' \in Index /\ Has(mem', Cur3', l3_index')
    BY <1>0, <1>2
  <2> QED BY <2>1, <2>2, <1>0, <1>2 DEF Clearing
<1>7. Scanned(role)' /\ Untouched(role)' /\ SmallPages(role)' /\ Walking(role)'
  BY <1>0 DEF Tree, Scanned, Untouched, SmallPages, Walking
<1> QED BY <1>1, <1>4, <1>5, <1>6, <1>7 DEF Tree

\* The level 2 loop passes an entry over.
LEMMA L2SkipTree ==
  ASSUME NEW role, NEW dad, NEW idx, TypeOK, Tree(role, dad, idx), L2Step,
         ~HasTable(mem[L2Word])
  PROVE  Tree(role, dad, idx)'
<1>0. /\ UNCHANGED <<mem, free, lost, l4_index, l3_index, pc, phase>>
      /\ pc = "l2" /\ l2_index \in Index /\ l2_index' = l2_index + 1
      /\ ~Has(mem, Cur2, l2_index)
  BY LoopWords DEF L2Step, memory, scan
<1>1. /\ GhostTypes(role, dad, idx)' /\ Owners(role)'
      /\ Down(role, dad, idx)' /\ Up(role, dad, idx)'
  BY <1>0, SameTree
<1>2. Cur3' = Cur3 /\ L4Entry' = L4Entry /\ Cur2' = Cur2
  BY <1>0 DEF Cur3, Cur2, L4Entry
<1>3. l2_index \in Nat
  BY IndexTypes
<1>4. DoomedDown(role, dad, idx)'
  <2> SUFFICES ASSUME NEW p \in Pages, NEW i \in Index, Has(mem, p, i),
                      \/ role[p] = 13 /\ i >= l3_index
                      \/ role[p] = 12 /\ (p = Cur2 => i >= l2_index + 1)
               PROVE  Child(role, dad, idx, p, i)
    BY <1>0, <1>2 DEF DoomedDown, Child
  <2>1. i >= l2_index + 1 => i >= l2_index
    BY <1>3, Indices
  <2> QED BY <2>1, <1>0 DEF Tree, DoomedDown
<1>5. DoomedUp(role, dad, idx)'
  <2> SUFFICES ASSUME NEW q \in Pages, role[q] \in 11..12
               PROVE  /\ Parent(role, dad, idx, q)
                      /\ role[q] = 12 => idx[q] >= l3_index
                      /\ role[q] = 11 /\ dad[q] = Cur2 => idx[q] >= l2_index + 1
    BY <1>0, <1>2 DEF DoomedUp, Parent
  <2>1. /\ Parent(role, dad, idx, q) /\ (role[q] = 12 => idx[q] >= l3_index)
        /\ role[q] = 11 /\ dad[q] = Cur2 => idx[q] >= l2_index
    BY <1>0 DEF Tree, DoomedUp
  <2>2. dad[q] = Cur2 => idx[q] # l2_index
    BY <2>1, <1>0 DEF Parent
  <2>3. idx[q] \in Nat
    BY IndexTypes
  <2> QED BY <2>1, <2>2, <2>3, <1>3
<1>6. Clearing(role, idx)'
  <2>1. Clearing(role, idx)
    BY DEF Tree
  <2> QED BY <2>1, <1>0, <1>2 DEF Clearing
<1>7. Scanned(role)' /\ Untouched(role)' /\ SmallPages(role)' /\ Walking(role)'
  BY <1>0 DEF Tree, Scanned, Untouched, SmallPages, Walking
<1> QED BY <1>1, <1>4, <1>5, <1>6, <1>7 DEF Tree

\* When the level 4 loop is done the lower half is empty.
LEMMA NoneLeft ==
  ASSUME NEW role, NEW dad, NEW idx, TypeOK, Tree(role, dad, idx),
         pc = "l4", l4_index \notin LowerIndex
  PROVE  \A q \in Pages : role[q] \notin 0..3
<1>1. \A q \in Pages : role[q] # 3
  <2> SUFFICES ASSUME NEW q \in Pages, role[q] = 3 PROVE FALSE
    OBVIOUS
  <2>1. idx[q] \in LowerIndex
    BY DEF Tree, Up
  <2>2. idx[q] >= l4_index
    BY DEF Tree, Clearing
  <2>3. l4_index = PAGE \div 2
    BY DEF TypeOK
  <2> QED BY <2>1, <2>2, <2>3, Indices DEF LowerIndex
<1>2. \A q \in Pages : role[q] \in 0..3 => role[dad[q]] = role[q] + 1 /\ dad[q] \in Pages
  BY IndexTypes DEF Tree, Up, Parent
<1>3. \A q \in Pages : role[q] # 2
  BY <1>1, <1>2
<1>4. \A q \in Pages : role[q] # 1
  BY <1>2, <1>3
<1>5. \A q \in Pages : role[q] # 0
  BY <1>2, <1>4
<1> QED BY <1>1, <1>3, <1>4, <1>5

\* unmap_lower_half returns.
LEMMA L4DoneTree ==
  ASSUME NEW role, NEW dad, NEW idx, TypeOK, Tree(role, dad, idx), L4Done
  PROVE  Tree(role, dad, idx)'
<1>0. /\ UNCHANGED <<mem, free, lost>>
      /\ pc = "l4" /\ pc' = "idle" /\ l4_index \notin LowerIndex /\ phase' = "run"
  BY DEF L4Done, Return, memory
<1>4. \A q \in Pages : role[q] \notin 0..3
  BY <1>0, NoneLeft
<1>1. /\ GhostTypes(role, dad, idx)' /\ Owners(role)'
      /\ Down(role, dad, idx)' /\ Up(role, dad, idx)'
  <2>1. \A q \in Pages : role[q] # 1
    BY <1>4
  <2> QED BY <2>1, <1>0, SameTree
<1>2. \A q \in Pages : role[q] \notin 11..13
  BY <1>0, NoneDoomed
<1>3. DoomedDown(role, dad, idx)' /\ DoomedUp(role, dad, idx)' /\ Clearing(role, idx)'
  BY <1>0, <1>2 DEF DoomedDown, DoomedUp, Clearing
<1>5. SmallPages(role)'
  BY <1>0, <1>4 DEF Tree, SmallPages
<1>6. Scanned(role)' /\ Untouched(role)' /\ Walking(role)'
  BY <1>0 DEF Tree, Scanned, Untouched, Walking
<1> QED BY <1>1, <1>3, <1>5, <1>6 DEF Tree
-----------------------------------------------------------------------------
(***************************************************************************)
(* Steps that put a page on the freelist.                                  *)
(***************************************************************************)

\* Freeing a page that the tree does not use leaves the tree alone.
LEMMA FreeTree ==
  ASSUME NEW role, NEW dad, NEW idx, TypeOK, Tree(role, dad, idx), lost' = lost, phase' = phase,
         NEW p \in Pages, NEW count \in Int, Push(p, count),
         role[p] \in {AHEAD, 11, 12, 13}, pc' \in {"scan", "l4", "l3", "l2"},
         NEW role2, role2 = [role EXCEPT ![p] = FREE]
  PROVE  /\ p \in Frames /\ p \notin ToSet(free)
         /\ \A t \in Pages, i \in Index : t # p =>
               /\ mem'[t + i] = mem[t + i]
               /\ Has(mem', t, i) <=> Has(mem, t, i)
               /\ Goes(mem', t, i) = Goes(mem, t, i)
         /\ GhostTypes(role2, dad, idx)' /\ Owners(role2)'
         /\ Down(role2, dad, idx)' /\ Up(role2, dad, idx)'
         /\ Untouched(role2)' /\ SmallPages(role2)'
<1>0. role[p] \notin {NONE, FREE, LOST, 0, 1, 2, 3, 4}
  BY DEF AHEAD, NONE, FREE, LOST
<1>1. p \in Frames /\ p \notin ToSet(free)
  BY <1>0, RoleFrame DEF Tree, Owners
<1>2. GhostTypes(role, dad, idx) /\ FREE \in Roles
  BY DEF Tree, FREE, Roles
<1>3. /\ role2 \in [Pages -> Roles]
      /\ \A t \in Pages : role2[t] = IF t = p THEN FREE ELSE role[t]
  BY <1>2 DEF GhostTypes
<1>4. GhostTypes(role2, dad, idx)'
  BY <1>2, <1>3 DEF GhostTypes
<1>5. /\ \A w \in Words : w # p => mem'[w] = mem[w]
      /\ \A q : q \in ToSet(free') <=> q = p \/ q \in ToSet(free)
  BY <1>1, PushFacts
<1>6. ASSUME NEW t \in Pages, NEW i \in Index, t # p
      PROVE  /\ mem'[t + i] = mem[t + i]
             /\ Has(mem', t, i) <=> Has(mem, t, i)
             /\ Goes(mem', t, i) = Goes(mem, t, i)
  <2>1. t + i # p
    <3> SUFFICES ASSUME t + i = p PROVE FALSE
      OBVIOUS
    <3>1. t + i = p + 0 /\ 0 \in Index
      BY PageNumber, Indices
    <3> QED BY <3>1, <1>6, WordUnique
  <2>2. mem'[t + i] = mem[t + i]
    BY <2>1, <1>5, EntryWord
  <2> QED BY <2>2 DEF Has, Goes
<1>7. Owners(role2)'
  <2>1. \A t \in Pages :
           /\ role[t] = ROOT <=> t = CR3
           /\ t \in Managed <=> role[t] \notin {NONE, ROOT}
           /\ role[t] = FREE <=> t \in ToSet(free)
           /\ role[t] = LOST <=> t \in lost /\ t \in Managed
    BY DEF Tree, Owners
  <2>2. FREE \notin {NONE, ROOT, LOST} /\ role[p] # ROOT
    BY <1>0 DEF FREE, NONE, ROOT, LOST
  <2> QED BY <2>1, <2>2, <1>0, <1>3, <1>5 DEF Owners
<1>8. \A t \in Pages : role2[t] \in 0..4 => t # p /\ role2[t] = role[t]
  BY <1>3 DEF FREE
<1>9. \A q \in Pages : role[q] \in 0..4 => q # p /\ role2[q] = role[q]
  BY <1>0, <1>3
<1>10. Down(role2, dad, idx)'
  <2> SUFFICES ASSUME NEW t \in Pages, role2[t] \in 1..4, NEW i \in Entries(role2, t),
                      Has(mem', t, i),
                      role2[t] > 1 \/ (phase' = "run" /\ Goes(mem', t, i) \in Managed)
               PROVE  Child(role2, dad, idx, t, i)'
    BY DEF Down, Entries
  <2>1. t # p /\ role2[t] = role[t] /\ role[t] \in 1..4
    BY <1>8
  <2>2. i \in Entries(role, t) /\ i \in Index
    BY <2>1, Indices DEF Entries
  <2>3. Has(mem, t, i) /\ Goes(mem', t, i) = Goes(mem, t, i)
    BY <2>1, <2>2, <1>6
  <2>4. Child(role, dad, idx, t, i)
    BY <2>1, <2>2, <2>3 DEF Tree, Down
  <2>5. Goes(mem, t, i) \in Pages
    BY <2>2, GoesToPage DEF TypeOK
  <2>6. role2[Goes(mem, t, i)] = role[Goes(mem, t, i)]
    BY <2>1, <2>4, <2>5, <1>9 DEF Child
  <2> QED BY <2>1, <2>3, <2>4, <2>6 DEF Child
<1>11. Up(role2, dad, idx)'
  <2> SUFFICES ASSUME NEW q \in Pages, role2[q] \in 0..3
               PROVE  /\ Parent(role2, dad, idx, q)'
                      /\ role2[q] = 3 => idx[q] \in LowerIndex
    BY DEF Up
  <2>1. role2[q] = role[q] /\ role[q] \in 0..3
    BY <1>8
  <2>2. Parent(role, dad, idx, q) /\ (role[q] = 3 => idx[q] \in LowerIndex)
    BY <2>1 DEF Tree, Up
  <2>3. dad[q] \in Pages /\ idx[q] \in Index /\ role[dad[q]] \in 0..4
    BY <2>1, <2>2, <1>2 DEF Parent, GhostTypes
  <2> QED BY <2>1, <2>2, <2>3, <1>6, <1>9 DEF Parent
<1>12. Untouched(role2)'
  <2> SUFFICES ASSUME NEW t \in Pages, NEW i \in Index,
                      role2[t] = NONE \/ (role2[t] = ROOT /\ i \notin LowerIndex)
               PROVE  mem'[t + i] = BootMem[t + i]
    BY DEF Untouched
  <2>1. t # p /\ role2[t] = role[t]
    BY <1>3 DEF FREE, NONE, ROOT
  <2> QED BY <2>1, <1>6 DEF Tree, Untouched
<1>13. SmallPages(role2)'
  <2>1. CR3 \in Pages /\ CR3 # p
    BY RootPage, <1>0 DEF Tree, Owners, ROOT
  <2>2. \A i \in LowerIndex : mem'[CR3 + i] = mem[CR3 + i]
    BY <2>1, <1>6, Indices
  <2> QED BY <2>2 DEF Tree, SmallPages
<1> QED BY <1>1, <1>3, <1>4, <1>6, <1>7, <1>10, <1>11, <1>12, <1>13

\* mem_init finds a usable page.
LEMMA ScanPageTree ==
  ASSUME NEW role, NEW dad, NEW idx, TypeOK, Tree(role, dad, idx), ScanPage
  PROVE  /\ curr \in Frames /\ curr \notin ToSet(free)
         /\ \E r, d, x : Tree(r, d, x)'
<1>0. /\ UNCHANGED <<lost, pc, l4_index, l3_index, l2_index, table, level, current, phase>>
      /\ pc = "scan" /\ InUsable /\ curr < EndOf(memmap[current])
      /\ Push(curr, 2) /\ curr' = curr + PAGE
  BY DEF ScanPage, loops, walk
<1>1. curr \in Pages /\ memmap[current].base <= curr
  BY <1>0 DEF Tree, Scanned
<1>2. /\ current \in DOMAIN memmap /\ memmap[current].type = USABLE
      /\ current \in Nat /\ curr \in Nat /\ PAGE \in Nat /\ PAGE > 0
  BY <1>0, PagingAssumption DEF InUsable, TypeOK
<1>3. IsAhead(curr)
  <2>1. current >= current /\ curr <= curr
    BY <1>2
  <2> QED BY <2>1, <1>0, <1>1, <1>2 DEF IsAhead
<1>4. role[curr] = AHEAD
  BY <1>0, <1>1, <1>3 DEF Tree, Scanned
<1>5. PICK role2 : role2 = [role EXCEPT ![curr] = FREE]
  OBVIOUS
<1>6. /\ 2 \in Int /\ Push(curr, 2) /\ lost' = lost /\ phase' = phase
      /\ role[curr] \in {AHEAD, 11, 12, 13} /\ pc' \in {"scan", "l4", "l3", "l2"}
  BY <1>0, <1>4
<1>7. /\ curr \in Frames /\ curr \notin ToSet(free)
      /\ \A t \in Pages : role2[t] = IF t = curr THEN FREE ELSE role[t]
      /\ GhostTypes(role2, dad, idx)' /\ Owners(role2)'
      /\ Down(role2, dad, idx)' /\ Up(role2, dad, idx)'
      /\ Untouched(role2)' /\ SmallPages(role2)'
  <2>1. role \in [Pages -> Roles]
    BY DEF Tree, GhostTypes
  <2>2. \A t \in Pages : role2[t] = IF t = curr THEN FREE ELSE role[t]
    BY <2>1, <1>1, <1>5
  <2>3. /\ curr \in Frames /\ curr \notin ToSet(free)
        /\ GhostTypes(role2, dad, idx)' /\ Owners(role2)'
        /\ Down(role2, dad, idx)' /\ Up(role2, dad, idx)'
        /\ Untouched(role2)' /\ SmallPages(role2)'
    BY <1>1, <1>5, <1>6, FreeTree
  <2> QED BY <2>2, <2>3
<1>8. \A q \in Pages : role2[q] \notin 11..13
  <2>1. \A q \in Pages : role[q] \notin 11..13
    BY <1>0, NoneDoomed
  <2> QED BY <2>1, <1>7 DEF FREE
<1>9. DoomedDown(role2, dad, idx)' /\ DoomedUp(role2, dad, idx)' /\ Clearing(role2, idx)'
  BY <1>0, <1>8 DEF DoomedDown, DoomedUp, Clearing
<1>10. ASSUME NEW q \in Pages
       PROVE  IsAhead(q)' <=> IsAhead(q) /\ q # curr
  <2>0. q \in Nat
    BY PageNumber
  <2>1. ASSUME NEW k \in DOMAIN memmap, k >= current, memmap[k].type = USABLE,
               memmap[k].base <= q, q < EndOf(memmap[k]), k = current => curr + PAGE <= q
        PROVE  IsAhead(q) /\ q # curr
    <3>1. k = current => curr <= q
      BY <2>1, <2>0, <1>2
    <3>2. q # curr
      <4>1. CASE k = current
        BY <4>1, <2>0, <2>1, <1>2
      <4>2. CASE k # current
        <5>1. k \in DOMAIN memmap \ {current}
          BY <4>2, <2>1
        <5>2. EndOf(memmap[k]) <= memmap[current].base \/ EndOf(memmap[current]) <= memmap[k].base
          BY <5>1, <2>1, <1>2, BootLoaderAssumption
        <5> QED BY <5>2, <2>0, <2>1, <1>0, <1>1, <1>2, MapEntries
      <4> QED BY <4>1, <4>2
    <3> QED BY <3>1, <3>2, <2>1 DEF IsAhead
  <2>2. ASSUME NEW k \in DOMAIN memmap, k >= current, memmap[k].type = USABLE,
               memmap[k].base <= q, q < EndOf(memmap[k]), k = current => curr <= q, q # curr
        PROVE  IsAhead(q)'
    <3>1. k = current => curr + PAGE <= q
      <4>1. k = current => curr < q
        BY <2>2, <2>0, <1>2
      <4> QED BY <4>1, <1>1, PageOrder
    <3> QED BY <3>1, <2>2, <1>0 DEF IsAhead
  <2> QED BY <2>1, <2>2, <1>0 DEF IsAhead
<1>11. Scanned(role2)'
  <2>1. \A q \in Pages : role2[q] = AHEAD <=> pc' = "scan" /\ IsAhead(q)'
    BY <1>0, <1>7, <1>10 DEF Tree, Scanned, FREE, AHEAD
  <2>2. \A q \in Pages : q \in UsablePages <=> role2[q] \in {FREE, AHEAD}
    BY <1>0, <1>1, <1>4, <1>7 DEF Tree, Scanned
  <2>3. /\ memmap[current'].base <= curr'
        /\ curr' < EndOf(memmap[current']) => curr' \in Pages
    <3>0. memmap[current].base \in Nat /\ EndOf(memmap[current]) \in Nat
      BY <1>2, MapEntries
    <3>1. memmap[current'].base <= curr'
      BY <3>0, <1>0, <1>1, <1>2
    <3>2. ASSUME curr' < EndOf(memmap[current])
          PROVE  curr' \in Pages
      <4>1. memmap[current] \in ToSet(memmap)
        BY <1>2 DEF ToSet
      <4>2. curr' \in memmap[current].base..memmap[current].base + memmap[current].length - 1
        <5>1. memmap[current].length \in Nat /\ curr' \in Nat
          BY <1>0, <1>2, MapEntries
        <5> QED BY <5>1, <3>0, <3>1, <3>2, <1>0 DEF EndOf
      <4>3. curr + PAGE \in Words
        BY <4>1, <4>2, <1>0, <1>2, PagingAssumption
      <4>4. PICK f \in 0..FRAMES - 1 : curr = f * PAGE
        BY <1>1, PageNumber
      <4>5. FRAMES \in Nat /\ f \in Nat
        BY PagingAssumption
      <4>6. f + 1 <= FRAMES - 1
        <5> SUFFICES ASSUME f = FRAMES - 1 PROVE FALSE
          BY <4>5
        <5>1. FRAMES = f + 1
          BY <4>5
        <5>2. f * PAGE \in Nat /\ FRAMES * PAGE = f * PAGE + PAGE
          BY <5>1, <4>5, <1>2
        <5> QED BY <5>2, <4>3, <4>4, <1>2 DEF Words
      <4>7. (f + 1) * PAGE = f * PAGE + PAGE
        BY <4>5, <1>2
      <4>8. f + 1 \in 0..FRAMES - 1
        BY <4>5, <4>6
      <4> QED BY <4>4, <4>7, <4>8, <1>0, PageNumber
    <3> QED BY <3>1, <3>2, <1>0
  <2> QED BY <2>1, <2>2, <2>3 DEF Scanned
<1>12. Walking(role2)'
  BY <1>0, <1>7 DEF Tree, Walking, FREE, MAPPED
<1>13. Tree(role2, dad, idx)'
  BY <1>7, <1>9, <1>11, <1>12 DEF Tree
<1> QED BY <1>7, <1>13
\* Where the inner loops are: the level 3 table, and in the innermost the level 2 table.
LEMMA LoopTables ==
  ASSUME NEW role, NEW dad, NEW idx, TypeOK, Tree(role, dad, idx), pc \in {"l3", "l2"}
  PROVE  /\ l4_index \in LowerIndex /\ l4_index \in Index /\ ~L4Entry.present
         /\ Cur3 \in Pages /\ role[Cur3] = 13 /\ role[CR3] = 4
         /\ pc = "l2" =>
               /\ Cur2 \in Pages /\ role[Cur2] = 12 /\ dad[Cur2] = Cur3 /\ idx[Cur2] = l3_index
               /\ l3_index \in Index /\ Has(mem, Cur3, l3_index)
<1>0. mem \in [Words -> Entry] /\ CR3 \in Pages
  BY RootPage DEF TypeOK
<1>1. l4_index \in LowerIndex /\ ~L4Entry.present
  BY DEF Tree, Clearing
<1>2. l4_index \in Index
  BY <1>1, Indices
<1>3. Cur3 \in Pages
  BY <1>0, <1>2, GoesToPage DEF Cur3
<1>4. role[Cur3] = 13
  BY <1>3 DEF Tree, Clearing
<1>5. role[CR3] = 4
  BY <1>0 DEF Tree, Owners, ROOT
<1>6. ASSUME pc = "l2"
      PROVE  /\ Cur2 \in Pages /\ role[Cur2] = 12 /\ dad[Cur2] = Cur3 /\ idx[Cur2] = l3_index
             /\ l3_index \in Index /\ Has(mem, Cur3, l3_index)
  <2>1. l3_index \in Index /\ Has(mem, Cur3, l3_index) /\ l3_index >= l3_index
    BY <1>6, IndexTypes DEF Tree, Clearing
  <2>2. Cur2 \in Pages
    BY <2>1, <1>0, <1>3, GoesToPage DEF Cur2
  <2>3. Child(role, dad, idx, Cur3, l3_index)
    BY <2>1, <1>3, <1>4 DEF Tree, DoomedDown
  <2>4. role[Cur2] = 13 - 1 /\ dad[Cur2] = Cur3 /\ idx[Cur2] = l3_index
    BY <2>3, <1>4 DEF Child, Cur2
  <2> QED BY <2>1, <2>2, <2>4
<1> QED BY <1>1, <1>2, <1>3, <1>4, <1>5, <1>6

\* The level 2 loop frees a level 1 table.
LEMMA L2FreeTree ==
  ASSUME NEW role, NEW dad, NEW idx, TypeOK, Tree(role, dad, idx), L2Step,
         HasTable(mem[L2Word])
  PROVE  /\ Base(mem[L2Word]) \in Frames /\ Base(mem[L2Word]) \notin ToSet(free)
         /\ \E r, d, x : Tree(r, d, x)'
<1>1. PICK p : p = Goes(mem, Cur2, l2_index)
  OBVIOUS
<1>0. /\ UNCHANGED <<lost, l4_index, l3_index, pc, phase>>
      /\ pc = "l2" /\ l2_index \in Index /\ l2_index' = l2_index + 1
      /\ Has(mem, Cur2, l2_index) /\ Push(p, 1) /\ p = Base(mem[L2Word])
  BY <1>1, LoopWords DEF L2Step, pmem_free, scan
<1>2. /\ l4_index \in Index /\ ~L4Entry.present
      /\ Cur3 \in Pages /\ role[Cur3] = 13 /\ role[CR3] = 4
      /\ Cur2 \in Pages /\ role[Cur2] = 12 /\ l3_index \in Index
  BY <1>0, LoopTables
<1>3. mem \in [Words -> Entry] /\ CR3 \in Pages /\ l2_index \in Nat
  BY RootPage, IndexTypes DEF TypeOK
<1>4. p \in Pages
  BY <1>0, <1>1, <1>2, <1>3, GoesToPage
<1>5. role[p] = 11 /\ dad[p] = Cur2 /\ idx[p] = l2_index
  <2>1. l2_index >= l2_index
    BY <1>3
  <2>2. Child(role, dad, idx, Cur2, l2_index)
    BY <2>1, <1>0, <1>2 DEF Tree, DoomedDown
  <2>3. role[p] = 12 - 1 /\ dad[p] = Cur2 /\ idx[p] = l2_index
    BY <2>2, <1>1, <1>2 DEF Child
  <2> QED BY <2>3
<1>6. PICK role2 : role2 = [role EXCEPT ![p] = FREE]
  OBVIOUS
<1>7. /\ 1 \in Int /\ Push(p, 1) /\ lost' = lost /\ phase' = phase
      /\ role[p] \in {AHEAD, 11, 12, 13} /\ pc' \in {"scan", "l4", "l3", "l2"}
  BY <1>0, <1>5
<1>8. role \in [Pages -> Roles]
  BY DEF Tree, GhostTypes
<1>9. role2[p] = FREE /\ \A t \in Pages : t # p => role2[t] = role[t]
  BY <1>4, <1>6, <1>8
<1>10. /\ p \in Frames /\ p \notin ToSet(free)
       /\ \A t \in Pages, i \in Index : t # p =>
             /\ mem'[t + i] = mem[t + i]
             /\ Has(mem', t, i) <=> Has(mem, t, i)
             /\ Goes(mem', t, i) = Goes(mem, t, i)
       /\ GhostTypes(role2, dad, idx)' /\ Owners(role2)'
       /\ Down(role2, dad, idx)' /\ Up(role2, dad, idx)'
       /\ Untouched(role2)' /\ SmallPages(role2)'
  BY <1>4, <1>6, <1>7, FreeTree
<1>11. Cur3 # p /\ Cur2 # p /\ CR3 # p
  BY <1>2, <1>5
<1>12. L4Entry' = L4Entry /\ Cur3' = Cur3
  BY <1>0, <1>2, <1>3, <1>10, <1>11 DEF L4Entry, Cur3
<1>13. Cur2' = Cur2
  BY <1>0, <1>2, <1>10, <1>11, <1>12 DEF Cur2
<1>14. DoomedDown(role2, dad, idx)'
  <2> SUFFICES ASSUME NEW t \in Pages, NEW i \in Index, Has(mem', t, i),
                      \/ role2[t] = 13 /\ i >= l3_index
                      \/ role2[t] = 12 /\ (t = Cur2 => i >= l2_index + 1)
               PROVE  Child(role2, dad, idx, t, i)'
    BY <1>0, <1>13 DEF DoomedDown
  <2>1. t # p /\ role2[t] = role[t]
    BY <1>9 DEF FREE
  <2>2. Has(mem, t, i) /\ Goes(mem', t, i) = Goes(mem, t, i)
    BY <2>1, <1>10
  <2>3. i >= l2_index + 1 => i >= l2_index /\ i # l2_index
    BY <1>3, Indices
  <2>4. Child(role, dad, idx, t, i)
    BY <2>1, <2>2, <2>3, <1>0 DEF Tree, DoomedDown
  <2>5. Goes(mem, t, i) \in Pages
    BY <1>3, GoesToPage
  <2>6. Goes(mem, t, i) # p
    <3> SUFFICES ASSUME Goes(mem, t, i) = p PROVE FALSE
      OBVIOUS
    <3>1. t = Cur2 /\ i = l2_index
      BY <2>4, <1>5 DEF Child
    <3> QED BY <3>1, <2>1, <2>3, <1>2
  <2> QED BY <2>1, <2>2, <2>4, <2>5, <2>6, <1>9 DEF Child
<1>15. DoomedUp(role2, dad, idx)'
  <2> SUFFICES ASSUME NEW q \in Pages, role2[q] \in 11..12
               PROVE  /\ Parent(role2, dad, idx, q)'
                      /\ role2[q] = 12 => idx[q] >= l3_index
                      /\ role2[q] = 11 /\ dad[q] = Cur2 => idx[q] >= l2_index + 1
    BY <1>0, <1>13 DEF DoomedUp
  <2>1. q # p /\ role2[q] = role[q]
    BY <1>9 DEF FREE
  <2>2. /\ Parent(role, dad, idx, q) /\ (role[q] = 12 => idx[q] >= l3_index)
        /\ role[q] = 11 /\ dad[q] = Cur2 => idx[q] >= l2_index
    BY <2>1, <1>0 DEF Tree, DoomedUp
  <2>3. idx[q] \in Nat /\ idx[q] \in Index /\ dad[q] \in Pages /\ role[q] \in Int
    BY IndexTypes
  <2>4. dad[q] # p
    BY <2>1, <2>2, <2>3, <1>5 DEF Parent
  <2>5. Parent(role2, dad, idx, q)'
    BY <2>1, <2>2, <2>3, <2>4, <1>9, <1>10 DEF Parent
  <2>6. dad[q] = Cur2 => idx[q] # l2_index
    BY <2>1, <2>2, <1>1 DEF Parent
  <2> QED BY <2>1, <2>2, <2>3, <2>5, <2>6, <1>3
<1>16. Clearing(role2, idx)'
  <2>1. Clearing(role, idx)
    BY DEF Tree
  <2>2. \A q \in Pages : role2[q] = 13 <=> role[q] = 13
    BY <1>5, <1>9 DEF FREE
  <2>3. \A q \in Pages : role2[q] = 3 <=> role[q] = 3
    BY <1>5, <1>9 DEF FREE
  <2>4. Has(mem', Cur3, l3_index) <=> Has(mem, Cur3, l3_index)
    BY <1>2, <1>10, <1>11
  <2> QED BY <2>1, <2>2, <2>3, <2>4, <1>0, <1>12 DEF Clearing
<1>17. Scanned(role2)'
  <2>1. \A q \in Pages : role2[q] # AHEAD
    BY <1>0, <1>9 DEF Tree, Scanned, FREE, AHEAD
  <2> QED BY <2>1, <1>0 DEF Scanned
<1>18. Walking(role2)'
  BY <1>0, <1>9 DEF Tree, Walking, FREE, MAPPED
<1>19. Tree(role2, dad, idx)'
  BY <1>10, <1>14, <1>15, <1>16, <1>17, <1>18 DEF Tree
<1> QED BY <1>0, <1>10, <1>19

\* The level 2 loop is done: the level 2 table is freed.
LEMMA L2DoneTree ==
  ASSUME NEW role, NEW dad, NEW idx, TypeOK, Tree(role, dad, idx), L2Done
  PROVE  /\ Base(mem[L3Word]) \in Frames /\ Base(mem[L3Word]) \notin ToSet(free)
         /\ \E r, d, x : Tree(r, d, x)'
<1>1. PICK p : p = Cur2
  OBVIOUS
<1>0. /\ UNCHANGED <<lost, l4_index, phase>> /\ pc' = "l3" /\ l3_index' = l3_index + 1
      /\ pc = "l2" /\ l2_index \notin Index
      /\ Push(p, 1) /\ p = Base(mem[L3Word])
  BY <1>1, LoopWords DEF L2Done, pmem_free, scan
<1>2. /\ l4_index \in Index /\ ~L4Entry.present
      /\ Cur3 \in Pages /\ role[Cur3] = 13 /\ role[CR3] = 4
      /\ p \in Pages /\ role[p] = 12 /\ dad[p] = Cur3 /\ idx[p] = l3_index /\ l3_index \in Index
  BY <1>0, <1>1, LoopTables
<1>3. mem \in [Words -> Entry] /\ CR3 \in Pages /\ l3_index \in Nat
  BY RootPage, IndexTypes DEF TypeOK
<1>4. \A i \in Index : ~(i >= l2_index)
  <2>1. l2_index \in 0..PAGE /\ PAGE \in Nat
    BY PagingAssumption DEF TypeOK
  <2> QED BY <2>1, <1>0 DEF Index
<1>6. PICK role2 : role2 = [role EXCEPT ![p] = FREE]
  OBVIOUS
<1>7. /\ 1 \in Int /\ Push(p, 1) /\ lost' = lost /\ phase' = phase
      /\ role[p] \in {AHEAD, 11, 12, 13} /\ pc' \in {"scan", "l4", "l3", "l2"}
  BY <1>0, <1>2
<1>8. role \in [Pages -> Roles]
  BY DEF Tree, GhostTypes
<1>9. role2[p] = FREE /\ \A t \in Pages : t # p => role2[t] = role[t]
  BY <1>2, <1>6, <1>8
<1>10. /\ p \in Frames /\ p \notin ToSet(free)
       /\ \A t \in Pages, i \in Index : t # p =>
             /\ mem'[t + i] = mem[t + i]
             /\ Has(mem', t, i) <=> Has(mem, t, i)
             /\ Goes(mem', t, i) = Goes(mem, t, i)
       /\ GhostTypes(role2, dad, idx)' /\ Owners(role2)'
       /\ Down(role2, dad, idx)' /\ Up(role2, dad, idx)'
       /\ Untouched(role2)' /\ SmallPages(role2)'
  BY <1>2, <1>6, <1>7, FreeTree
<1>11. Cur3 # p /\ CR3 # p
  BY <1>2
<1>12. L4Entry' = L4Entry /\ Cur3' = Cur3
  BY <1>0, <1>2, <1>3, <1>10, <1>11 DEF L4Entry, Cur3
<1>13. \A q \in Pages : role[q] = 13 => q = Cur3
  BY DEF Tree, Clearing
<1>14. DoomedDown(role2, dad, idx)'
  <2> SUFFICES ASSUME NEW t \in Pages, NEW i \in Index, Has(mem', t, i),
                      (role2[t] = 13 /\ i >= l3_index + 1) \/ role2[t] = 12
               PROVE  Child(role2, dad, idx, t, i)'
    BY <1>0 DEF DoomedDown
  <2>1. t # p /\ role2[t] = role[t]
    BY <1>9 DEF FREE
  <2>2. Has(mem, t, i) /\ Goes(mem', t, i) = Goes(mem, t, i)
    BY <2>1, <1>10
  <2>3. i >= l3_index + 1 => i >= l3_index /\ i # l3_index
    BY <1>3, Indices
  <2>4. Child(role, dad, idx, t, i)
    BY <2>1, <2>2, <2>3, <1>1 DEF Tree, DoomedDown
  <2>5. Goes(mem, t, i) \in Pages
    BY <1>3, GoesToPage
  <2>6. Goes(mem, t, i) # p
    <3> SUFFICES ASSUME Goes(mem, t, i) = p PROVE FALSE
      OBVIOUS
    <3>1. t = Cur3 /\ i = l3_index
      BY <2>4, <1>2 DEF Child
    <3> QED BY <3>1, <2>1, <2>3, <1>2
  <2> QED BY <2>1, <2>2, <2>4, <2>5, <2>6, <1>9 DEF Child
<1>15. DoomedUp(role2, dad, idx)'
  <2> SUFFICES ASSUME NEW q \in Pages, role2[q] \in 11..12
               PROVE  /\ Parent(role2, dad, idx, q)'
                      /\ role2[q] = 12 => idx[q] >= l3_index + 1
    BY <1>0 DEF DoomedUp
  <2>1. q # p /\ role2[q] = role[q]
    BY <1>9 DEF FREE
  <2>2. /\ Parent(role, dad, idx, q) /\ (role[q] = 12 => idx[q] >= l3_index)
        /\ role[q] = 11 /\ dad[q] = p => idx[q] >= l2_index
    BY <2>1, <1>0, <1>1 DEF Tree, DoomedUp
  <2>3. idx[q] \in Nat /\ idx[q] \in Index /\ dad[q] \in Pages /\ role[q] \in Int
    BY IndexTypes
  <2>4. dad[q] # p
    BY <2>1, <2>2, <2>3, <1>2, <1>4 DEF Parent
  <2>5. Parent(role2, dad, idx, q)'
    BY <2>1, <2>2, <2>3, <2>4, <1>9, <1>10 DEF Parent
  <2>6. role[q] = 12 => dad[q] = Cur3
    BY <2>2, <2>3, <1>13 DEF Parent
  <2>7. role[q] = 12 => idx[q] # l3_index
    BY <2>1, <2>2, <2>6, <1>1 DEF Parent, Cur2
  <2> QED BY <2>1, <2>2, <2>3, <2>5, <2>7, <1>3
<1>16. Clearing(role2, idx)'
  <2>1. Clearing(role, idx)
    BY DEF Tree
  <2>2. \A q \in Pages : role2[q] = 13 <=> role[q] = 13
    BY <1>2, <1>9 DEF FREE
  <2>3. \A q \in Pages : role2[q] = 3 <=> role[q] = 3
    BY <1>2, <1>9 DEF FREE
  <2> QED BY <2>1, <2>2, <2>3, <1>0, <1>12 DEF Clearing
<1>17. Scanned(role2)'
  <2>1. \A q \in Pages : role2[q] # AHEAD
    BY <1>0, <1>9 DEF Tree, Scanned, FREE, AHEAD
  <2> QED BY <2>1, <1>0 DEF Scanned
<1>18. Walking(role2)'
  BY <1>0, <1>9 DEF Tree, Walking, FREE, MAPPED
<1>19. Tree(role2, dad, idx)'
  BY <1>10, <1>14, <1>15, <1>16, <1>17, <1>18 DEF Tree
<1> QED BY <1>0, <1>10, <1>19

\* The level 3 loop is done: the level 3 table is freed.
LEMMA L3DoneTree ==
  ASSUME NEW role, NEW dad, NEW idx, TypeOK, Tree(role, dad, idx), L3Done
  PROVE  /\ Base(L4Entry) \in Frames /\ Base(L4Entry) \notin ToSet(free)
         /\ \E r, d, x : Tree(r, d, x)'
<1>1. PICK p : p = Cur3
  OBVIOUS
<1>0. /\ UNCHANGED <<lost, phase>> /\ pc' = "l4" /\ l4_index' = l4_index + 1
      /\ pc = "l3" /\ l3_index \notin Index
      /\ Push(p, 1) /\ p = Base(L4Entry)
  BY <1>1, LoopWords DEF L3Done, pmem_free, scan
<1>2. /\ l4_index \in Index /\ ~L4Entry.present /\ p \in Pages /\ role[p] = 13
  BY <1>0, <1>1, LoopTables
<1>3. l4_index \in Nat
  BY IndexTypes
<1>4. \A i \in Index : ~(i >= l3_index)
  <2>1. l3_index \in 0..PAGE /\ PAGE \in Nat
    BY PagingAssumption DEF TypeOK
  <2> QED BY <2>1, <1>0 DEF Index
<1>5. \A q \in Pages : role[q] # 12 /\ role[q] # 11 /\ (role[q] = 13 => q = p)
  <2>1. \A q \in Pages : idx[q] \in Index /\ dad[q] \in Pages
    BY IndexTypes
  <2>2. \A q \in Pages : role[q] # 12
    BY <2>1, <1>4 DEF Tree, DoomedUp
  <2>3. \A q \in Pages : role[q] # 11
    BY <2>1, <2>2 DEF Tree, DoomedUp, Parent
  <2> QED BY <2>2, <2>3, <1>1 DEF Tree, Clearing
<1>6. PICK role2 : role2 = [role EXCEPT ![p] = FREE]
  OBVIOUS
<1>7. /\ 1 \in Int /\ Push(p, 1) /\ lost' = lost /\ phase' = phase
      /\ role[p] \in {AHEAD, 11, 12, 13} /\ pc' \in {"scan", "l4", "l3", "l2"}
  BY <1>0, <1>2
<1>8. role \in [Pages -> Roles]
  BY DEF Tree, GhostTypes
<1>9. role2[p] = FREE /\ \A t \in Pages : t # p => role2[t] = role[t]
  BY <1>2, <1>6, <1>8
<1>10. /\ p \in Frames /\ p \notin ToSet(free)
       /\ GhostTypes(role2, dad, idx)' /\ Owners(role2)'
       /\ Down(role2, dad, idx)' /\ Up(role2, dad, idx)'
       /\ Untouched(role2)' /\ SmallPages(role2)'
  BY <1>2, <1>6, <1>7, FreeTree
<1>11. \A q \in Pages : role2[q] \notin {11, 12, 13}
  BY <1>5, <1>9 DEF FREE
<1>12. DoomedDown(role2, dad, idx)' /\ DoomedUp(role2, dad, idx)'
  BY <1>11 DEF DoomedDown, DoomedUp
<1>13. ASSUME NEW q \in Pages, role2[q] = 3
       PROVE  idx[q] >= l4_index + 1
  <2>0. role[q] = 3
    BY <1>9, <1>13 DEF FREE
  <2>1. Parent(role, dad, idx, q) /\ dad[q] \in Pages /\ idx[q] \in Nat
    BY <2>0, IndexTypes DEF Tree, Up
  <2>2. role[dad[q]] = 4 /\ Has(mem, dad[q], idx[q])
    BY <2>0, <2>1 DEF Parent
  <2>3. dad[q] = CR3
    BY <2>1, <2>2 DEF Tree, Owners, ROOT
  <2>4. idx[q] # l4_index
    BY <2>2, <2>3, <1>2 DEF Has, HasTable, L4Entry
  <2>5. idx[q] >= l4_index
    BY <2>0, <1>0 DEF Tree, Clearing
  <2> QED BY <2>1, <2>4, <2>5, <1>3
<1>14. Clearing(role2, idx)'
  BY <1>0, <1>11, <1>13 DEF Clearing
<1>17. Scanned(role2)'
  <2>1. \A q \in Pages : role2[q] # AHEAD
    BY <1>0, <1>9 DEF Tree, Scanned, FREE, AHEAD
  <2> QED BY <2>1, <1>0 DEF Scanned
<1>18. Walking(role2)'
  BY <1>0, <1>9 DEF Tree, Walking, FREE, MAPPED
<1>19. Tree(role2, dad, idx)'
  BY <1>10, <1>12, <1>14, <1>17, <1>18 DEF Tree
<1> QED BY <1>0, <1>10, <1>19
-----------------------------------------------------------------------------
(***************************************************************************)
(* vm_map takes a page and enters it in a table.                           *)
(***************************************************************************)

\* The new page is zero, and one entry leads to it.
LEMMA EnterFacts ==
  ASSUME TypeOK, freelist \in Pages, NEW t \in Pages, NEW i \in Index, t # freelist,
         NEW rights \in SUBSET Flags, Enter(t + i, rights)
  PROVE  /\ mem' \in [Words -> Entry]
         /\ \A s \in Pages, j \in Index :
               s # freelist /\ ~(s = t /\ j = i) => mem'[s + j] = mem[s + j]
         /\ \A j \in Index : mem'[freelist + j] = Link(NULL)
         /\ mem'[t + i].present /\ mem'[t + i].page_size = mem[t + i].page_size
         /\ mem'[t + i].flags = rights
         /\ Base(mem'[t + i]) = freelist
<1>0. /\ mem \in [Words -> Entry] /\ PAGE \in Nat /\ freelist \in Nat
      /\ NULL \in Pages /\ Pages \subseteq Nat
  BY PagingAssumption, PageNumber, RootPage DEF TypeOK
<1> DEFINE new == freelist..freelist + PAGE - 1
           zeroed == [w \in Words |-> IF w \in new THEN Link(NULL) ELSE mem[w]]
           entry == [present |-> TRUE, address |-> freelist \div PAGE, flags |-> rights,
                     page_size |-> zeroed[t + i].page_size]
<1>1. mem' = [zeroed EXCEPT ![t + i] = entry]
  BY DEF Enter
<1>2. \A s \in Pages, j \in Index : s # freelist => s + j \notin new
  <2> SUFFICES ASSUME NEW s \in Pages, NEW j \in Index, s # freelist PROVE s + j \notin new
    OBVIOUS
  <2>1. s \in Nat /\ (s < freelist => s + PAGE <= freelist) /\ (freelist < s => freelist + PAGE <= s)
    BY <1>0, PageOrder
  <2> QED BY <2>1, <1>0 DEF Index
<1>3. \A j \in Index : freelist + j \in new
  BY <1>0 DEF Index
<1>4. \A s \in Pages, j \in Index : s + j \in Words
  BY EntryWord
<1>5. Link(NULL) \in Entry /\ Link(freelist) \in Entry /\ Base(Link(freelist)) = freelist
  BY <1>0, Bases
<1>6. zeroed \in [Words -> Entry]
  BY <1>0, <1>5
<1>7. zeroed[t + i] = mem[t + i] /\ t + i \in Words
  BY <1>2, <1>4
<1>8. freelist \div PAGE \in 0..FRAMES - 1 /\ (freelist \div PAGE) * PAGE = freelist
  BY <1>5 DEF Link, Entry, Base
<1>9. mem[t + i] \in Entry
  BY <1>0, <1>7
<1>10. entry = [present |-> TRUE, address |-> freelist \div PAGE, flags |-> rights,
                page_size |-> mem[t + i].page_size]
  BY <1>7
<1>11. entry \in Entry
  BY <1>8, <1>9, <1>10 DEF Entry
<1>12. /\ entry.present /\ entry.page_size = mem[t + i].page_size /\ entry.flags = rights
       /\ Base(entry) = freelist
  BY <1>8, <1>10 DEF Base
<1>13. \A s \in Pages, j \in Index : s # freelist => zeroed[s + j] = mem[s + j]
  BY <1>2, <1>4
<1>14. \A j \in Index : zeroed[freelist + j] = Link(NULL)
  BY <1>3, <1>4
<1> HIDE DEF zeroed, entry, new
<1>15. mem' \in [Words -> Entry] /\ mem'[t + i] = entry
  BY <1>1, <1>6, <1>7, <1>11
<1>16. \A w \in Words : w # t + i => mem'[w] = zeroed[w]
  BY <1>1, <1>6
<1>17. \A s \in Pages, j \in Index : ~(s = t /\ j = i) => mem'[s + j] = zeroed[s + j]
  BY <1>4, <1>16, WordUnique
<1>18. \A j \in Index : mem'[freelist + j] = Link(NULL)
  BY <1>14, <1>17
<1> QED BY <1>12, <1>13, <1>15, <1>17, <1>18

\* The page taken becomes a table or a mapped page, below the table reached.
LEMMA EnterTree ==
  ASSUME NEW role, NEW dad, NEW idx, TypeOK, FreelistIntact, Tree(role, dad, idx),
         pc = "map", pc' \in {"map", "idle"}, ~mem[Slot].present, pmem_alloc,
         NEW rights \in SUBSET Flags, Enter(Slot, rights), lost' = lost, phase' = phase,
         pc' = "map" => table' = freelist /\ level' = level - 1
  PROVE  \E r, d, x : Tree(r, d, x)'
<1>0. /\ mem \in [Words -> Entry] /\ table \in Pages /\ level \in 1..4
      /\ address \in UserPages /\ role[table] = level
  BY DEF TypeOK, Tree, Walking, Pages
<1>1. /\ freelist \in Pages /\ freelist \in ToSet(free)
      /\ \A q : q \in ToSet(free') <=> q # freelist /\ q \in ToSet(free)
  BY AllocFacts DEF Pages
<1>2. PICK f : f = freelist
  OBVIOUS
<1>3. PICK i : i = address[level]
  OBVIOUS
<1>4. PICK t : t = table
  OBVIOUS
<1>5. PICK l : l = level
  OBVIOUS
<1>6. i \in Index /\ (l = 4 => i \in LowerIndex)
  <2>1. address \in [1..4 -> Index] /\ address[4] \in LowerIndex
    BY <1>0, PagingAssumption
  <2> QED BY <2>1, <1>0, <1>3, <1>5
<1>7. f \in Pages /\ t \in Pages /\ l \in 1..4 /\ role[t] = l /\ role[f] = FREE
  BY <1>0, <1>1, <1>2, <1>4, <1>5 DEF Tree, Owners
<1>8. t # f
  BY <1>7 DEF FREE
<1>9. Slot = t + i
  BY <1>3, <1>4 DEF Slot
<1>10. /\ \A s \in Pages, j \in Index :
             s # f /\ ~(s = t /\ j = i) => mem'[s + j] = mem[s + j]
       /\ \A j \in Index : mem'[f + j] = Link(NULL)
       /\ mem'[t + i].present /\ mem'[t + i].page_size = mem[t + i].page_size
       /\ Base(mem'[t + i]) = f
  <2>1. /\ freelist \in Pages /\ t # freelist /\ Enter(t + i, rights)
    BY <1>1, <1>2, <1>8, <1>9
  <2>2. /\ \A s \in Pages, j \in Index :
              s # freelist /\ ~(s = t /\ j = i) => mem'[s + j] = mem[s + j]
        /\ \A j \in Index : mem'[freelist + j] = Link(NULL)
        /\ mem'[t + i].present /\ mem'[t + i].page_size = mem[t + i].page_size
        /\ Base(mem'[t + i]) = freelist
    BY <2>1, <1>6, <1>7, EnterFacts
  <2> QED BY <2>2, <1>2
<1>11. ~mem[t + i].present /\ ~mem[t + i].page_size
  <2>1. CASE l = 4
    <3>1. t = CR3
      BY <2>1, <1>7 DEF Tree, Owners, ROOT
    <3> QED BY <3>1, <2>1, <1>6, <1>9 DEF Tree, SmallPages
  <2>2. CASE l # 4
    <3>1. role[t] \in 1..3
      BY <2>2, <1>7
    <3> QED BY <3>1, <1>6, <1>7, <1>9 DEF Tree, SmallPages
  <2> QED BY <2>1, <2>2
<1>12. Has(mem', t, i) /\ Goes(mem', t, i) = f /\ ~Has(mem, t, i)
  BY <1>10, <1>11 DEF Has, Goes, HasTable
<1>13. \A j \in Index : ~mem'[f + j].present /\ ~mem'[f + j].page_size /\ ~Has(mem', f, j)
  BY <1>10 DEF Link, Has, HasTable
<1>14. \A s \in Pages, j \in Index : s # f /\ ~(s = t /\ j = i) =>
          /\ mem'[s + j] = mem[s + j]
          /\ Has(mem', s, j) <=> Has(mem, s, j)
          /\ Goes(mem', s, j) = Goes(mem, s, j)
  BY <1>10 DEF Has, Goes
<1>15. PICK role2 : role2 = [role EXCEPT ![f] = l - 1]
  OBVIOUS
<1>16. PICK dad2 : dad2 = [dad EXCEPT ![f] = t]
  OBVIOUS
<1>17. PICK idx2 : idx2 = [idx EXCEPT ![f] = i]
  OBVIOUS
<1>18. /\ role \in [Pages -> Roles] /\ dad \in [Pages -> Pages] /\ idx \in [Pages -> Index]
       /\ l - 1 \in Roles /\ l - 1 \in 0..3
  BY <1>7 DEF Tree, GhostTypes, Roles
<1>19. GhostTypes(role2, dad2, idx2)'
  BY <1>6, <1>7, <1>15, <1>16, <1>17, <1>18 DEF GhostTypes
<1>20. /\ role2[f] = l - 1 /\ dad2[f] = t /\ idx2[f] = i
       /\ \A q \in Pages : q # f => role2[q] = role[q] /\ dad2[q] = dad[q] /\ idx2[q] = idx[q]
  BY <1>7, <1>15, <1>16, <1>17, <1>18
<1>21. \A q \in Pages : role[q] \in Int /\ dad[q] \in Pages /\ idx[q] \in Index
  BY IndexTypes
<1>22. Owners(role2)'
  <2>1. \A q \in Pages :
           /\ role[q] = ROOT <=> q = CR3
           /\ q \in Managed <=> role[q] \notin {NONE, ROOT}
           /\ role[q] = FREE <=> q \in ToSet(free)
           /\ role[q] = LOST <=> q \in lost /\ q \in Managed
    BY DEF Tree, Owners
  <2>2. \A q \in Pages : q \in ToSet(free') <=> q # f /\ q \in ToSet(free)
    BY <1>1, <1>2
  <2>3. l - 1 \notin {NONE, ROOT, FREE, LOST} /\ FREE \notin {NONE, ROOT, LOST}
    BY <1>18 DEF NONE, ROOT, FREE, LOST
  <2> QED BY <2>1, <2>2, <2>3, <1>7, <1>20 DEF Owners
<1>23. f \in Managed
  BY <1>7 DEF Tree, Owners, FREE, NONE, ROOT
<1>24. Down(role2, dad2, idx2)'
  <2> SUFFICES ASSUME NEW s \in Pages, role2[s] \in 1..4, NEW j \in Entries(role2, s),
                      Has(mem', s, j),
                      role2[s] > 1 \/ (phase' = "run" /\ Goes(mem', s, j) \in Managed)
               PROVE  Child(role2, dad2, idx2, s, j)'
    BY DEF Down, Entries
  <2>1. j \in Index
    BY Indices DEF Entries
  <2>2. s # f
    BY <2>1, <1>13
  <2>3. CASE s = t /\ j = i
    BY <2>3, <1>7, <1>8, <1>12, <1>20 DEF Child
  <2>4. CASE ~(s = t /\ j = i)
    <3>1. /\ role2[s] = role[s] /\ Has(mem, s, j) /\ Goes(mem', s, j) = Goes(mem, s, j)
          /\ j \in Entries(role, s)
      BY <2>1, <2>2, <2>4, <1>14, <1>20 DEF Entries
    <3>2. Child(role, dad, idx, s, j)
      BY <3>1 DEF Tree, Down
    <3>3. Goes(mem, s, j) \in Pages
      BY <2>1, <1>0, GoesToPage
    <3>4. Goes(mem, s, j) # f
      BY <3>1, <3>2, <1>7 DEF Child, FREE
    <3> QED BY <3>1, <3>2, <3>3, <3>4, <1>20 DEF Child
  <2> QED BY <2>3, <2>4
<1>25. Up(role2, dad2, idx2)'
  <2> SUFFICES ASSUME NEW q \in Pages, role2[q] \in 0..3
               PROVE  /\ Parent(role2, dad2, idx2, q)'
                      /\ role2[q] = 3 => idx2[q] \in LowerIndex
    BY DEF Up
  <2>1. CASE q = f
    <3>1. role2[t] = l
      BY <1>7, <1>8, <1>20
    <3>2. l = (l - 1) + 1 /\ (l - 1 = 3 => l = 4)
      BY <1>7
    <3> QED BY <2>1, <3>1, <3>2, <1>6, <1>12, <1>20 DEF Parent
  <2>2. CASE q # f
    <3>1. role2[q] = role[q] /\ dad2[q] = dad[q] /\ idx2[q] = idx[q]
      BY <2>2, <1>20
    <3>2. Parent(role, dad, idx, q) /\ (role[q] = 3 => idx[q] \in LowerIndex)
      BY <3>1 DEF Tree, Up
    <3>3. dad[q] \in Pages /\ idx[q] \in Index
      BY <1>21
    <3>4. dad[q] # f
      BY <3>1, <3>2, <1>7 DEF Parent, FREE
    <3>5. ~(dad[q] = t /\ idx[q] = i)
      BY <3>2, <1>12 DEF Parent
    <3> QED BY <3>1, <3>2, <3>3, <3>4, <3>5, <1>14, <1>20 DEF Parent
  <2> QED BY <2>1, <2>2
<1>26. \A q \in Pages : role2[q] \notin 11..13
  <2>1. \A q \in Pages : role[q] \notin 11..13
    BY NoneDoomed
  <2> QED BY <2>1, <1>18, <1>20
<1>27. DoomedDown(role2, dad2, idx2)' /\ DoomedUp(role2, dad2, idx2)' /\ Clearing(role2, idx2)'
  BY <1>26 DEF DoomedDown, DoomedUp, Clearing
<1>28. Scanned(role2)'
  <2>1. \A q \in Pages : role2[q] # AHEAD
    BY <1>18, <1>20 DEF Tree, Scanned, AHEAD
  <2> QED BY <2>1 DEF Scanned
<1>29. Untouched(role2)'
  <2> SUFFICES ASSUME NEW s \in Pages, NEW j \in Index,
                      role2[s] = NONE \/ (role2[s] = ROOT /\ j \notin LowerIndex)
               PROVE  mem'[s + j] = BootMem[s + j]
    BY DEF Untouched
  <2>1. s # f /\ role2[s] = role[s]
    BY <1>18, <1>20 DEF NONE, ROOT
  <2>2. ~(s = t /\ j = i)
    BY <2>1, <1>6, <1>7 DEF NONE, ROOT
  <2> QED BY <2>1, <2>2, <1>14 DEF Tree, Untouched
<1>30. SmallPages(role2)'
  <2>1. \A j \in LowerIndex : ~mem'[CR3 + j].page_size
    <3> SUFFICES ASSUME NEW j \in LowerIndex PROVE ~mem'[CR3 + j].page_size
      OBVIOUS
    <3>1. CR3 # f /\ CR3 \in Pages /\ j \in Index
      BY RootPage, Indices, <1>7 DEF Tree, Owners, ROOT, FREE
    <3>2. ~mem[CR3 + j].page_size
      BY DEF Tree, SmallPages
    <3> QED BY <3>1, <3>2, <1>10, <1>11
  <2>2. ASSUME NEW s \in Pages, NEW j \in Index, role2[s] \in 1..3
        PROVE  /\ ~mem'[s + j].page_size
               /\ role2[s] = 1 /\ mem'[s + j].present => Goes(mem', s, j) \in Managed
    <3>1. CASE s = f
      BY <3>1, <1>13
    <3>2. CASE s = t /\ j = i
      BY <3>2, <1>10, <1>11, <1>12, <1>23
    <3>3. CASE s # f /\ ~(s = t /\ j = i)
      BY <3>3, <2>2, <1>14, <1>20 DEF Tree, SmallPages
    <3> QED BY <3>1, <3>2, <3>3
  <2> QED BY <2>1, <2>2 DEF SmallPages
<1>31. Walking(role2)'
  BY <1>2, <1>5, <1>20 DEF Tree, Walking
<1>32. Tree(role2, dad2, idx2)'
  BY <1>19, <1>22, <1>24, <1>25, <1>27, <1>28, <1>29, <1>30, <1>31 DEF Tree
<1> QED BY <1>32
-----------------------------------------------------------------------------
(***************************************************************************)
(* The sets of tables, by their roles; unmap_lower_half cuts a subtree off.*)
(***************************************************************************)

\* What the entries of a set of tables lead to.
LEMMA BelowIs ==
  ASSUME NEW m \in [Words -> Entry], NEW tables \in SUBSET Pages, NEW q
  PROVE  q \in Below(m, tables) <=> \E t \in tables, i \in Index : Has(m, t, i) /\ Goes(m, t, i) = q
<1>1. ASSUME q \in Below(m, tables)
      PROVE  \E t \in tables, i \in Index : Has(m, t, i) /\ Goes(m, t, i) = q
  <2>1. PICK w \in {t + i : t \in tables, i \in Index} \cap {w \in Words : HasTable(m[w])} :
           q = Base(m[w])
    BY <1>1 DEF Below
  <2>2. PICK t \in tables, i \in Index : w = t + i
    BY <2>1
  <2> QED BY <2>1, <2>2 DEF Has, Goes
<1>2. ASSUME NEW t \in tables, NEW i \in Index, Has(m, t, i), Goes(m, t, i) = q
      PROVE  q \in Below(m, tables)
  <2>1. t + i \in Words
    BY EntryWord
  <2>2. t + i \in {s + j : s \in tables, j \in Index} \cap {w \in Words : HasTable(m[w])}
    BY <2>1, <1>2 DEF Has
  <2> QED BY <2>2, <1>2 DEF Below, Goes
<1> QED BY <1>1, <1>2

\* The level 3 tables, by the entries of the root.
LEMMA L3TablesAre ==
  ASSUME NEW m \in [Words -> Entry], NEW indices \in SUBSET Index, NEW q
  PROVE  q \in L3Tables(m, indices) <=> \E i \in indices : Has(m, CR3, i) /\ Goes(m, CR3, i) = q
BY DEF L3Tables, Has, Goes

\* All of them are sets of pages.
LEMMA TablesArePages ==
  ASSUME NEW m \in [Words -> Entry], NEW indices \in SUBSET Index
  PROVE  /\ L3Tables(m, indices) \subseteq Pages /\ L2Tables(m, indices) \subseteq Pages
         /\ L1Tables(m, indices) \subseteq Pages /\ MappedPages(m, indices) \subseteq Pages
<1>1. L3Tables(m, indices) \subseteq Pages
  BY L3TablesAre, GoesToPage, RootPage
<1>2. \A tables \in SUBSET Pages : Below(m, tables) \subseteq Pages
  BY BelowIs, GoesToPage
<1>3. L2Tables(m, indices) \subseteq Pages
  BY <1>1, <1>2 DEF L2Tables
<1>4. L1Tables(m, indices) \subseteq Pages
  BY <1>2, <1>3 DEF L1Tables
<1>5. MappedPages(m, indices) \subseteq Pages
  BY <1>2, <1>4 DEF MappedPages
<1> QED BY <1>1, <1>3, <1>4, <1>5

\* The entry of the root that a page of the lower half is below.
Top(role, dad, idx, q) ==
    IF role[q] = 3 THEN idx[q]
    ELSE IF role[q] = 2 THEN idx[dad[q]]
    ELSE IF role[q] = 1 THEN idx[dad[dad[q]]]
    ELSE idx[dad[dad[dad[q]]]]

\* A page is below the same entry as its parent.
LEMMA TopOfParent ==
  ASSUME NEW role, NEW dad, NEW idx, TypeOK, Tree(role, dad, idx), NEW q \in Pages
  PROVE  /\ role[q] = 3 => Top(role, dad, idx, q) = idx[q] /\ dad[q] = CR3
         /\ role[q] \in 0..2 => Top(role, dad, idx, q) = Top(role, dad, idx, dad[q])
         /\ role[q] \in 0..3 => role[dad[q]] = role[q] + 1 /\ dad[q] \in Pages
<1>1. role[q] \in 0..3 => role[dad[q]] = role[q] + 1 /\ dad[q] \in Pages
  BY IndexTypes DEF Tree, Up, Parent
<1>2. role[q] = 3 => dad[q] = CR3
  BY <1>1 DEF Tree, Owners, ROOT
<1>3. role[q] = 2 => Top(role, dad, idx, q) = Top(role, dad, idx, dad[q])
  BY <1>1 DEF Top
<1>4. role[q] = 1 => Top(role, dad, idx, q) = Top(role, dad, idx, dad[q])
  BY <1>1 DEF Top
<1>5. role[q] = 0 => Top(role, dad, idx, q) = Top(role, dad, idx, dad[q])
  BY <1>1 DEF Top
<1>6. role[q] = 3 => Top(role, dad, idx, q) = idx[q]
  BY DEF Top
<1> QED BY <1>1, <1>2, <1>3, <1>4, <1>5, <1>6

\* One level of the tree, by roles.
LEMMA BelowLevel ==
  ASSUME NEW role, NEW dad, NEW idx, TypeOK, Tree(role, dad, idx),
         NEW n \in 1..3, NEW indices, NEW tables \in SUBSET Pages,
         \A t \in Pages : t \in tables <=> role[t] = n /\ Top(role, dad, idx, t) \in indices
  PROVE  \A q \in Pages : n > 1 \/ (phase = "run" /\ q \in Managed) =>
            (q \in Below(mem, tables) <=>
                role[q] = n - 1 /\ Top(role, dad, idx, q) \in indices)
<1> SUFFICES ASSUME NEW q \in Pages, n > 1 \/ (phase = "run" /\ q \in Managed)
             PROVE  q \in Below(mem, tables) <=>
                       role[q] = n - 1 /\ Top(role, dad, idx, q) \in indices
  OBVIOUS
<1>0. mem \in [Words -> Entry]
  BY DEF TypeOK
<1>1. q \in Below(mem, tables) <=>
         \E t \in tables, i \in Index : Has(mem, t, i) /\ Goes(mem, t, i) = q
  BY <1>0, BelowIs
<1>2. ASSUME NEW t \in tables, NEW i \in Index, Has(mem, t, i), Goes(mem, t, i) = q
      PROVE  role[q] = n - 1 /\ Top(role, dad, idx, q) \in indices
  <2>1. t \in Pages /\ role[t] = n /\ Top(role, dad, idx, t) \in indices
    BY <1>2
  <2>2. i \in Entries(role, t) /\ role[t] \in 1..4
    BY <2>1 DEF Entries, ROOT
  <2>3. Child(role, dad, idx, t, i)
    BY <2>1, <2>2, <1>2 DEF Tree, Down
  <2>4. role[q] = n - 1 /\ dad[q] = t
    BY <2>1, <2>3, <1>2 DEF Child
  <2>5. role[q] \in 0..2
    BY <2>4
  <2> QED BY <2>1, <2>4, <2>5, TopOfParent
<1>3. ASSUME role[q] = n - 1, Top(role, dad, idx, q) \in indices
      PROVE  \E t \in tables, i \in Index : Has(mem, t, i) /\ Goes(mem, t, i) = q
  <2>1. role[q] \in 0..2 /\ role[q] \in 0..3
    BY <1>3
  <2>2. /\ role[dad[q]] = n /\ dad[q] \in Pages /\ Top(role, dad, idx, dad[q]) \in indices
        /\ idx[q] \in Index
    BY <2>1, <1>3, TopOfParent, IndexTypes
  <2>3. Parent(role, dad, idx, q)
    BY <2>1 DEF Tree, Up
  <2> QED BY <2>2, <2>3 DEF Parent
<1> QED BY <1>1, <1>2, <1>3

\* The sets of tables of the lower half are those of the roles.
LEMMA TablesByRole ==
  ASSUME NEW role, NEW dad, NEW idx, TypeOK, Tree(role, dad, idx),
         NEW indices \in SUBSET LowerIndex
  PROVE  \A q \in Pages :
            /\ q \in L3Tables(mem, indices) <=> role[q] = 3 /\ Top(role, dad, idx, q) \in indices
            /\ q \in L2Tables(mem, indices) <=> role[q] = 2 /\ Top(role, dad, idx, q) \in indices
            /\ q \in L1Tables(mem, indices) <=> role[q] = 1 /\ Top(role, dad, idx, q) \in indices
            /\ q \in Managed =>
                  (q \in GivenPages(indices) <=>
                      role[q] = 0 /\ Top(role, dad, idx, q) \in indices)
<1>0. mem \in [Words -> Entry] /\ indices \in SUBSET Index
  BY Indices DEF TypeOK
<1>1. ASSUME NEW q \in Pages
      PROVE  q \in L3Tables(mem, indices) <=> role[q] = 3 /\ Top(role, dad, idx, q) \in indices
  <2>1. ASSUME NEW i \in indices, Has(mem, CR3, i), Goes(mem, CR3, i) = q
        PROVE  role[q] = 3 /\ Top(role, dad, idx, q) \in indices
    <3>1. CR3 \in Pages /\ role[CR3] = 4 /\ i \in Entries(role, CR3)
      BY RootPage DEF Tree, Owners, ROOT, Entries
    <3>2. Child(role, dad, idx, CR3, i)
      BY <3>1, <2>1 DEF Tree, Down
    <3>3. role[q] = 4 - 1 /\ idx[q] = i
      BY <3>1, <3>2, <2>1 DEF Child
    <3> QED BY <3>3, TopOfParent
  <2>2. ASSUME role[q] = 3, Top(role, dad, idx, q) \in indices
        PROVE  \E i \in indices : Has(mem, CR3, i) /\ Goes(mem, CR3, i) = q
    <3>1. Parent(role, dad, idx, q)
      BY <2>2 DEF Tree, Up
    <3> QED BY <3>1, <2>2, TopOfParent DEF Parent
  <2> QED BY <2>1, <2>2, <1>0, L3TablesAre
<1>2. \A q \in Pages :
         q \in L2Tables(mem, indices) <=> role[q] = 2 /\ Top(role, dad, idx, q) \in indices
  <2>1. L3Tables(mem, indices) \in SUBSET Pages /\ 3 \in 1..3 /\ 3 > 1 /\ 3 - 1 = 2
    BY <1>0, TablesArePages
  <2>2. \A q \in Pages :
           q \in Below(mem, L3Tables(mem, indices)) <=>
              role[q] = 3 - 1 /\ Top(role, dad, idx, q) \in indices
    BY <2>1, <1>1, BelowLevel
  <2> QED BY <2>1, <2>2 DEF L2Tables
<1>3. \A q \in Pages :
         q \in L1Tables(mem, indices) <=> role[q] = 1 /\ Top(role, dad, idx, q) \in indices
  <2>1. L2Tables(mem, indices) \in SUBSET Pages /\ 2 \in 1..3 /\ 2 > 1 /\ 2 - 1 = 1
    BY <1>0, TablesArePages
  <2>2. \A q \in Pages :
           q \in Below(mem, L2Tables(mem, indices)) <=>
              role[q] = 2 - 1 /\ Top(role, dad, idx, q) \in indices
    BY <2>1, <1>2, BelowLevel
  <2> QED BY <2>1, <2>2 DEF L1Tables
<1>4. \A q \in Pages : q \in Managed =>
         (q \in GivenPages(indices) <=> role[q] = 0 /\ Top(role, dad, idx, q) \in indices)
  <2>0. CASE phase # "run"
    <3>1. \A q \in Pages : role[q] # 0
      BY <2>0 DEF TypeOK, Tree, Walking, MAPPED
    <3> QED BY <2>0, <3>1 DEF GivenPages
  <2> SUFFICES ASSUME phase = "run"
               PROVE  \A q \in Pages : q \in Managed =>
                         (q \in MappedPages(mem, indices) <=>
                             role[q] = 0 /\ Top(role, dad, idx, q) \in indices)
    BY <2>0 DEF GivenPages
  <2>1. L1Tables(mem, indices) \in SUBSET Pages /\ 1 \in 1..3 /\ 1 - 1 = 0
    BY <1>0, TablesArePages
  <2>2. \A q \in Pages : q \in Managed =>
           (q \in Below(mem, L1Tables(mem, indices)) <=>
              role[q] = 1 - 1 /\ Top(role, dad, idx, q) \in indices)
    BY <2>1, <1>3, BelowLevel
  <2> QED BY <2>1, <2>2 DEF MappedPages
<1> QED BY <1>1, <1>2, <1>3, <1>4
\* Clearing a present bit changes one entry, and not where it leads.
LEMMA ClearFacts ==
  ASSUME TypeOK, NEW i \in Index, mem' = [mem EXCEPT ![CR3 + i].present = FALSE]
  PROVE  /\ mem' \in [Words -> Entry]
         /\ \A s \in Pages, j \in Index : ~(s = CR3 /\ j = i) => mem'[s + j] = mem[s + j]
         /\ ~mem'[CR3 + i].present /\ Base(mem'[CR3 + i]) = Base(mem[CR3 + i])
         /\ mem'[CR3 + i].page_size = mem[CR3 + i].page_size
<1>0. mem \in [Words -> Entry] /\ CR3 \in Pages
  BY RootPage DEF TypeOK
<1> DEFINE w == CR3 + i
           e == [mem[w] EXCEPT !.present = FALSE]
<1>1. w \in Words
  BY <1>0, EntryWord
<1>2. mem[w] \in Entry
  BY <1>0, <1>1
<1>3. e \in Entry /\ ~e.present /\ e.address = mem[w].address /\ e.page_size = mem[w].page_size
  BY <1>2 DEF Entry
<1>4. mem' = [mem EXCEPT ![w] = e]
  OBVIOUS
<1> HIDE DEF e
<1>5. mem' \in [Words -> Entry] /\ mem'[w] = e /\ \A v \in Words : v # w => mem'[v] = mem[v]
  BY <1>0, <1>1, <1>3, <1>4
<1>6. ASSUME NEW s \in Pages, NEW j \in Index, ~(s = CR3 /\ j = i)
      PROVE  s + j # w /\ s + j \in Words
  BY <1>0, <1>6, WordUnique, EntryWord
<1> QED BY <1>3, <1>5, <1>6 DEF Base

\* The subtree below a level 4 entry is cut off, and its mapped pages are lost.
LEMMA L4CutTree ==
  ASSUME NEW role, NEW dad, NEW idx, TypeOK, Tree(role, dad, idx), L4Step, L4Entry.present
  PROVE  \E r, d, x : Tree(r, d, x)'
<1>1. PICK n : n = l4_index
  OBVIOUS
<1>2. /\ pc = "l4" /\ pc' = "l3" /\ l4_index' = n /\ l3_index' = 0 /\ n \in LowerIndex
      /\ mem' = [mem EXCEPT ![CR3 + n].present = FALSE] /\ free' = free
      /\ lost' = lost \cup GivenPages({n}) /\ mem[CR3 + n].present /\ phase' = phase
  BY <1>1 DEF L4Step, L4Entry, scan
<1>3. /\ n \in Index /\ CR3 \in Pages /\ mem \in [Words -> Entry] /\ {n} \in SUBSET LowerIndex
  BY <1>2, Indices, RootPage DEF TypeOK
<1>4. /\ \A s \in Pages, j \in Index : ~(s = CR3 /\ j = n) => mem'[s + j] = mem[s + j]
      /\ ~mem'[CR3 + n].present /\ Base(mem'[CR3 + n]) = Base(mem[CR3 + n])
      /\ mem'[CR3 + n].page_size = mem[CR3 + n].page_size
  BY <1>2, <1>3, ClearFacts
<1>5. /\ \A s \in Pages, j \in Index : ~(s = CR3 /\ j = n) =>
            /\ mem'[s + j] = mem[s + j]
            /\ Has(mem', s, j) <=> Has(mem, s, j)
            /\ Goes(mem', s, j) = Goes(mem, s, j)
      /\ ~Has(mem', CR3, n) /\ Goes(mem', CR3, n) = Goes(mem, CR3, n)
  BY <1>4 DEF Has, Goes, HasTable
<1>6. PICK t3 : t3 = Goes(mem, CR3, n)
  OBVIOUS
<1>7. t3 \in Pages /\ Has(mem, CR3, n) /\ role[CR3] = 4 /\ \A s \in Pages : role[s] = 4 => s = CR3
  BY <1>2, <1>3, <1>6, GoesToPage DEF Tree, SmallPages, Has, HasTable, Owners, ROOT
<1>8. role[t3] = 3 /\ idx[t3] = n
  <2>1. n \in Entries(role, CR3)
    BY <1>2, <1>7 DEF Entries, ROOT
  <2>2. Child(role, dad, idx, CR3, n)
    BY <2>1, <1>3, <1>7 DEF Tree, Down
  <2>3. role[t3] = 4 - 1 /\ idx[t3] = n
    BY <2>2, <1>6, <1>7 DEF Child
  <2> QED BY <2>3
<1>9. \A q \in Pages :
         /\ role[q] \in Roles /\ role[q] \in Int /\ dad[q] \in Pages /\ idx[q] \in Index /\ idx[q] >= 0
         /\ role[q] \notin 11..13
  <2>1. \A q \in Pages : role[q] \in Roles
    BY DEF Tree, GhostTypes
  <2>2. \A q \in Pages : role[q] \in Int /\ dad[q] \in Pages /\ idx[q] \in Index /\ idx[q] \in Nat
    BY IndexTypes
  <2> QED BY <2>1, <2>2, <1>2, NoneDoomed
<1>10. PICK top : top = [q \in Pages |-> Top(role, dad, idx, q)]
  OBVIOUS
<1>11. \A q \in Pages :
          /\ top[q] = Top(role, dad, idx, q)
          /\ role[q] = 3 => top[q] = idx[q] /\ dad[q] = CR3
          /\ role[q] \in 0..2 => top[q] = top[dad[q]]
          /\ role[q] \in 0..3 => role[dad[q]] = role[q] + 1
  BY <1>9, <1>10, TopOfParent
<1> DEFINE Cut(q) == role[q] \in 0..3 /\ top[q] = n
<1>12. PICK role2 : role2 = [q \in Pages |-> IF Cut(q) THEN (IF role[q] = 0 THEN LOST ELSE role[q] + 10)
                                            ELSE role[q]]
  OBVIOUS
<1>13. \A q \in Pages :
          /\ ~Cut(q) => role2[q] = role[q]
          /\ Cut(q) /\ role[q] = 0 => role2[q] = LOST
          /\ Cut(q) /\ role[q] # 0 => role2[q] = role[q] + 10
          /\ Cut(q) <=> role[q] \in 0..3 /\ top[q] = n
  BY <1>12
<1>14. role2 \in [Pages -> Roles]
  <2>1. \A q \in Pages : (IF Cut(q) THEN (IF role[q] = 0 THEN LOST ELSE role[q] + 10) ELSE role[q]) \in Roles
    BY <1>9 DEF Roles, LOST
  <2> HIDE DEF Cut
  <2> QED BY <2>1, <1>12
<1> HIDE DEF Cut
<1>15. \A q \in Pages :
          /\ role2[q] \in 0..4 => role2[q] = role[q] /\ ~Cut(q)
          /\ role2[q] \in 11..13 => role2[q] = role[q] + 10 /\ Cut(q) /\ role[q] \in 1..3
          /\ role2[q] \in {NONE, ROOT, FREE, AHEAD} => role2[q] = role[q]
          /\ role[q] \in {NONE, ROOT, FREE, AHEAD, LOST} => role2[q] = role[q]
          /\ role2[q] = LOST <=> role[q] = LOST \/ (Cut(q) /\ role[q] = 0)
  BY <1>9, <1>13 DEF LOST, NONE, ROOT, FREE, AHEAD
<1>16. GhostTypes(role2, dad, idx)'
  BY <1>14 DEF Tree, GhostTypes
<1>17. Owners(role2)'
  <2>1. \A q \in Pages :
           /\ role[q] = ROOT <=> q = CR3
           /\ q \in Managed <=> role[q] \notin {NONE, ROOT}
           /\ role[q] = FREE <=> q \in ToSet(free)
           /\ role[q] = LOST <=> q \in lost /\ q \in Managed
    BY DEF Tree, Owners
  <2>2. \A q \in Pages : q \in Managed =>
           (q \in GivenPages({n}) <=> role[q] = 0 /\ top[q] \in {n})
    BY <1>3, <1>11, TablesByRole
  <2>3. \A q \in Pages : role[q] = 0 => q \in Managed
    BY <2>1 DEF NONE, ROOT
  <2>4. \A q \in Pages : role2[q] = LOST <=> q \in lost' /\ q \in Managed
    BY <2>1, <2>2, <2>3, <1>2, <1>13, <1>15
  <2>5. \A q \in Pages : role2[q] = ROOT <=> role[q] = ROOT
    BY <1>15
  <2>6. \A q \in Pages : role2[q] \in {NONE, ROOT} <=> role[q] \in {NONE, ROOT}
    BY <1>15
  <2>7. \A q \in Pages : role2[q] = FREE <=> role[q] = FREE
    BY <1>15
  <2> QED BY <2>1, <2>4, <2>5, <2>6, <2>7, <1>2 DEF Owners
<1>18. Down(role2, dad, idx)'
  <2> SUFFICES ASSUME NEW s \in Pages, role2[s] \in 1..4, NEW j \in Entries(role2, s),
                      Has(mem', s, j),
                      role2[s] > 1 \/ (phase' = "run" /\ Goes(mem', s, j) \in Managed)
               PROVE  Child(role2, dad, idx, s, j)'
    BY DEF Down, Entries
  <2>1. j \in Index /\ role2[s] = role[s] /\ ~Cut(s)
    BY <1>15, Indices DEF Entries
  <2>2. ~(s = CR3 /\ j = n)
    BY <1>5
  <2>3. Has(mem, s, j) /\ Goes(mem', s, j) = Goes(mem, s, j) /\ j \in Entries(role, s)
    BY <2>1, <2>2, <1>5 DEF Entries
  <2>4. Child(role, dad, idx, s, j)
    BY <2>1, <2>3, <1>2 DEF Tree, Down
  <2>5. PICK q : q = Goes(mem, s, j)
    OBVIOUS
  <2>6. q \in Pages /\ role[q] = role[s] - 1 /\ dad[q] = s /\ idx[q] = j
    BY <2>1, <2>4, <2>5, <1>3, GoesToPage DEF Child
  <2>7. ~Cut(q)
    <3>1. CASE role[q] = 3
      BY <3>1, <2>2, <2>6, <1>11, <1>13
    <3>2. CASE role[q] \in 0..2
      <4>1. top[q] = top[s] /\ role[s] \in 1..3
        BY <3>2, <2>1, <2>6, <1>11
      <4>2. role[s] \in 0..3
        BY <4>1
      <4> QED BY <4>1, <4>2, <2>1, <2>6, <1>13
    <3> QED BY <3>1, <3>2, <2>1, <2>6
  <2> QED BY <2>1, <2>3, <2>5, <2>6, <2>7, <1>13 DEF Child
<1>19. Up(role2, dad, idx)'
  <2> SUFFICES ASSUME NEW q \in Pages, role2[q] \in 0..3
               PROVE  /\ Parent(role2, dad, idx, q)'
                      /\ role2[q] = 3 => idx[q] \in LowerIndex
    BY DEF Up
  <2>1. role2[q] = role[q] /\ ~Cut(q) /\ role[q] \in 0..3 /\ top[q] # n
    BY <1>13, <1>15
  <2>2. Parent(role, dad, idx, q) /\ (role[q] = 3 => idx[q] \in LowerIndex)
    BY <2>1 DEF Tree, Up
  <2>3. dad[q] \in Pages /\ idx[q] \in Index /\ role[dad[q]] = role[q] + 1
    BY <2>1, <1>9, <1>11
  <2>4. ~(dad[q] = CR3 /\ idx[q] = n)
    <3> SUFFICES ASSUME dad[q] = CR3, idx[q] = n PROVE FALSE
      OBVIOUS
    <3>1. role[q] = 3
      BY <2>1, <2>3, <1>7
    <3> QED BY <3>1, <2>1, <1>11
  <2>5. role2[dad[q]] = role[dad[q]]
    <3>1. CASE role[q] = 3
      BY <3>1, <2>3, <1>13
    <3>2. CASE role[q] \in 0..2
      BY <3>2, <2>1, <2>3, <1>11, <1>13
    <3> QED BY <3>1, <3>2, <2>1
  <2> QED BY <2>1, <2>2, <2>3, <2>4, <2>5, <1>5 DEF Parent
<1>20. \A s \in Pages, j \in Index : role[s] \in 1..3 =>
          /\ Has(mem', s, j) <=> Has(mem, s, j)
          /\ Goes(mem', s, j) = Goes(mem, s, j)
  BY <1>5, <1>7
<1>21. DoomedDown(role2, dad, idx)'
  <2> SUFFICES ASSUME NEW s \in Pages, NEW j \in Index, Has(mem', s, j), role2[s] \in 12..13
               PROVE  Child(role2, dad, idx, s, j)'
    BY DEF DoomedDown
  <2>1. role2[s] = role[s] + 10 /\ Cut(s) /\ role[s] \in 2..3
    BY <1>9, <1>15
  <2>2. Has(mem, s, j) /\ Goes(mem', s, j) = Goes(mem, s, j) /\ j \in Entries(role, s)
    BY <2>1, <1>20 DEF Entries, ROOT
  <2>3. Child(role, dad, idx, s, j)
    BY <2>1, <2>2 DEF Tree, Down
  <2>4. PICK q : q = Goes(mem, s, j)
    OBVIOUS
  <2>5. q \in Pages /\ role[q] = role[s] - 1 /\ dad[q] = s /\ idx[q] = j
    BY <2>3, <2>4, <1>3, GoesToPage DEF Child
  <2>6. role[q] \in 1..2 /\ top[q] = top[s]
    BY <2>1, <2>5, <1>11
  <2>7. role2[q] = role[q] + 10
    BY <2>1, <2>5, <2>6, <1>13
  <2>8. role2[q] = role2[s] - 1
    BY <2>1, <2>5, <2>6, <2>7
  <2> QED BY <2>2, <2>4, <2>5, <2>8 DEF Child
<1>22. DoomedUp(role2, dad, idx)'
  <2> SUFFICES ASSUME NEW q \in Pages, role2[q] \in 11..12
               PROVE  Parent(role2, dad, idx, q)' /\ idx[q] >= 0
    BY <1>2 DEF DoomedUp
  <2>1. role2[q] = role[q] + 10 /\ Cut(q) /\ role[q] \in 1..2
    BY <1>9, <1>15
  <2>2. Parent(role, dad, idx, q) /\ idx[q] \in Index /\ idx[q] >= 0
    BY <2>1, <1>9 DEF Tree, Up
  <2>3. dad[q] \in Pages /\ role[dad[q]] = role[q] + 1 /\ top[dad[q]] = n
    BY <2>1, <1>9, <1>11, <1>13
  <2>4. role[dad[q]] \in 2..3
    BY <2>1, <2>3
  <2>5. role2[dad[q]] = role[dad[q]] + 10
    BY <2>3, <2>4, <1>13
  <2>6. role2[dad[q]] = role2[q] + 1
    BY <2>1, <2>3, <2>4, <2>5
  <2> QED BY <2>2, <2>3, <2>4, <2>6, <1>20 DEF Parent
<1>23. Clearing(role2, idx)'
  <2>1. Cur3' = t3 /\ ~L4Entry'.present
    BY <1>2, <1>4, <1>5, <1>6 DEF Cur3, L4Entry
  <2>2. ASSUME NEW q \in Pages
        PROVE  role2[q] = 13 <=> q = t3
    <3>1. ASSUME role2[q] = 13
          PROVE  q = t3
      <4>1. role[q] = 3 /\ Cut(q)
        BY <3>1, <1>9, <1>15
      <4>2. idx[q] = n /\ dad[q] = CR3
        BY <4>1, <1>11, <1>13
      <4>3. Parent(role, dad, idx, q)
        BY <4>1 DEF Tree, Up
      <4> QED BY <4>2, <4>3, <1>6 DEF Parent
    <3>2. role2[t3] = 13
      <4>1. Cut(t3)
        BY <1>7, <1>8, <1>11, <1>13
      <4>2. role2[t3] = 3 + 10
        BY <4>1, <1>7, <1>8, <1>13
      <4> QED BY <4>2
    <3> QED BY <3>1, <3>2
  <2>3. \A q \in Pages : role2[q] = 3 => idx[q] >= n
    BY <1>1, <1>2, <1>15 DEF Tree, Clearing
  <2> QED BY <2>1, <2>2, <2>3, <1>2 DEF Clearing
<1>24. Scanned(role2)'
  <2>1. \A q \in Pages : role2[q] # AHEAD
    BY <1>2, <1>15 DEF Tree, Scanned
  <2> QED BY <2>1, <1>2 DEF Scanned
<1>25. Untouched(role2)'
  <2> SUFFICES ASSUME NEW s \in Pages, NEW j \in Index,
                      role2[s] = NONE \/ (role2[s] = ROOT /\ j \notin LowerIndex)
               PROVE  mem'[s + j] = BootMem[s + j]
    BY DEF Untouched
  <2>1. role2[s] = role[s]
    BY <1>15
  <2>2. ~(s = CR3 /\ j = n)
    BY <2>1, <1>2, <1>7 DEF NONE
  <2> QED BY <2>1, <2>2, <1>5 DEF Tree, Untouched
<1>26. SmallPages(role2)'
  <2>1. \A j \in LowerIndex : ~mem'[CR3 + j].page_size
    <3> SUFFICES ASSUME NEW j \in LowerIndex PROVE ~mem'[CR3 + j].page_size
      OBVIOUS
    <3>1. ~mem[CR3 + j].page_size /\ j \in Index
      BY Indices DEF Tree, SmallPages
    <3> QED BY <3>1, <1>3, <1>4
  <2> QED BY <2>1, <1>2 DEF SmallPages
<1>27. Walking(role2)'
  <2>1. \A q \in Pages : role2[q] = MAPPED => role[q] = MAPPED
    BY <1>15 DEF MAPPED
  <2> QED BY <2>1, <1>2 DEF Tree, Walking
<1>28. Tree(role2, dad, idx)'
  BY <1>16, <1>17, <1>18, <1>19, <1>21, <1>22, <1>23, <1>24, <1>25, <1>26, <1>27 DEF Tree
<1> QED BY <1>28
-----------------------------------------------------------------------------
(***************************************************************************)
(* The boot loader's tables have roles.                                    *)
(***************************************************************************)

\* At first the usable pages are ahead of mem_init.
LEMMA AllAhead ==
  ASSUME Init, NEW p \in Pages
  PROVE  IsAhead(p) <=> p \in UsablePages
<1>0. /\ current = 1 /\ curr = IF memmap = <<>> THEN 0 ELSE memmap[1].base
      /\ p \in Nat /\ Len(memmap) \in Nat /\ DOMAIN memmap = 1..Len(memmap)
  BY PageNumber, MapEntries DEF Init
<1>1. ASSUME NEW k \in DOMAIN memmap, memmap[k].type = USABLE,
             memmap[k].base <= p, p < EndOf(memmap[k])
      PROVE  p \in UsablePages
  <2>1. memmap[k].base \in Frames /\ memmap[k] \in ToSet(memmap) /\ memmap[k].base \in Nat
    BY <1>1, BootLoaderAssumption, MapEntries DEF ToSet
  <2>2. NULL \notin Frames /\ memmap[k].base # 0
    <3>1. PAGE \in Nat /\ PAGE > 0
      BY PagingAssumption
    <3>2. NULL \notin Frames
      BY <3>1 DEF Frames, NULL
    <3> QED BY <3>2, <2>1 DEF NULL
  <2>3. p # NULL
    BY <2>1, <2>2, <1>0, <1>1 DEF NULL
  <2>4. p \in Frames /\ p >= memmap[k].base
    BY <2>1, <2>3, <1>0, <1>1 DEF Pages
  <2> QED BY <2>1, <2>4, <1>1 DEF UsablePages
<1>2. ASSUME p \in UsablePages
      PROVE  IsAhead(p)
  <2>1. PICK e \in ToSet(memmap) : e.type = USABLE /\ p >= e.base /\ p < EndOf(e)
    BY <1>2 DEF UsablePages
  <2>2. PICK k \in DOMAIN memmap : memmap[k] = e
    BY <2>1 DEF ToSet
  <2>3. memmap[k].base \in Nat /\ k \in Nat /\ k >= 1
    BY <1>0, MapEntries
  <2>4. memmap[k].base <= p
    BY <2>1, <2>2, <2>3, <1>0
  <2>5. k = current => curr <= p
    <3>1. memmap # <<>>
      BY <1>0
    <3> QED BY <3>1, <2>4, <1>0
  <2> QED BY <2>1, <2>2, <2>3, <2>4, <2>5, <1>0 DEF IsAhead
<1> QED BY <1>1, <1>2 DEF IsAhead

\* The boot loader's tables are a tree.
LEMMA InitTree ==
  ASSUME Init
  PROVE  \E role, dad, idx : Tree(role, dad, idx)
<1> DEFINE T3 == L3Tables(BootMem, LowerIndex)
           T2 == L2Tables(BootMem, LowerIndex)
           T1 == L1Tables(BootMem, LowerIndex)
           Leads(t, i, q) == /\ t \in {CR3} \cup T3 \cup T2 /\ i \in Index
                             /\ t = CR3 => i \in LowerIndex
                             /\ Has(BootMem, t, i) /\ Goes(BootMem, t, i) = q
<1>0. /\ BootMem \in [Words -> Entry] /\ CR3 \in Pages /\ LowerIndex \in SUBSET Index
      /\ mem = BootMem /\ pc = "scan" /\ free = <<>> /\ lost = {} /\ phase = "boot"
  BY PagingAssumption, RootPage, Indices DEF Init
<1>1. T3 \in SUBSET Pages /\ T2 \in SUBSET Pages /\ T1 \in SUBSET Pages
  BY <1>0, TablesArePages
<1>2. \A q : q \in T3 <=> \E i \in LowerIndex : Has(BootMem, CR3, i) /\ Goes(BootMem, CR3, i) = q
  BY <1>0, L3TablesAre
<1>3. \A q : q \in T2 <=> \E t \in T3, i \in Index : Has(BootMem, t, i) /\ Goes(BootMem, t, i) = q
  BY <1>0, <1>1, BelowIs DEF L2Tables
<1>4. \A q : q \in T1 <=> \E t \in T2, i \in Index : Has(BootMem, t, i) /\ Goes(BootMem, t, i) = q
  BY <1>0, <1>1, BelowIs DEF L1Tables
<1>5. CR3 \notin T3 \cup T2 \cup T1 /\ (T3 \cup T2 \cup T1) \cap UsablePages = {}
  BY BootLoaderAssumption DEF LowerTables
<1>6. ASSUME NEW t, NEW i, NEW s, NEW j, NEW q, Leads(t, i, q), Leads(s, j, q)
      PROVE  t = s /\ i = j
  <2>1. t \in Pages /\ s \in Pages /\ i \in Index /\ j \in Index
    BY <1>0, <1>1, <1>6
  <2>2. t + i \in TableLinks(BootMem) /\ s + j \in TableLinks(BootMem)
    BY <1>6 DEF TableLinks
  <2>3. HasTable(BootMem[t + i]) /\ HasTable(BootMem[s + j]) /\ Base(BootMem[t + i]) = Base(BootMem[s + j])
    BY <1>6 DEF Has, Goes
  <2>4. t + i = s + j
    BY <2>2, <2>3, BootLoaderAssumption
  <2> QED BY <2>1, <2>4, WordUnique
<1>7. \A q \in T3 : \E i \in Index : Leads(CR3, i, q)
  BY <1>0, <1>2
<1>8. \A q \in T2 : \E t \in T3, i \in Index : Leads(t, i, q)
  BY <1>3, <1>5
<1>9. \A q \in T1 : \E t \in T2, i \in Index : Leads(t, i, q)
  BY <1>4, <1>5
<1>10. \A i \in LowerIndex : Has(BootMem, CR3, i) => Leads(CR3, i, Goes(BootMem, CR3, i))
  BY <1>0
<1>11. \A t \in T3 \cup T2, i \in Index : Has(BootMem, t, i) => Leads(t, i, Goes(BootMem, t, i))
  BY <1>5
<1>12. ASSUME NEW t, NEW i, NEW q, Leads(t, i, q)
       PROVE  /\ t \in Pages /\ i \in Index /\ (t = CR3 => i \in LowerIndex)
              /\ Has(BootMem, t, i) /\ Goes(BootMem, t, i) = q
  BY <1>0, <1>1, <1>12
<1> HIDE DEF Leads
<1>13. T3 \cap T2 = {}
  BY <1>5, <1>6, <1>7, <1>8
<1>14. T3 \cap T1 = {}
  BY <1>5, <1>6, <1>7, <1>9
<1>15. T2 \cap T1 = {}
  BY <1>6, <1>8, <1>9, <1>13
<1> HIDE DEF T3, T2, T1
<1>16. \A q \in Pages : \E d \in Pages : q \in T3 \cup T2 \cup T1 => \E x \in Index : Leads(d, x, q)
  BY <1>0, <1>1, <1>7, <1>8, <1>9
<1>17. PICK dad : dad = [q \in Pages |-> CHOOSE d \in Pages :
                            q \in T3 \cup T2 \cup T1 => \E x \in Index : Leads(d, x, q)]
  OBVIOUS
<1>18. \A q \in Pages : /\ dad[q] \in Pages
                        /\ q \in T3 \cup T2 \cup T1 => \E x \in Index : Leads(dad[q], x, q)
  BY <1>16, <1>17
<1>19. \A q \in Pages : \E x \in Index : q \in T3 \cup T2 \cup T1 => Leads(dad[q], x, q)
  BY <1>18, Indices
<1>20. PICK idx : idx = [q \in Pages |-> CHOOSE x \in Index :
                            q \in T3 \cup T2 \cup T1 => Leads(dad[q], x, q)]
  OBVIOUS
<1>21. \A q \in Pages : idx[q] \in Index /\ (q \in T3 \cup T2 \cup T1 => Leads(dad[q], idx[q], q))
  BY <1>19, <1>20
<1>22. dad \in [Pages -> Pages] /\ idx \in [Pages -> Index]
  <2>1. dad \in [Pages -> Pages]
    BY <1>17, <1>18
  <2>2. idx \in [Pages -> Index]
    BY <1>20, <1>21
  <2> QED BY <2>1, <2>2
<1>23. PICK role : role = [q \in Pages |-> IF q = CR3 THEN 4 ELSE IF q \in T3 THEN 3
                              ELSE IF q \in T2 THEN 2 ELSE IF q \in T1 THEN 1
                              ELSE IF q \in UsablePages THEN AHEAD ELSE NONE]
  OBVIOUS
<1>24. \A q \in Pages :
          /\ role[q] = 4 <=> q = CR3
          /\ role[q] = 3 <=> q \in T3
          /\ role[q] = 2 <=> q \in T2
          /\ role[q] = 1 <=> q \in T1
          /\ role[q] = AHEAD <=> q \in UsablePages
          /\ role[q] = NONE <=> q \notin {CR3} \cup T3 \cup T2 \cup T1 \cup UsablePages
          /\ role[q] \in {4, 3, 2, 1, AHEAD, NONE}
  <2>1. CR3 \notin UsablePages
    BY BootLoaderAssumption
  <2> QED BY <2>1, <1>5, <1>13, <1>14, <1>15, <1>23 DEF AHEAD, NONE
<1>25. role \in [Pages -> Roles]
  BY <1>23 DEF Roles, AHEAD, NONE
<1>26. GhostTypes(role, dad, idx)
  BY <1>22, <1>25 DEF GhostTypes
<1>27. \A q \in Pages : q \in Managed <=> q \in T3 \cup T2 \cup T1 \cup UsablePages
  BY DEF Managed, LowerTables, T3, T2, T1
<1>28. Owners(role)
  <2>1. ToSet(free) = {}
    BY <1>0 DEF ToSet
  <2>2. \A q \in Pages : role[q] # FREE /\ role[q] # LOST
    BY <1>24 DEF FREE, LOST, AHEAD, NONE
  <2>3. CR3 \notin Managed
    BY RootPage
  <2> QED BY <2>1, <2>2, <2>3, <1>0, <1>24, <1>27 DEF Owners, ROOT
<1>29. Down(role, dad, idx)
  <2> SUFFICES ASSUME NEW p \in Pages, role[p] \in 1..4, NEW i \in Entries(role, p),
                      Has(BootMem, p, i), role[p] > 1
               PROVE  Child(role, dad, idx, p, i)
    BY <1>0 DEF Down
  <2>1. i \in Index /\ (role[p] = 4 => i \in LowerIndex)
    BY Indices DEF Entries, ROOT
  <2>2. PICK q : q = Goes(BootMem, p, i)
    OBVIOUS
  <2>3. q \in Pages
    BY <2>1, <2>2, <1>0, GoesToPage
  <2>4. ASSUME q \in T3 \cup T2 \cup T1, Leads(p, i, q), role[q] = role[p] - 1
        PROVE  Child(role, dad, idx, p, i)
    <3>1. dad[q] = p /\ idx[q] = i
      BY <2>3, <2>4, <1>6, <1>21
    <3> QED BY <3>1, <2>2, <2>4, <1>0 DEF Child
  <2>5. CASE role[p] = 4
    <3>1. p = CR3 /\ q \in T3 /\ Leads(p, i, q)
      BY <2>1, <2>2, <2>5, <1>2, <1>10, <1>24
    <3>2. role[q] = 4 - 1
      BY <3>1, <2>3, <1>24
    <3> QED BY <3>1, <3>2, <2>4, <2>5
  <2>6. CASE role[p] = 3
    <3>1. p \in T3 /\ q \in T2 /\ Leads(p, i, q)
      BY <2>1, <2>2, <2>6, <1>3, <1>11, <1>24
    <3>2. role[q] = 3 - 1
      BY <3>1, <2>3, <1>24
    <3> QED BY <3>1, <3>2, <2>4, <2>6
  <2>7. CASE role[p] = 2
    <3>1. p \in T2 /\ q \in T1 /\ Leads(p, i, q)
      BY <2>1, <2>2, <2>7, <1>4, <1>11, <1>24
    <3>2. role[q] = 2 - 1
      BY <3>1, <2>3, <1>24
    <3> QED BY <3>1, <3>2, <2>4, <2>7
  <2>9. role[p] = 4 \/ role[p] = 3 \/ role[p] = 2
    OBVIOUS
  <2> QED BY <2>5, <2>6, <2>7, <2>9
<1>30. Up(role, dad, idx)
  <2> SUFFICES ASSUME NEW q \in Pages, role[q] \in 0..3
               PROVE  /\ Parent(role, dad, idx, q)
                      /\ role[q] = 3 => idx[q] \in LowerIndex
    BY DEF Up
  <2>0. role[q] = 3 \/ role[q] = 2 \/ role[q] = 1
    BY <1>24 DEF AHEAD, NONE
  <2>1. q \in T3 \cup T2 \cup T1
    BY <2>0, <1>24
  <2>2. /\ Leads(dad[q], idx[q], q) /\ dad[q] \in Pages /\ idx[q] \in Index
        /\ Has(BootMem, dad[q], idx[q]) /\ Goes(BootMem, dad[q], idx[q]) = q
        /\ dad[q] = CR3 => idx[q] \in LowerIndex
    BY <2>1, <1>12, <1>18, <1>21
  <2>3. CASE role[q] = 3
    <3>1. dad[q] = CR3
      BY <2>2, <2>3, <1>6, <1>7, <1>24
    <3>2. role[dad[q]] = 3 + 1
      BY <3>1, <2>2, <1>24
    <3> QED BY <3>1, <3>2, <2>2, <2>3, <1>0 DEF Parent
  <2>4. CASE role[q] = 2
    <3>1. dad[q] \in T3
      BY <2>2, <2>4, <1>6, <1>8, <1>24
    <3>2. role[dad[q]] = 2 + 1
      BY <3>1, <2>2, <1>24
    <3> QED BY <3>2, <2>2, <2>4, <1>0 DEF Parent
  <2>5. CASE role[q] = 1
    <3>1. dad[q] \in T2
      BY <2>2, <2>5, <1>6, <1>9, <1>24
    <3>2. role[dad[q]] = 1 + 1
      BY <3>1, <2>2, <1>24
    <3> QED BY <3>2, <2>2, <2>5, <1>0 DEF Parent
  <2> QED BY <2>0, <2>3, <2>4, <2>5
<1>31. \A q \in Pages : role[q] \notin 11..13
  BY <1>24 DEF AHEAD, NONE
<1>32. DoomedDown(role, dad, idx) /\ DoomedUp(role, dad, idx) /\ Clearing(role, idx)
  BY <1>0, <1>31 DEF DoomedDown, DoomedUp, Clearing
<1>33. Scanned(role)
  <2>1. \A p \in Pages : role[p] = AHEAD <=> pc = "scan" /\ IsAhead(p)
    BY <1>0, <1>24, AllAhead
  <2>2. \A p \in Pages : p \in UsablePages <=> role[p] \in {FREE, AHEAD}
    BY <1>24 DEF FREE, AHEAD, NONE
  <2>3. InUsable => /\ memmap[current].base <= curr
                    /\ curr < EndOf(memmap[current]) => curr \in Pages
    <3> SUFFICES ASSUME InUsable
                 PROVE  memmap[current].base <= curr /\ curr \in Pages
      OBVIOUS
    <3>1. current = 1 /\ 1 \in DOMAIN memmap /\ memmap[1].type = USABLE
      BY DEF InUsable, Init
    <3>2. memmap # <<>>
      BY <3>1
    <3>3. curr = memmap[1].base
      BY <3>2 DEF Init
    <3>4. memmap[1].base \in Frames /\ memmap[1].base \in Nat
      BY <3>1, BootLoaderAssumption, MapEntries
    <3> QED BY <3>1, <3>3, <3>4 DEF Pages
  <2> QED BY <2>1, <2>2, <2>3 DEF Scanned
<1>34. Untouched(role) /\ SmallPages(role) /\ Walking(role)
  <2>1. \A q \in Pages : role[q] # MAPPED
    BY <1>24 DEF MAPPED, AHEAD, NONE
  <2> QED BY <2>1, <1>0, BootLoaderAssumption DEF Untouched, SmallPages, Walking
<1>35. Tree(role, dad, idx)
  BY <1>26, <1>28, <1>29, <1>30, <1>32, <1>33, <1>34 DEF Tree
<1> QED BY <1>35
=============================================================================
