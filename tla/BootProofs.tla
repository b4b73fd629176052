----------------------------- MODULE BootProofs -----------------------------
(***************************************************************************)
(* Proofs about Boot.tla: for every boot loader, set of interrupt lines    *)
(* and number of keys, no interrupt resets the machine, each is served by  *)
(* its handler, and the keyboard's handler does not interrupt itself.      *)
(*                                                                         *)
(* The descriptor tables and the interrupt masks are a function of the     *)
(* statement that _start has reached, and the contexts on the processor    *)
(* are bounded by what those tables let in.  BootInv says both.            *)
(***************************************************************************)
EXTENDS Boot, SequenceTheorems, TLAPS

Codes == {"_start", "program", "GP", "UD", "PF", "DF", "keyboard_interrupt", "syscall_entry",
          "iretq"}
Contexts == [code : Codes, cs : Nat, ss : Nat, cause : Vectors]

\* The gates when _start has reached statement n.
GatesAt(n) ==
    [v \in Vectors |->
        IF v = 128 /\ n > 8 THEN [present |-> TRUE, fn |-> "syscall_entry", type |-> "trap"]
        ELSE IF v = 33 /\ n > 9
             THEN [present |-> TRUE, fn |-> "keyboard_interrupt", type |-> "trap"]
        ELSE IF v \in 1..21 /\ n > 4
             THEN [present |-> TRUE, fn |-> handlers[v],
                   type |-> IF v = 2 THEN "interrupt" ELSE "trap"]
        ELSE Absent]

\* The code that the gates of statement n run for the vectors that can be raised.
Serves(n, v) ==
    CASE v = 0 -> "DF"
      [] v = 6 -> "UD"
      [] v = 13 -> "GP"
      [] v = 14 -> "PF"
      [] v = 33 -> IF n > 9 THEN "keyboard_interrupt" ELSE "GP"
      [] v = 128 -> "syscall_entry"

Raised == {0, 6, 13, 14, 33, 128}

\* The contexts: the bottom one, and those that interrupts have pushed.
Bottom(fs, n) ==
    /\ fs[1].code \in {"_start", "program"}
    /\ fs[1].code = "program" =>
          fs[1].cs = USER_CODE_SELECTOR /\ fs[1].ss = USER_DATA_SELECTOR /\ n = 11

Pushed(fs, n) ==
    \A k \in 2..Len(fs) :
        /\ fs[k].cs = KERNEL_CODE_SELECTOR
        /\ fs[1].code = "program" => fs[k].ss = 0
        /\ fs[k].cause \in Raised
        /\ \/ fs[k].code = Serves(n, fs[k].cause)
           \/ fs[k].code = "iretq" /\ fs[k].cause \in {33, 128}
        /\ fs[k].cause = 128 => n = 11

\* Where a general protection fault may have come from.
Faulting(fs, k) == fs[k].code = "program" \/ (fs[k].code = "iretq" /\ fs[1].code = "_start")

Returning(fs) == \A k \in 2..Len(fs) : fs[k].cause = 13 => Faulting(fs, k - 1)

Stack(fs, n) ==
    /\ fs \in Seq(Contexts)
    /\ Len(fs) >= 1
    /\ Len(fs) > 1 => n > 6
    /\ Bottom(fs, n)
    /\ Pushed(fs, n)
    /\ Returning(fs)

\* A key's context is on the processor at most once, and only while its line is in service.
OneKey(fs, isr) ==
    /\ \A k \in 1..Len(fs) : fs[k].code = "keyboard_interrupt" => KeyLine \in isr
    /\ \A j, k \in 1..Len(fs) :
          fs[j].code = "keyboard_interrupt" /\ fs[k].code = "keyboard_interrupt" => j = k

Segments ==
    /\ gdt = IF at <= 3 THEN [table |-> NullTable.table, size |-> 0, limit |-> -1]
             ELSE [table |-> FullTable.table, size |-> FullTable.size,
                   limit |-> FullTable.size - 1]
    /\ tss = IF at <= 3 THEN [rsp0 |-> "none", tr |-> 0]
             ELSE [rsp0 |-> "interrupt_stack", tr |-> TSS_SELECTOR]

Gates ==
    /\ idt = GatesAt(at)
    /\ idtr = IF at <= 4 THEN FALSE ELSE TRUE

Chips == [icw : {0}, offset : Nat, mask : SUBSET (0..7), irr : SUBSET (0..7),
          isr : SUBSET (0..7)]

Controllers ==
    /\ pic \in [1..2 -> Chips]
    /\ at > 6 => pic[1].offset = IRQ0_INTERRUPT
    /\ at = 7 => pic[1].mask = 0..7
    /\ at > 7 => pic[1].mask = 0..7 \ {KeyLine}
    /\ pic[1].isr \subseteq {KeyLine}

BootInv ==
    /\ at \in 1..11
    /\ IF_ \in BOOLEAN
    /\ reset = FALSE
    /\ at <= 6 => IF_ = FALSE
    /\ tags \in TagSets
    /\ Segments
    /\ Gates
    /\ Controllers
    /\ Stack(frames, at)
    /\ OneKey(frames, pic[1].isr)
-----------------------------------------------------------------------------
(***************************************************************************)
(* The tables and the controllers.                                         *)
(***************************************************************************)

\* The descriptors that gdt_setup leaves, and the size that it gives lgdt.
LEMMA FullTableIs ==
    /\ FullTable.table[8] = [kind |-> "code", user |-> FALSE]
    /\ FullTable.table[24] = [kind |-> "code", user |-> TRUE]
    /\ FullTable.table[32] = [kind |-> "data", user |-> TRUE]
    /\ FullTable.table[40] = [kind |-> "tss", user |-> FALSE]
    /\ FullTable.size = 56
<1> DEFINE k1 == gdt_code_descriptor(NullTable, KERNEL_CODE_SELECTOR, FALSE)
           k2 == gdt_data_descriptor(k1, KERNEL_DATA_SELECTOR, FALSE)
           u1 == gdt_code_descriptor(k2, USER_CODE_SELECTOR, TRUE)
           u2 == gdt_data_descriptor(u1, USER_DATA_SELECTOR, TRUE)
           D == [kind : {"null", "code", "data", "tss"}, user : BOOLEAN]
<1>0. 8 \in Offsets /\ 16 \in Offsets /\ 24 \in Offsets /\ 32 \in Offsets /\ 40 \in Offsets
      /\ 48 \in Offsets
  BY DEF Offsets
<1>1. NullTable.table \in [Offsets -> D] /\ NullTable.size = 0
  BY DEF NullTable
<1>2. /\ k1.table = [NullTable.table EXCEPT ![8] = [kind |-> "code", user |-> FALSE]]
      /\ k1.size = 16
  <2>1. k1.table = [NullTable.table EXCEPT ![8] = [kind |-> "code", user |-> FALSE]]
    BY Zenon DEF gdt_code_descriptor, KERNEL_CODE_SELECTOR
  <2>2. k1.size = Grow(NullTable.size, 8 + 8)
    BY Zenon DEF gdt_code_descriptor, KERNEL_CODE_SELECTOR
  <2> HIDE DEF k1
  <2> QED BY <2>1, <2>2, <1>1 DEF Grow
<1>3. /\ k2.table = [k1.table EXCEPT ![16] = [kind |-> "data", user |-> FALSE]]
      /\ k2.size = 24
  <2> HIDE DEF k1
  <2> QED BY <1>2 DEF gdt_data_descriptor, Grow, KERNEL_DATA_SELECTOR
<1>4. /\ u1.table = [k2.table EXCEPT ![24] = [kind |-> "code", user |-> TRUE]]
      /\ u1.size = 32
  <2> HIDE DEF k2
  <2> QED BY <1>3 DEF gdt_code_descriptor, Grow, USER_CODE_SELECTOR
<1>5. /\ u2.table = [u1.table EXCEPT ![32] = [kind |-> "data", user |-> TRUE]]
      /\ u2.size = 40
  <2> HIDE DEF u1
  <2> QED BY <1>4 DEF gdt_data_descriptor, Grow, USER_DATA_SELECTOR
<1>6. /\ FullTable.table = [u2.table EXCEPT ![40] = [kind |-> "tss", user |-> FALSE],
                                            ![48] = [kind |-> "tss", user |-> FALSE]]
      /\ FullTable.size = 56
  <2>1. FullTable = gdt_tss_descriptor(u2, TSS_SELECTOR)
    BY DEF FullTable
  <2> HIDE DEF u2
  <2> QED BY <2>1, <1>5 DEF gdt_tss_descriptor, Grow, TSS_SELECTOR
<1> HIDE DEF k1, k2, u1, u2
<1>7. k1.table \in [Offsets -> D] /\ k1.table[8] = [kind |-> "code", user |-> FALSE]
  BY <1>0, <1>1, <1>2
<1>8. k2.table \in [Offsets -> D] /\ k2.table[8] = [kind |-> "code", user |-> FALSE]
  BY <1>0, <1>7, <1>3
<1>9. /\ u1.table \in [Offsets -> D] /\ u1.table[8] = [kind |-> "code", user |-> FALSE]
      /\ u1.table[24] = [kind |-> "code", user |-> TRUE]
  BY <1>0, <1>8, <1>4
<1>10. /\ u2.table \in [Offsets -> D] /\ u2.table[8] = [kind |-> "code", user |-> FALSE]
       /\ u2.table[24] = [kind |-> "code", user |-> TRUE]
       /\ u2.table[32] = [kind |-> "data", user |-> TRUE]
  BY <1>0, <1>9, <1>5
<1>11. PICK t : t = [u2.table EXCEPT ![40] = [kind |-> "tss", user |-> FALSE]]
  OBVIOUS
<1>12. /\ t \in [Offsets -> D] /\ t[8] = [kind |-> "code", user |-> FALSE]
       /\ t[24] = [kind |-> "code", user |-> TRUE]
       /\ t[32] = [kind |-> "data", user |-> TRUE]
       /\ t[40] = [kind |-> "tss", user |-> FALSE]
  BY <1>0, <1>10, <1>11
<1>13. FullTable.table = [t EXCEPT ![48] = [kind |-> "tss", user |-> FALSE]]
  BY <1>6, <1>11
<1>14. FullTable.size = 56
  BY <1>6
<1> QED
  BY <1>0, <1>12, <1>13, <1>14

\* The bits of the bytes that pic.c writes.
LEMMA BitsOf ==
    /\ 4 \in Bits(17) /\ 5 \notin Bits(17) /\ 4 \notin Bits(EOI) /\ 5 \in Bits(EOI)
    /\ Bits(255) = 0..7
<1>1. /\ Weights[1] = 1 /\ Weights[2] = 2 /\ Weights[3] = 4 /\ Weights[4] = 8
      /\ Weights[5] = 16 /\ Weights[6] = 32 /\ Weights[7] = 64 /\ Weights[8] = 128
  BY DEF Weights
<1>2. 4 \in Bits(17) /\ 5 \notin Bits(17)
  BY <1>1 DEF Bits
<1>3. 4 \notin Bits(32) /\ 5 \in Bits(32)
  BY <1>1 DEF Bits
<1>4. \A k \in 0..7 : k \in Bits(255)
  <2> TAKE k \in 0..7
  <2>1. k \in {0, 1, 2, 3, 4, 5, 6, 7}
    OBVIOUS
  <2> QED BY <2>1, <1>1 DEF Bits
<1> QED
  BY <1>2, <1>3, <1>4 DEF Bits, EOI

\* pic_init's writes leave a controller at its vector with every line masked.
LEMMA InitialisedIs ==
    ASSUME NEW chip \in Chips, NEW vector \in Nat, NEW cascade \in Nat
    PROVE  Initialised(chip, vector, cascade) =
             [icw |-> 0, offset |-> vector, mask |-> 0..7, irr |-> {}, isr |-> {}]
<1> DEFINE icw1 == Command(chip, 17)
           icw2 == Data(icw1, vector)
           icw3 == Data(icw2, cascade)
           icw4 == Data(icw3, 1)
<1>1. icw1 = [icw |-> 2, offset |-> chip.offset, mask |-> {}, irr |-> {}, isr |-> {}]
  BY BitsOf DEF Command
<1>2. icw2 = [icw |-> 3, offset |-> vector, mask |-> {}, irr |-> {}, isr |-> {}]
  <2> HIDE DEF icw1
  <2>1. icw2 = [[icw1 EXCEPT !.icw = 3] EXCEPT !.offset = vector]
    BY <1>1 DEF Data
  <2> QED BY <2>1, <1>1
<1>3. icw3 = [icw |-> 4, offset |-> vector, mask |-> {}, irr |-> {}, isr |-> {}]
  <2> HIDE DEF icw2
  <2> QED BY <1>2 DEF Data
<1>4. icw4 = [icw |-> 0, offset |-> vector, mask |-> {}, irr |-> {}, isr |-> {}]
  <2> HIDE DEF icw3
  <2> QED BY <1>3 DEF Data
<1>5. Initialised(chip, vector, cascade) = Data(icw4, 255)
  BY DEF Initialised
<1> HIDE DEF icw4
<1>6. Data(icw4, 255) = [icw4 EXCEPT !.mask = Bits(255)]
  BY <1>4 DEF Data
<1> QED
  BY <1>4, <1>5, <1>6, BitsOf

\* EOI ends the service of the only line that gets through.
LEMMA EoiIs ==
    ASSUME NEW chips \in [1..2 -> Chips], chips[1].isr \subseteq {KeyLine}
    PROVE  SendEoi(chips) = [chips EXCEPT ![1] = [@ EXCEPT !.isr = {}]]
<1>1. Command(chips[1], EOI) = [chips[1] EXCEPT !.isr = @ \ {k \in @ : \A j \in @ : k <= j}]
  BY BitsOf DEF Command
<1>2. chips[1].isr \ {k \in chips[1].isr : \A j \in chips[1].isr : k <= j} = {}
  BY DEF KeyLine
<1>3. Command(chips[1], EOI) = [chips[1] EXCEPT !.isr = {}]
  BY <1>1, <1>2
<1> QED
  BY <1>3 DEF SendEoi
-----------------------------------------------------------------------------
(***************************************************************************)
(* The processor's contexts.                                               *)
(***************************************************************************)

\* An interrupt pushes the context of the handler that serves it.
LEMMA PushStack ==
    ASSUME NEW fs, NEW n \in 7..11, Stack(fs, n), NEW v \in Raised, v = 128 => n = 11,
           v = 13 => Faulting(fs, Len(fs)),
           NEW ss, ss = IF fs[Len(fs)].code = "program" THEN 0 ELSE fs[Len(fs)].ss,
           NEW f, f = [code |-> Serves(n, v), cs |-> KERNEL_CODE_SELECTOR, ss |-> ss, cause |-> v]
    PROVE  f \in Contexts /\ Stack(Append(fs, f), n)
<1> PICK gs : gs = Append(fs, f)
  OBVIOUS
<1>1. fs \in Seq(Contexts) /\ Len(fs) >= 1 /\ Len(fs) \in Nat /\ Len(fs) \in 1..Len(fs)
  BY DEF Stack
<1>2. fs[Len(fs)] \in Contexts
  BY <1>1, ElementOfSeq
<1>3. ss \in Nat /\ (fs[1].code = "program" => ss = 0)
  <2>1. ss \in Nat
    BY <1>2 DEF Contexts
  <2>2. ASSUME fs[1].code = "program", fs[Len(fs)].code # "program" PROVE fs[Len(fs)].ss = 0
    <3>1. Len(fs) # 1
      BY <2>2
    <3>2. Len(fs) \in 2..Len(fs)
      <4>1. \A k \in Nat : k >= 1 /\ k # 1 => k \in 2..k
        OBVIOUS
      <4> QED BY <1>1, <3>1, <4>1
    <3> QED BY <2>2, <3>2 DEF Stack, Pushed
  <2> QED BY <2>1, <2>2
<1>4. /\ f \in Contexts /\ f.cs = KERNEL_CODE_SELECTOR /\ f.ss = ss /\ f.cause = v
      /\ f.code = Serves(n, v)
  <2>1. Serves(n, v) \in {"GP", "UD", "PF", "DF", "keyboard_interrupt", "syscall_entry"}
    BY DEF Raised, Serves
  <2>2. v \in Vectors
    BY DEF Raised, Vectors
  <2>3. Serves(n, v) \in Codes
    BY <2>1 DEF Codes
  <2> QED BY <1>3, <2>2, <2>3 DEF Contexts, KERNEL_CODE_SELECTOR
<1>5. /\ gs \in Seq(Contexts)
      /\ Len(gs) = Len(fs) + 1
      /\ \A k \in 1..Len(fs) : gs[k] = fs[k]
      /\ gs[Len(fs) + 1] = f
      /\ gs[1] = fs[1]
  <2>1. /\ gs \in Seq(Contexts)
        /\ Len(gs) = Len(fs) + 1
        /\ \A k \in 1..Len(fs) : gs[k] = fs[k]
        /\ gs[Len(fs) + 1] = f
    BY <1>1, <1>4, AppendProperties
  <2> QED BY <2>1, <1>1
<1>6. Bottom(gs, n)
  BY <1>1, <1>5 DEF Stack, Bottom
<1>7. Pushed(gs, n)
  <2> SUFFICES ASSUME NEW k \in 2..Len(gs)
               PROVE  /\ gs[k].cs = KERNEL_CODE_SELECTOR
                      /\ gs[1].code = "program" => gs[k].ss = 0
                      /\ gs[k].cause \in Raised
                      /\ \/ gs[k].code = Serves(n, gs[k].cause)
                         \/ gs[k].code = "iretq" /\ gs[k].cause \in {33, 128}
                      /\ gs[k].cause = 128 => n = 11
    BY DEF Pushed
  <2>1. CASE k \in 2..Len(fs)
    <3>1. gs[k] = fs[k]
      BY <2>1, <1>1, <1>5
    <3> QED BY <2>1, <3>1, <1>5 DEF Stack, Pushed
  <2>2. CASE k = Len(fs) + 1
    BY <2>2, <1>3, <1>4, <1>5
  <2> QED BY <2>1, <2>2, <1>1, <1>5
<1>8. Returning(gs)
  <2> SUFFICES ASSUME NEW k \in 2..Len(gs), gs[k].cause = 13
               PROVE  Faulting(gs, k - 1)
    BY DEF Returning
  <2>1. k - 1 \in 1..Len(fs) /\ gs[k - 1] = fs[k - 1]
    BY <1>1, <1>5
  <2>2. CASE k \in 2..Len(fs)
    <3>1. gs[k] = fs[k]
      BY <2>2, <1>1, <1>5
    <3>2. Faulting(fs, k - 1)
      BY <2>2, <3>1 DEF Stack, Returning
    <3> QED BY <2>1, <3>2, <1>5 DEF Faulting
  <2>3. CASE k = Len(fs) + 1
    <3>1. v = 13 /\ k - 1 = Len(fs)
      BY <2>3, <1>1, <1>4, <1>5
    <3> QED BY <2>1, <3>1, <1>5 DEF Faulting
  <2> QED BY <2>2, <2>3, <1>1, <1>5
<1> QED
  BY <1>1, <1>4, <1>5, <1>6, <1>7, <1>8 DEF Stack

\* A handler that is done but for its iretq.
LEMMA FinishStack ==
    ASSUME Stack(frames, at), Len(frames) > 1, Finish,
           frames[Len(frames)].cause \in {33, 128}
    PROVE  /\ Stack(frames', at)
           /\ Len(frames') = Len(frames)
           /\ frames'[Len(frames)].code = "iretq"
           /\ \A k \in 1..(Len(frames) - 1) : frames'[k] = frames[k]
<1>1. PICK fs : fs = frames
  OBVIOUS
<1>2. PICK gs : gs = frames'
  OBVIOUS
<1>3. /\ Stack(fs, at) /\ Len(fs) > 1 /\ gs = [fs EXCEPT ![Len(fs)].code = "iretq"]
      /\ fs[Len(fs)].cause \in {33, 128}
  BY <1>1, <1>2 DEF Finish
<1>4. fs \in Seq(Contexts) /\ Len(fs) >= 1 /\ Len(fs) \in Nat /\ Len(fs) \in 1..Len(fs)
  BY <1>3 DEF Stack
<1>5. fs[Len(fs)] \in Contexts
  BY <1>4, ElementOfSeq
<1>6. PICK f : f = [fs[Len(fs)] EXCEPT !.code = "iretq"]
  OBVIOUS
<1>7. /\ f \in Contexts /\ f.code = "iretq" /\ f.cs = fs[Len(fs)].cs
      /\ f.ss = fs[Len(fs)].ss /\ f.cause = fs[Len(fs)].cause
  <2>1. PICK g \in Contexts : g = fs[Len(fs)]
    BY <1>5
  <2>2. f = [g EXCEPT !.code = "iretq"]
    BY <2>1, <1>6
  <2>3. f = [code |-> "iretq", cs |-> g.cs, ss |-> g.ss, cause |-> g.cause]
    BY <2>2 DEF Contexts
  <2>4. g.cs \in Nat /\ g.ss \in Nat /\ g.cause \in Vectors
    BY DEF Contexts
  <2>5. f \in Contexts
    BY <2>3, <2>4 DEF Contexts, Codes
  <2> QED BY <2>1, <2>3, <2>5
<1>8. gs = [fs EXCEPT ![Len(fs)] = f]
  BY <1>3, <1>6
<1>9. /\ gs \in Seq(Contexts)
      /\ Len(gs) = Len(fs)
      /\ \A k \in 1..Len(fs) : gs[k] = IF k = Len(fs) THEN f ELSE fs[k]
  BY <1>4, <1>7, <1>8, ExceptSeq
<1>10. \A k \in 1..(Len(fs) - 1) : gs[k] = fs[k]
  BY <1>4, <1>9
<1>11. gs[Len(fs)] = f
  BY <1>4, <1>9
<1>12. Bottom(gs, at)
  BY <1>3, <1>4, <1>10 DEF Stack, Bottom
<1>13. Pushed(gs, at)
  <2> SUFFICES ASSUME NEW k \in 2..Len(gs)
               PROVE  /\ gs[k].cs = KERNEL_CODE_SELECTOR
                      /\ gs[1].code = "program" => gs[k].ss = 0
                      /\ gs[k].cause \in Raised
                      /\ \/ gs[k].code = Serves(at, gs[k].cause)
                         \/ gs[k].code = "iretq" /\ gs[k].cause \in {33, 128}
                      /\ gs[k].cause = 128 => at = 11
    BY DEF Pushed
  <2>1. k \in 2..Len(fs) /\ gs[1] = fs[1]
    BY <1>3, <1>4, <1>9, <1>10
  <2>2. /\ fs[k].cs = KERNEL_CODE_SELECTOR
        /\ fs[1].code = "program" => fs[k].ss = 0
        /\ fs[k].cause \in Raised
        /\ \/ fs[k].code = Serves(at, fs[k].cause)
           \/ fs[k].code = "iretq" /\ fs[k].cause \in {33, 128}
        /\ fs[k].cause = 128 => at = 11
    BY <1>3, <2>1 DEF Stack, Pushed
  <2>3. CASE k = Len(fs)
    BY <2>1, <2>2, <2>3, <1>3, <1>7, <1>11
  <2>4. CASE k # Len(fs)
    <3>1. gs[k] = fs[k]
      BY <2>1, <2>4, <1>4, <1>10
    <3> QED BY <3>1, <2>1, <2>2
  <2> QED BY <2>3, <2>4
<1>14. Returning(gs)
  <2> SUFFICES ASSUME NEW k \in 2..Len(gs), gs[k].cause = 13
               PROVE  Faulting(gs, k - 1)
    BY DEF Returning
  <2>1. /\ gs[k - 1] = fs[k - 1] /\ gs[1] = fs[1] /\ k \in 2..Len(fs)
    BY <1>3, <1>4, <1>9, <1>10
  <2>2. fs[k].cause = 13
    BY <2>1, <1>4, <1>7, <1>9
  <2>3. Faulting(fs, k - 1)
    BY <1>3, <2>1, <2>2 DEF Stack, Returning
  <2> QED BY <2>1, <2>3 DEF Faulting
<1>15. Stack(gs, at)
  BY <1>3, <1>4, <1>9, <1>12, <1>13, <1>14 DEF Stack
<1> QED
  BY <1>1, <1>2, <1>7, <1>9, <1>10, <1>11, <1>15

\* iretq pops the running context.
LEMMA PopStack ==
    ASSUME NEW fs, NEW n, Stack(fs, n), Len(fs) > 1, NEW gs, gs = Front(fs)
    PROVE  /\ Stack(gs, n)
           /\ Len(gs) = Len(fs) - 1
           /\ \A k \in 1..(Len(fs) - 1) : gs[k] = fs[k]
<1>1. fs \in Seq(Contexts) /\ Len(fs) \in Nat
  BY DEF Stack
<1>2. /\ gs \in Seq(Contexts)
      /\ Len(gs) = Len(fs) - 1
      /\ \A k \in 1..(Len(fs) - 1) : gs[k] = fs[k]
  <2>1. gs = SubSeq(fs, 1, Len(fs) - 1)
    BY DEF Front
  <2> QED BY <1>1, <2>1, SubSeqProperties
<1>3. Bottom(gs, n)
  BY <1>1, <1>2 DEF Stack, Bottom
<1>4. Pushed(gs, n)
  <2>1. gs[1] = fs[1]
    BY <1>1, <1>2
  <2>2. \A k \in 2..Len(gs) : k \in 2..Len(fs) /\ gs[k] = fs[k]
    BY <1>1, <1>2
  <2> QED BY <2>1, <2>2 DEF Stack, Pushed
<1>5. Returning(gs)
  <2> SUFFICES ASSUME NEW k \in 2..Len(gs), gs[k].cause = 13
               PROVE  Faulting(gs, k - 1)
    BY DEF Returning
  <2>1. gs[k] = fs[k] /\ gs[k - 1] = fs[k - 1] /\ gs[1] = fs[1] /\ k \in 2..Len(fs)
    <3>1. /\ k \in 1..(Len(fs) - 1) /\ k - 1 \in 1..(Len(fs) - 1)
          /\ 1 \in 1..(Len(fs) - 1) /\ k \in 2..Len(fs)
      BY <1>1, <1>2
    <3> QED BY <3>1, <1>2
  <2>2. Faulting(fs, k - 1)
    BY <2>1 DEF Stack, Returning
  <2> QED BY <2>1, <2>2 DEF Faulting
<1> QED
  BY <1>1, <1>2, <1>3, <1>4, <1>5 DEF Stack

\* While _start runs there is no other context, and it may go on to its next statement.
LEMMA StartAlone ==
    ASSUME NEW fs, NEW n \in 1..10, Stack(fs, n), fs[Len(fs)].code = "_start"
    PROVE  Len(fs) = 1 /\ Stack(fs, n + 1)
<1>1. fs \in Seq(Contexts) /\ Len(fs) >= 1 /\ Len(fs) \in Nat
  BY DEF Stack
<1>2. Len(fs) = 1
  <2> SUFFICES ASSUME Len(fs) # 1 PROVE FALSE
    OBVIOUS
  <2>1. Len(fs) \in 2..Len(fs)
    <3>1. \A k \in Nat : k >= 1 /\ k # 1 => k \in 2..k
      OBVIOUS
    <3> QED BY <1>1, <3>1
  <2>2. /\ fs[Len(fs)].code \in {Serves(n, fs[Len(fs)].cause), "iretq"}
        /\ fs[Len(fs)].cause \in Raised
    BY <2>1 DEF Stack, Pushed
  <2>3. Serves(n, fs[Len(fs)].cause) # "_start"
    BY <2>2 DEF Serves, Raised
  <2> QED BY <2>2, <2>3
<1>3. Bottom(fs, n + 1)
  BY <1>2 DEF Stack, Bottom
<1>4. Pushed(fs, n + 1) /\ Returning(fs)
  BY <1>2 DEF Pushed, Returning
<1> QED
  BY <1>1, <1>2, <1>3, <1>4 DEF Stack

\* The contexts of keys, when one is pushed and when there are no new ones.
LEMMA PushKey ==
    ASSUME NEW fs \in Seq(Contexts), NEW isr, OneKey(fs, isr), NEW f \in Contexts, NEW isr2,
           isr \subseteq isr2,
           f.code = "keyboard_interrupt" => KeyLine \notin isr /\ KeyLine \in isr2
    PROVE  OneKey(Append(fs, f), isr2)
<1> PICK gs : gs = Append(fs, f)
  OBVIOUS
<1>1. /\ Len(gs) = Len(fs) + 1 /\ Len(fs) \in Nat
      /\ \A k \in 1..Len(fs) : gs[k] = fs[k]
      /\ gs[Len(fs) + 1] = f
  BY AppendProperties
<1>2. \A k \in 1..Len(gs) : k \in 1..Len(fs) \/ k = Len(fs) + 1
  BY <1>1
<1>3. \A k \in 1..Len(gs) : gs[k].code = "keyboard_interrupt" => KeyLine \in isr2
  BY <1>1, <1>2 DEF OneKey
<1>4. \A j, k \in 1..Len(gs) :
          gs[j].code = "keyboard_interrupt" /\ gs[k].code = "keyboard_interrupt" => j = k
  BY <1>1, <1>2 DEF OneKey
<1> QED
  BY <1>3, <1>4 DEF OneKey

LEMMA SameKeys ==
    ASSUME NEW fs, NEW gs, NEW isr, NEW isr2, OneKey(fs, isr),
           \A k \in 1..Len(gs) : gs[k].code = "keyboard_interrupt" =>
               k \in 1..Len(fs) /\ fs[k].code = "keyboard_interrupt" /\ isr2 = isr
    PROVE  OneKey(gs, isr2)
  BY DEF OneKey
-----------------------------------------------------------------------------
(***************************************************************************)
(* The processor finds a gate, a segment and a stack.                      *)
(***************************************************************************)
LEMMA SegmentsLoaded ==
    ASSUME Segments, at \in 4..11
    PROVE  /\ Loaded(KERNEL_CODE_SELECTOR, "code", FALSE)
           /\ Loaded(USER_CODE_SELECTOR, "code", TRUE)
           /\ Loaded(USER_DATA_SELECTOR, "data", TRUE)
           /\ Loaded(TSS_SELECTOR, "tss", FALSE)
           /\ tss.rsp0 # "none" /\ tss.tr = TSS_SELECTOR
<1>1. gdt.table = FullTable.table /\ gdt.limit = 55
  BY FullTableIs DEF Segments
<1>2. tss.rsp0 = "interrupt_stack" /\ tss.tr = TSS_SELECTOR
  BY DEF Segments
<1> QED
  BY <1>1, <1>2, FullTableIs
  DEF Loaded, KERNEL_CODE_SELECTOR, USER_CODE_SELECTOR, USER_DATA_SELECTOR, TSS_SELECTOR

\* Contexts that iretq can return to: a program's, and above it those of its interrupts.
LEMMA ReturnableIs ==
    ASSUME Segments, at \in 4..11, NEW to,
           \/ /\ to.code = "program"
              /\ to.cs = USER_CODE_SELECTOR /\ to.ss = USER_DATA_SELECTOR
           \/ /\ to.code # "program"
              /\ to.cs = KERNEL_CODE_SELECTOR /\ to.ss = 0
    PROVE  Returnable(to)
<1>1. CASE to.code = "program"
  <2>1. (to.code = "program") = TRUE
    BY <1>1
  <2> QED BY <2>1, SegmentsLoaded DEF Returnable
<1>2. CASE to.code # "program"
  <2>1. (to.code = "program") = FALSE
    BY <1>2
  <2> QED BY <2>1, SegmentsLoaded DEF Returnable
<1> QED
  BY <1>1, <1>2

\* Each interrupt that can come is served by the gate that Serves names.
LEMMA RaiseIs ==
    ASSUME Segments, Gates, at \in 7..11, IF_ \in BOOLEAN,
           NEW v \in Raised, v = 128 => at > 8, Raise(v)
    PROVE  /\ frames' = Append(frames, [code |-> Serves(at, v), cs |-> KERNEL_CODE_SELECTOR,
                                        ss |-> HandlerSS, cause |-> v])
           /\ IF_' \in BOOLEAN
           /\ IF_' => IF_
           /\ reset' = reset
<1>0. at \in Int /\ at > 4 /\ at \in 4..11 /\ v \in Vectors
      /\ 8 \in Vectors /\ 13 \in Vectors
  BY DEF Raised, Vectors
<1>1. \A w \in Vectors : Gate(w) <=> idt[w].present = TRUE
  <2>1. idtr = TRUE
    BY <1>0 DEF Gates
  <2>2. \A w \in Vectors : idt[w].present \in BOOLEAN
    BY DEF Gates, GatesAt, Absent
  <2> QED BY <1>0, <2>1, <2>2, SegmentsLoaded DEF Gate
<1>2. handlers[6] = "UD" /\ handlers[8] = "DF" /\ handlers[13] = "GP" /\ handlers[14] = "PF"
  BY DEF handlers
<1>3. /\ idt[13].present = TRUE /\ idt[13].fn = "GP"
      /\ idt[8].present = TRUE /\ idt[8].fn = "DF"
  BY <1>0, <1>2 DEF Gates, GatesAt
<1>4. Gate(Taken(v)) /\ idt[Taken(v)].fn = Serves(at, v)
  <2>1. CASE v = 0
    <3>1. idt[v].present = FALSE
      BY <2>1, <1>0 DEF Gates, GatesAt, Absent
    <3>2. Taken(v) = 8
      BY <2>1, <3>1, <1>0, <1>1 DEF Taken, Contributory
    <3>3. Serves(at, v) = "DF"
      BY <2>1 DEF Serves
    <3> QED BY <3>2, <3>3, <1>0, <1>1, <1>3
  <2>2. CASE v = 6
    <3>1. idt[v].present = TRUE /\ idt[v].fn = "UD"
      BY <2>2, <1>0, <1>2 DEF Gates, GatesAt
    <3>2. Serves(at, v) = "UD"
      BY <2>2 DEF Serves
    <3> QED BY <3>1, <3>2, <1>0, <1>1 DEF Taken
  <2>3. CASE v = 13
    <3>1. Serves(at, v) = "GP"
      BY <2>3 DEF Serves
    <3> QED BY <2>3, <3>1, <1>0, <1>1, <1>3 DEF Taken
  <2>4. CASE v = 14
    <3>1. idt[v].present = TRUE /\ idt[v].fn = "PF"
      BY <2>4, <1>0, <1>2 DEF Gates, GatesAt
    <3>2. Serves(at, v) = "PF"
      BY <2>4 DEF Serves
    <3> QED BY <3>1, <3>2, <1>0, <1>1 DEF Taken
  <2>5. CASE v = 33 /\ at > 9
    <3>1. idt[v].present = TRUE /\ idt[v].fn = "keyboard_interrupt"
      BY <2>5, <1>0 DEF Gates, GatesAt
    <3>2. Serves(at, v) = "keyboard_interrupt"
      BY <2>5 DEF Serves
    <3> QED BY <3>1, <3>2, <1>0, <1>1 DEF Taken
  <2>6. CASE v = 33 /\ ~(at > 9)
    <3>1. idt[v].present = FALSE
      BY <2>6, <1>0 DEF Gates, GatesAt, Absent
    <3>2. Taken(v) = 13
      BY <2>6, <3>1, <1>0, <1>1, <1>3 DEF Taken, Contributory, PageFault
    <3>3. Serves(at, v) = "GP"
      BY <2>6 DEF Serves
    <3> QED BY <3>2, <3>3, <1>0, <1>1, <1>3
  <2>7. CASE v = 128
    <3>1. idt[v].present = TRUE /\ idt[v].fn = "syscall_entry"
      BY <2>7, <1>0 DEF Gates, GatesAt
    <3>2. Serves(at, v) = "syscall_entry"
      BY <2>7 DEF Serves
    <3> QED BY <3>1, <3>2, <1>0, <1>1 DEF Taken
  <2> QED BY <2>1, <2>2, <2>3, <2>4, <2>5, <2>6, <2>7 DEF Raised
<1>5. /\ frames' = Append(frames, [code |-> idt[Taken(v)].fn, cs |-> KERNEL_CODE_SELECTOR,
                                   ss |-> HandlerSS, cause |-> v])
      /\ IF_' = (IF_ /\ idt[Taken(v)].type = "trap")
      /\ reset' = reset
  BY <1>4, Zenon DEF Raise
<1> QED
  BY <1>4, <1>5, Zenon
-----------------------------------------------------------------------------
(***************************************************************************)
(* BootInv is inductive.                                                   *)
(***************************************************************************)

\* The place of each statement of _start.
LEMMA StartIs ==
    ASSUME NEW n \in 1..11
    PROVE  /\ start[n] = "init_init" => n = 1
           /\ start[n] = "term_init" => n = 2
           /\ start[n] = "gdt_setup" => n = 3
           /\ start[n] = "idt_setup" => n = 4
           /\ start[n] = "mem_init" => n = 5
           /\ start[n] = "pic_init" => n = 6
           /\ start[n] = "pic_unmask_irq" => n = 7
           /\ start[n] = "syscall_entry" => n = 8
           /\ start[n] = "keyboard_interrupt" => n = 9
           /\ start[n] = "exec" => n = 10
           /\ Len(start) = 11
<1>1. n \in {1, 2, 3, 4, 5, 6, 7, 8, 9, 10, 11}
  OBVIOUS
<1>2. /\ start[1] = "init_init" /\ start[2] = "term_init" /\ start[3] = "gdt_setup"
      /\ start[4] = "idt_setup" /\ start[5] = "mem_init" /\ start[6] = "pic_init"
      /\ start[7] = "pic_unmask_irq" /\ start[8] = "syscall_entry"
      /\ start[9] = "keyboard_interrupt" /\ start[10] = "exec" /\ start[11] = "halt"
      /\ Len(start) = 11
  BY DEF start
<1> QED
  BY <1>1, <1>2

\* A statement runs with nothing above _start, and no key's context anywhere.
LEMMA StatementAlone ==
    ASSUME BootInv, NEW name, Statement(name), at \in 1..10
    PROVE  /\ at' = at + 1 /\ tags' = tags
           /\ start[at] = name
           /\ Len(frames) = 1
           /\ Stack(frames, at')
           /\ \A isr : OneKey(frames, isr)
<1>1. at' = at + 1 /\ tags' = tags /\ start[at] = name /\ frames[Len(frames)].code = "_start"
  BY DEF Statement, Running
<1>2. Len(frames) = 1 /\ Stack(frames, at + 1)
  BY <1>1, StartAlone DEF BootInv
<1>3. ASSUME NEW isr PROVE OneKey(frames, isr)
  <2>1. \A k \in 1..Len(frames) : frames[k].code # "keyboard_interrupt"
    BY <1>1, <1>2
  <2> QED BY <2>1 DEF OneKey
<1> QED
  BY <1>1, <1>2, <1>3

LEMMA InitBoot == Init => BootInv
<1> SUFFICES ASSUME Init PROVE BootInv
  OBVIOUS
<1>1. at = 1 /\ IF_ = FALSE /\ reset = FALSE /\ tags \in TagSets
  BY DEF Init
<1>2. Segments
  BY <1>1 DEF Init, Segments
<1>3. Gates
  <2>1. idtr = FALSE /\ idt = [v \in Vectors |-> Absent]
    BY DEF Init
  <2>2. GatesAt(1) = [v \in Vectors |-> Absent]
    BY DEF GatesAt
  <2>3. 1 <= 4
    OBVIOUS
  <2> QED BY <1>1, <2>1, <2>2, <2>3, Zenon DEF Gates
<1>4. Controllers
  <2>1. [icw |-> 0, offset |-> 8, mask |-> {}, irr |-> {}, isr |-> {}] \in Chips
    BY DEF Chips
  <2>2. pic \in [1..2 -> Chips] /\ pic[1].isr = {}
    BY <2>1 DEF Init
  <2> QED BY <1>1, <2>2 DEF Controllers
<1>5. PICK selector \in BootSelectors :
         frames = <<[code |-> "_start", cs |-> selector.cs, ss |-> selector.ss, cause |-> 0]>>
  BY DEF Init
<1>6. selector.cs \in Nat /\ selector.ss \in Nat
  BY BootAssumption
<1>7. frames \in Seq(Contexts) /\ Len(frames) = 1 /\ frames[1].code = "_start"
  <2>1. [code |-> "_start", cs |-> selector.cs, ss |-> selector.ss, cause |-> 0] \in Contexts
    BY <1>6 DEF Contexts, Codes, Vectors
  <2> QED BY <2>1, <1>5
<1>8. Stack(frames, at)
  BY <1>7 DEF Stack, Bottom, Pushed, Returning
<1>9. OneKey(frames, pic[1].isr)
  BY <1>7 DEF OneKey
<1>10. at \in 1..11
  BY <1>1
<1>11. IF_ \in BOOLEAN
  BY <1>1, Zenon
<1> QED
  BY <1>1, <1>2, <1>3, <1>4, <1>8, <1>9, <1>10, <1>11, Zenon DEF BootInv

\* The statements that leave the tables alone.
LEMMA PrepareBoot == BootInv /\ Prepare => BootInv'
<1> SUFFICES ASSUME BootInv, Prepare PROVE BootInv'
  OBVIOUS
<1>1. PICK name \in {"init_init", "term_init", "mem_init"} :
         Statement(name) /\ Quiet /\ UNCHANGED <<tables, pic>>
  BY DEF Prepare
<1>2. start[at] = name
  BY <1>1 DEF Statement
<1>3. at \in {1, 2, 5}
  BY <1>1, <1>2, StartIs DEF BootInv
<1>4. at \in 1..10 /\ at \in Int
  BY <1>3
<1>5. /\ at' = at + 1 /\ tags' = tags
      /\ Stack(frames, at')
      /\ \A isr : OneKey(frames, isr)
  BY <1>1, <1>4, StatementAlone
<1>6. /\ frames' = frames /\ IF_' = IF_ /\ reset' = reset /\ pic' = pic
      /\ gdt' = gdt /\ tss' = tss /\ idt' = idt /\ idtr' = idtr
  BY <1>1 DEF Quiet, tables
<1>7. IF_ = FALSE
  BY <1>3 DEF BootInv
<1>8. Segments'
  BY <1>3, <1>5, <1>6 DEF BootInv, Segments
<1>9. Gates'
  <2>1. GatesAt(at + 1) = GatesAt(at)
    BY <1>3 DEF GatesAt
  <2>2. idt' = GatesAt(at')
    BY <2>1, <1>5, <1>6 DEF BootInv, Gates
  <2>3. idtr' = IF at' <= 4 THEN FALSE ELSE TRUE
    BY <1>3, <1>5, <1>6 DEF BootInv, Gates
  <2> QED BY <2>2, <2>3 DEF Gates, GatesAt
<1>10. Controllers'
  BY <1>3, <1>5, <1>6 DEF BootInv, Controllers
<1> QED
  BY <1>3, <1>5, <1>6, <1>7, <1>8, <1>9, <1>10 DEF BootInv

LEMMA GdtSetupBoot == BootInv /\ gdt_setup => BootInv'
<1> SUFFICES ASSUME BootInv, gdt_setup PROVE BootInv'
  OBVIOUS
<1>1. Statement("gdt_setup")
  BY DEF gdt_setup
<1>2. at = 3
  BY <1>1, StartIs DEF BootInv, Statement
<1>3. at' = 4 /\ tags' = tags /\ Stack(frames, at') /\ \A isr : OneKey(frames, isr)
  <2>1. at \in 1..10
    BY <1>2
  <2>2. at' = at + 1 /\ tags' = tags /\ Stack(frames, at') /\ \A isr : OneKey(frames, isr)
    BY <1>1, <2>1, StatementAlone
  <2> QED BY <1>2, <2>2
<1>4. frames' = frames /\ IF_' = IF_ /\ reset' = reset /\ pic' = pic /\ idt' = idt /\ idtr' = idtr
  BY DEF gdt_setup, Quiet
<1>5. Segments'
  BY <1>3 DEF gdt_setup, Segments
<1>6. Gates'
  <2>1. GatesAt(3) = GatesAt(4)
    BY DEF GatesAt
  <2>2. idt' = GatesAt(at')
    BY <2>1, <1>2, <1>3, <1>4 DEF BootInv, Gates
  <2>3. idtr' = IF at' <= 4 THEN FALSE ELSE TRUE
    BY <1>2, <1>3, <1>4 DEF BootInv, Gates
  <2> QED BY <2>2, <2>3 DEF Gates, GatesAt
<1>7. Controllers'
  BY <1>2, <1>3, <1>4 DEF BootInv, Controllers
<1> QED
  BY <1>2, <1>3, <1>4, <1>5, <1>6, <1>7 DEF BootInv

LEMMA IdtSetupBoot == BootInv /\ idt_setup => BootInv'
<1> SUFFICES ASSUME BootInv, idt_setup PROVE BootInv'
  OBVIOUS
<1>1. Statement("idt_setup")
  BY DEF idt_setup
<1>2. at = 4
  BY <1>1, StartIs DEF BootInv, Statement
<1>3. at' = 5 /\ tags' = tags /\ Stack(frames, at') /\ \A isr : OneKey(frames, isr)
  <2>1. at \in 1..10
    BY <1>2
  <2>2. at' = at + 1 /\ tags' = tags /\ Stack(frames, at') /\ \A isr : OneKey(frames, isr)
    BY <1>1, <2>1, StatementAlone
  <2> QED BY <1>2, <2>2
<1>4. frames' = frames /\ IF_' = IF_ /\ reset' = reset /\ pic' = pic /\ gdt' = gdt /\ tss' = tss
  BY DEF idt_setup, Quiet
<1>5. Segments'
  BY <1>2, <1>3, <1>4 DEF BootInv, Segments
<1>6. Gates'
  <2>1. GatesAt(5) = ExceptionGates
    BY DEF GatesAt, ExceptionGates
  <2>2. idt' = GatesAt(at')
    BY <2>1, <1>3 DEF idt_setup
  <2>3. idtr' = IF at' <= 4 THEN FALSE ELSE TRUE
    BY <1>3 DEF idt_setup
  <2> QED BY <2>2, <2>3 DEF Gates, GatesAt
<1>7. Controllers'
  BY <1>2, <1>3, <1>4 DEF BootInv, Controllers
<1> QED
  BY <1>2, <1>3, <1>4, <1>5, <1>6, <1>7 DEF BootInv

LEMMA PicInitBoot == BootInv /\ pic_init => BootInv'
<1> SUFFICES ASSUME BootInv, pic_init PROVE BootInv'
  OBVIOUS
<1>1. Statement("pic_init")
  BY DEF pic_init
<1>2. at = 6
  BY <1>1, StartIs DEF BootInv, Statement
<1>3. at' = 7 /\ tags' = tags /\ Stack(frames, at') /\ \A isr : OneKey(frames, isr)
  <2>1. at \in 1..10
    BY <1>2
  <2>2. at' = at + 1 /\ tags' = tags /\ Stack(frames, at') /\ \A isr : OneKey(frames, isr)
    BY <1>1, <2>1, StatementAlone
  <2> QED BY <1>2, <2>2
<1>4. frames' = frames /\ IF_' = TRUE /\ reset' = reset /\ gdt' = gdt /\ tss' = tss /\ idt' = idt
      /\ idtr' = idtr
  BY DEF pic_init, tables
<1>5. Segments'
  BY <1>2, <1>3, <1>4 DEF BootInv, Segments
<1>6. Gates'
  <2>1. GatesAt(6) = GatesAt(7)
    BY DEF GatesAt
  <2>2. idt' = GatesAt(at')
    BY <2>1, <1>2, <1>3, <1>4 DEF BootInv, Gates
  <2>3. idtr' = IF at' <= 4 THEN FALSE ELSE TRUE
    BY <1>2, <1>3, <1>4 DEF BootInv, Gates
  <2> QED BY <2>2, <2>3 DEF Gates, GatesAt
<1>7. Controllers'
  <2>1. pic \in [1..2 -> Chips]
    BY DEF BootInv, Controllers
  <2>2. pic[1] \in Chips /\ pic[2] \in Chips
    BY <2>1
  <2>3. Initialised(pic[1], IRQ0_INTERRUPT, 4)
          = [icw |-> 0, offset |-> IRQ0_INTERRUPT, mask |-> 0..7, irr |-> {}, isr |-> {}]
    BY <2>2, InitialisedIs DEF IRQ0_INTERRUPT
  <2>4. Initialised(pic[2], IRQ8_INTERRUPT, 2)
          = [icw |-> 0, offset |-> IRQ8_INTERRUPT, mask |-> 0..7, irr |-> {}, isr |-> {}]
    BY <2>2, InitialisedIs DEF IRQ8_INTERRUPT
  <2>5. pic' = [c \in 1..2 |->
                  IF c = 1
                  THEN [icw |-> 0, offset |-> IRQ0_INTERRUPT, mask |-> 0..7, irr |-> {}, isr |-> {}]
                  ELSE [icw |-> 0, offset |-> IRQ8_INTERRUPT, mask |-> 0..7, irr |-> {}, isr |-> {}]]
    <3>1. \A c \in 1..2 : c # 1 => c = 2
      OBVIOUS
    <3> QED BY <2>3, <2>4, <3>1, Zenon DEF pic_init
  <2>6. pic' \in [1..2 -> Chips]
    BY <2>5 DEF Chips, IRQ0_INTERRUPT, IRQ8_INTERRUPT
  <2>7. pic'[1] = [icw |-> 0, offset |-> IRQ0_INTERRUPT, mask |-> 0..7, irr |-> {}, isr |-> {}]
    BY <2>5
  <2> QED BY <1>3, <2>6, <2>7 DEF Controllers
<1> QED
  BY <1>2, <1>3, <1>4, <1>5, <1>6, <1>7 DEF BootInv

LEMMA UnmaskBoot == BootInv /\ pic_unmask_irq => BootInv'
<1> SUFFICES ASSUME BootInv, pic_unmask_irq PROVE BootInv'
  OBVIOUS
<1>1. Statement("pic_unmask_irq")
  BY DEF pic_unmask_irq
<1>2. at = 7
  BY <1>1, StartIs DEF BootInv, Statement
<1>3. at' = 8 /\ tags' = tags /\ Stack(frames, at') /\ \A isr : OneKey(frames, isr)
  <2>1. at \in 1..10
    BY <1>2
  <2>2. at' = at + 1 /\ tags' = tags /\ Stack(frames, at') /\ \A isr : OneKey(frames, isr)
    BY <1>1, <2>1, StatementAlone
  <2> QED BY <1>2, <2>2
<1>4. frames' = frames /\ IF_' = IF_ /\ reset' = reset /\ gdt' = gdt /\ tss' = tss /\ idt' = idt
      /\ idtr' = idtr
  BY DEF pic_unmask_irq, tables, Quiet
<1>5. Segments'
  BY <1>2, <1>3, <1>4 DEF BootInv, Segments
<1>6. Gates'
  <2>1. GatesAt(7) = GatesAt(8)
    BY DEF GatesAt
  <2>2. idt' = GatesAt(at')
    BY <2>1, <1>2, <1>3, <1>4 DEF BootInv, Gates
  <2>3. idtr' = IF at' <= 4 THEN FALSE ELSE TRUE
    BY <1>2, <1>3, <1>4 DEF BootInv, Gates
  <2> QED BY <2>2, <2>3 DEF Gates, GatesAt
<1>7. Controllers'
  <2>1. /\ pic \in [1..2 -> Chips] /\ pic[1].offset = IRQ0_INTERRUPT /\ pic[1].mask = 0..7
        /\ pic[1].isr \subseteq {KeyLine}
    BY <1>2 DEF BootInv, Controllers
  <2>2. pic' = [pic EXCEPT ![1].mask = @ \ {KeyLine}]
    BY DEF pic_unmask_irq, Unmasked, KeyLine
  <2>3. PICK chip \in Chips : chip = pic[1]
    BY <2>1
  <2>4. PICK new : new = [chip EXCEPT !.mask = @ \ {KeyLine}]
    OBVIOUS
  <2>5. /\ new \in Chips /\ new.mask = chip.mask \ {KeyLine} /\ new.isr = chip.isr
        /\ new.offset = chip.offset
    BY <2>4 DEF Chips
  <2>6. pic' = [pic EXCEPT ![1] = new]
    BY <2>2, <2>3, <2>4
  <2>7. pic' \in [1..2 -> Chips] /\ pic'[1] = new
    BY <2>1, <2>5, <2>6
  <2> QED BY <1>3, <2>1, <2>3, <2>5, <2>7 DEF Controllers
<1> QED
  BY <1>2, <1>3, <1>4, <1>5, <1>6, <1>7 DEF BootInv

LEMMA InstallBoot == BootInv /\ InstallHandlers => BootInv'
<1> SUFFICES ASSUME BootInv, InstallHandlers PROVE BootInv'
  OBVIOUS
<1>1. \/ /\ Statement("syscall_entry")
         /\ idt' = [idt EXCEPT ![128] = [present |-> TRUE, fn |-> "syscall_entry",
                                         type |-> "trap"]]
      \/ /\ Statement("keyboard_interrupt")
         /\ idt' = [idt EXCEPT ![33] = [present |-> TRUE, fn |-> "keyboard_interrupt",
                                        type |-> "trap"]]
  BY DEF InstallHandlers, idt_set_handler, IRQ1_INTERRUPT
<1>2. at \in {8, 9}
  BY <1>1, StartIs DEF BootInv, Statement
<1>3. at' = at + 1 /\ tags' = tags /\ Stack(frames, at') /\ \A isr : OneKey(frames, isr)
  <2>1. at \in 1..10
    BY <1>2
  <2> QED BY <1>1, <2>1, StatementAlone
<1>4. /\ frames' = frames /\ IF_' = IF_ /\ reset' = reset /\ gdt' = gdt /\ tss' = tss
      /\ idtr' = idtr /\ pic' = pic
  BY DEF InstallHandlers, Quiet
<1>5. Segments'
  BY <1>2, <1>3, <1>4 DEF BootInv, Segments
<1>6. Gates'
  <2>1. idt' = GatesAt(at')
    <3>1. CASE Statement("syscall_entry")
      <4>1. at = 8 /\ at' = 9
        BY <3>1, <1>3, StartIs DEF BootInv, Statement
      <4>2. idt' = [idt EXCEPT ![128] = [present |-> TRUE, fn |-> "syscall_entry",
                                         type |-> "trap"]]
        BY <4>1, <1>1, StartIs DEF Statement, BootInv
      <4>3. idt = GatesAt(8)
        BY <4>1 DEF BootInv, Gates
      <4>4. GatesAt(9) = [GatesAt(8) EXCEPT ![128] = [present |-> TRUE, fn |-> "syscall_entry",
                                                      type |-> "trap"]]
        <5>1. PICK g : g = [present |-> TRUE, fn |-> "syscall_entry", type |-> "trap"]
          OBVIOUS
        <5>2. \A v \in Vectors : v # 128 => GatesAt(9)[v] = GatesAt(8)[v]
          BY DEF GatesAt
        <5>3. 128 \in Vectors
          BY DEF Vectors
        <5>4. GatesAt(9)[128] = g
          BY <5>1, <5>3 DEF GatesAt
        <5>5. GatesAt(9) = [v \in Vectors |-> GatesAt(9)[v]]
              /\ GatesAt(8) = [v \in Vectors |-> GatesAt(8)[v]]
          BY DEF GatesAt
        <5> QED BY <5>1, <5>2, <5>3, <5>4, <5>5
      <4> QED BY <4>1, <4>2, <4>3, <4>4
    <3>2. CASE Statement("keyboard_interrupt")
      <4>1. at = 9 /\ at' = 10
        BY <3>2, <1>3, StartIs DEF BootInv, Statement
      <4>2. idt' = [idt EXCEPT ![33] = [present |-> TRUE, fn |-> "keyboard_interrupt",
                                        type |-> "trap"]]
        BY <4>1, <1>1, StartIs DEF Statement, BootInv
      <4>3. idt = GatesAt(9)
        BY <4>1 DEF BootInv, Gates
      <4>4. GatesAt(10) = [GatesAt(9) EXCEPT ![33] = [present |-> TRUE,
                                   fn |-> "keyboard_interrupt", type |-> "trap"]]
        <5>1. PICK g : g = [present |-> TRUE, fn |-> "keyboard_interrupt", type |-> "trap"]
          OBVIOUS
        <5>2. \A v \in Vectors : v # 33 => GatesAt(10)[v] = GatesAt(9)[v]
          BY DEF GatesAt
        <5>3. 33 \in Vectors
          BY DEF Vectors
        <5>4. GatesAt(10)[33] = g
          BY <5>1, <5>3 DEF GatesAt
        <5>5. GatesAt(10) = [v \in Vectors |-> GatesAt(10)[v]]
              /\ GatesAt(9) = [v \in Vectors |-> GatesAt(9)[v]]
          BY DEF GatesAt
        <5> QED BY <5>1, <5>2, <5>3, <5>4, <5>5
      <4> QED BY <4>1, <4>2, <4>3, <4>4
    <3> QED BY <1>1, <3>1, <3>2
  <2>2. idtr' = IF at' <= 4 THEN FALSE ELSE TRUE
    BY <1>2, <1>3, <1>4 DEF BootInv, Gates
  <2> QED BY <2>1, <2>2 DEF Gates, GatesAt
<1>7. Controllers'
  BY <1>2, <1>3, <1>4 DEF BootInv, Controllers
<1> QED
  BY <1>2, <1>3, <1>4, <1>5, <1>6, <1>7 DEF BootInv

LEMMA CallExecBoot == BootInv /\ CallExec => BootInv'
<1> SUFFICES ASSUME BootInv, CallExec PROVE BootInv'
  OBVIOUS
<1>1. Statement("exec") /\ Raise(128)
  BY DEF CallExec
<1>2. at = 10
  BY <1>1, StartIs DEF BootInv, Statement
<1>3. at' = 11 /\ tags' = tags /\ Stack(frames, 11) /\ Len(frames) = 1
      /\ OneKey(frames, pic[1].isr)
  <2>1. at \in 1..10
    BY <1>2
  <2>2. /\ at' = at + 1 /\ tags' = tags /\ Stack(frames, at') /\ Len(frames) = 1
        /\ \A isr : OneKey(frames, isr)
    BY <1>1, <2>1, StatementAlone
  <2> QED BY <1>2, <2>2
<1>4. gdt' = gdt /\ tss' = tss /\ idt' = idt /\ idtr' = idtr /\ pic' = pic
  BY DEF CallExec, tables
<1>5. /\ frames' = Append(frames, [code |-> Serves(at, 128), cs |-> KERNEL_CODE_SELECTOR,
                                   ss |-> HandlerSS, cause |-> 128])
      /\ IF_' \in BOOLEAN /\ reset' = reset
  <2>1. Segments /\ Gates /\ at \in 7..11 /\ IF_ \in BOOLEAN /\ 128 \in Raised /\ at > 8
    BY <1>2 DEF BootInv, Raised
  <2> QED BY <1>1, <2>1, RaiseIs
<1>6. PICK f : f = [code |-> Serves(11, 128), cs |-> KERNEL_CODE_SELECTOR, ss |-> HandlerSS,
                    cause |-> 128]
  OBVIOUS
<1>7. f.code = "syscall_entry" /\ frames' = Append(frames, f)
  <2>1. Serves(11, 128) = "syscall_entry" /\ Serves(10, 128) = "syscall_entry"
    BY DEF Serves
  <2> QED BY <1>2, <1>5, <1>6, <2>1
<1>8. f \in Contexts /\ Stack(frames', at')
  <2>1. 11 \in 7..11 /\ 128 \in Raised /\ 128 # 13
    BY DEF Raised
  <2>2. HandlerSS = IF frames[Len(frames)].code = "program" THEN 0 ELSE frames[Len(frames)].ss
    BY DEF HandlerSS, Running
  <2>3. f \in Contexts /\ Stack(Append(frames, f), 11)
    BY <2>1, <2>2, <1>3, <1>6, PushStack
  <2> QED BY <2>3, <1>3, <1>7
<1>9. OneKey(frames', pic'[1].isr)
  <2>1. frames \in Seq(Contexts)
    BY DEF BootInv, Stack
  <2> QED BY <2>1, <1>3, <1>4, <1>7, <1>8, PushKey
<1>10. Segments'
  BY <1>2, <1>3, <1>4 DEF BootInv, Segments
<1>11. Gates'
  <2>1. GatesAt(10) = GatesAt(11)
    BY DEF GatesAt
  <2>2. idt' = GatesAt(at')
    BY <2>1, <1>2, <1>3, <1>4 DEF BootInv, Gates
  <2>3. idtr' = IF at' <= 4 THEN FALSE ELSE TRUE
    BY <1>2, <1>3, <1>4 DEF BootInv, Gates
  <2> QED BY <2>2, <2>3 DEF Gates, GatesAt
<1>12. Controllers'
  BY <1>2, <1>3, <1>4 DEF BootInv, Controllers
<1> QED
  BY <1>2, <1>3, <1>5, <1>8, <1>9, <1>10, <1>11, <1>12 DEF BootInv

\* What runs above _start, and the programs, leave the tables and the statement alone.
LEMMA SameTables ==
    ASSUME BootInv, UNCHANGED <<at, tables, tags>>
    PROVE  Segments' /\ Gates' /\ at' = at /\ tags' \in TagSets
<1>1. at' = at /\ gdt' = gdt /\ tss' = tss /\ idt' = idt /\ idtr' = idtr /\ tags' = tags
  BY DEF tables
<1>2. Segments'
  BY <1>1 DEF BootInv, Segments
<1>3. Gates'
  <2>1. idt' = GatesAt(at')
    BY <1>1 DEF BootInv, Gates
  <2>2. idtr' = IF at' <= 4 THEN FALSE ELSE TRUE
    BY <1>1 DEF BootInv, Gates
  <2> QED BY <2>1, <2>2 DEF Gates, GatesAt
<1> QED
  BY <1>1, <1>2, <1>3 DEF BootInv

\* A context that is no program's and not _start's has been pushed.
LEMMA RunningPushed ==
    ASSUME BootInv, Running.code \notin {"_start", "program"}
    PROVE  /\ Len(frames) > 1 /\ at \in 7..11
           /\ Running.code = "syscall_entry" => at = 11 /\ Running.cause = 128
           /\ Running.code = "keyboard_interrupt" => Running.cause = 33
<1>1. Len(frames) \in Nat /\ Len(frames) >= 1 /\ frames[1].code \in {"_start", "program"}
  BY DEF BootInv, Stack, Bottom
<1>2. Len(frames) > 1
  BY <1>1 DEF Running
<1>3. at \in 7..11
  BY <1>2 DEF BootInv, Stack
<1>4. Len(frames) \in 2..Len(frames)
  <2>1. \A k \in Nat : k > 1 => k \in 2..k
    OBVIOUS
  <2> QED BY <1>1, <1>2, <2>1
<1>5. /\ Running.cause \in Raised
      /\ Running.code \in {Serves(at, Running.cause), "iretq"}
      /\ Running.cause = 128 => at = 11
  BY <1>4 DEF BootInv, Stack, Pushed, Running
<1>6. Running.code = "syscall_entry" => Running.cause = 128
  BY <1>5 DEF Raised, Serves
<1>7. Running.code = "keyboard_interrupt" => Running.cause = 33
  BY <1>5 DEF Raised, Serves
<1> QED
  BY <1>2, <1>3, <1>5, <1>6, <1>7

\* Raise pushes the context of the handler, and nothing else of BootInv changes.
LEMMA RaiseBoot ==
    ASSUME BootInv, UNCHANGED <<at, tables, tags>>, at \in 7..11,
           NEW v \in Raised, v = 128 => at = 11, Raise(v),
           v = 13 => Faulting(frames, Len(frames)),
           Controllers', pic[1].isr \subseteq pic'[1].isr,
           v = 33 => KeyLine \notin pic[1].isr /\ KeyLine \in pic'[1].isr
    PROVE  BootInv'
<1>1. Segments' /\ Gates' /\ at' = at /\ tags' \in TagSets
  BY SameTables
<1>2. /\ frames' = Append(frames, [code |-> Serves(at, v), cs |-> KERNEL_CODE_SELECTOR,
                                   ss |-> HandlerSS, cause |-> v])
      /\ IF_' \in BOOLEAN /\ reset' = reset
  <2>1. Segments /\ Gates /\ IF_ \in BOOLEAN /\ (v = 128 => at > 8)
    BY DEF BootInv
  <2> QED BY <2>1, RaiseIs
<1>3. PICK f : f = [code |-> Serves(at, v), cs |-> KERNEL_CODE_SELECTOR, ss |-> HandlerSS,
                    cause |-> v]
  OBVIOUS
<1>4. frames' = Append(frames, f)
  BY <1>2, <1>3
<1>5. f \in Contexts /\ Stack(frames', at')
  <2>1. Stack(frames, at)
    BY DEF BootInv
  <2>2. HandlerSS = IF frames[Len(frames)].code = "program" THEN 0 ELSE frames[Len(frames)].ss
    BY DEF HandlerSS, Running
  <2>3. f \in Contexts /\ Stack(Append(frames, f), at)
    BY <1>3, <2>1, <2>2, PushStack
  <2> QED BY <2>3, <1>1, <1>4
<1>6. f.code = "keyboard_interrupt" => v = 33
  BY <1>3 DEF Raised, Serves
<1>7. OneKey(frames', pic'[1].isr)
  <2>1. frames \in Seq(Contexts) /\ OneKey(frames, pic[1].isr)
    BY DEF BootInv, Stack
  <2> QED BY <2>1, <1>4, <1>5, <1>6, PushKey
<1> QED
  BY <1>1, <1>2, <1>5, <1>7 DEF BootInv

LEMMA KeyboardHandlerBoot == BootInv /\ KeyboardHandler => BootInv'
<1> SUFFICES ASSUME BootInv, KeyboardHandler PROVE BootInv'
  OBVIOUS
<1>1. /\ Running.code = "keyboard_interrupt" /\ Finish /\ pic' = SendEoi(pic)
      /\ IF_' = IF_ /\ reset' = reset /\ UNCHANGED <<at, tables, tags>>
  BY DEF KeyboardHandler
<1>2. Segments' /\ Gates' /\ at' = at /\ tags' \in TagSets
  BY <1>1, SameTables
<1>3. Len(frames) > 1 /\ at \in 7..11 /\ frames[Len(frames)].cause \in {33, 128}
  BY <1>1, RunningPushed DEF Running
<1>4. /\ Stack(frames', at)
      /\ Len(frames') = Len(frames)
      /\ frames'[Len(frames)].code = "iretq"
      /\ \A k \in 1..(Len(frames) - 1) : frames'[k] = frames[k]
  <2>1. Stack(frames, at)
    BY DEF BootInv
  <2> QED BY <1>1, <1>3, <2>1, FinishStack
<1>5. Controllers'
  <2>1. /\ pic \in [1..2 -> Chips] /\ pic[1].isr \subseteq {KeyLine}
        /\ at > 6 => pic[1].offset = IRQ0_INTERRUPT
        /\ at = 7 => pic[1].mask = 0..7
        /\ at > 7 => pic[1].mask = 0..7 \ {KeyLine}
    BY DEF BootInv, Controllers
  <2>2. pic' = [pic EXCEPT ![1] = [@ EXCEPT !.isr = {}]]
    BY <1>1, <2>1, EoiIs
  <2>3. PICK chip \in Chips : chip = pic[1]
    BY <2>1
  <2>4. PICK new : new = [chip EXCEPT !.isr = {}]
    OBVIOUS
  <2>5. new \in Chips /\ new.mask = chip.mask /\ new.isr = {} /\ new.offset = chip.offset
    BY <2>4 DEF Chips
  <2>6. pic' = [pic EXCEPT ![1] = new]
    BY <2>2, <2>3, <2>4
  <2>7. pic' \in [1..2 -> Chips] /\ pic'[1] = new
    BY <2>1, <2>5, <2>6
  <2> QED BY <1>2, <2>1, <2>3, <2>5, <2>7 DEF Controllers
<1>6. OneKey(frames', pic'[1].isr)
  <2>1. Len(frames) \in Nat /\ Len(frames) \in 1..Len(frames)
    BY <1>3 DEF BootInv, Stack
  <2>2. \A k \in 1..Len(frames) : frames[k].code = "keyboard_interrupt" => k = Len(frames)
    BY <1>1, <2>1 DEF BootInv, OneKey, Running
  <2>3. \A k \in 1..Len(frames') : frames'[k].code # "keyboard_interrupt"
    <3> SUFFICES ASSUME NEW k \in 1..Len(frames), frames'[k].code = "keyboard_interrupt"
                 PROVE  FALSE
      BY <1>4
    <3>1. k # Len(frames)
      BY <1>4
    <3>2. k \in 1..(Len(frames) - 1)
      BY <3>1, <2>1
    <3> QED BY <3>1, <3>2, <1>4, <2>2
  <2> QED BY <2>3 DEF OneKey
<1> QED
  BY <1>1, <1>2, <1>4, <1>5, <1>6 DEF BootInv

LEMMA SyscallBoot == BootInv /\ SyscallReturns => BootInv'
<1> SUFFICES ASSUME BootInv, SyscallReturns PROVE BootInv'
  OBVIOUS
<1>1. Running.code = "syscall_entry" /\ UNCHANGED <<at, tables, tags>> /\ pic' = pic
  BY DEF SyscallReturns
<1>2. Segments' /\ Gates' /\ at' = at /\ tags' \in TagSets
  BY <1>1, SameTables
<1>3. Len(frames) > 1 /\ at \in 7..11 /\ frames[Len(frames)].cause \in {33, 128}
  BY <1>1, RunningPushed DEF Running
<1>4. Controllers'
  BY <1>1, <1>2 DEF BootInv, Controllers
<1>5. CASE Finish /\ UNCHANGED <<IF_, reset>>
  <2>1. /\ Stack(frames', at)
        /\ Len(frames') = Len(frames)
        /\ frames'[Len(frames)].code = "iretq"
        /\ \A k \in 1..(Len(frames) - 1) : frames'[k] = frames[k]
    <3>1. Stack(frames, at)
      BY DEF BootInv
    <3> QED BY <1>3, <1>5, <3>1, FinishStack
  <2>2. OneKey(frames', pic'[1].isr)
    <3>1. Len(frames) \in Nat
      BY DEF BootInv, Stack
    <3>2. ASSUME NEW k \in 1..Len(frames'), frames'[k].code = "keyboard_interrupt"
          PROVE  k \in 1..Len(frames) /\ frames[k].code = "keyboard_interrupt"
      <4>1. k # Len(frames) /\ k \in 1..Len(frames)
        BY <3>2, <2>1
      <4>2. k \in 1..(Len(frames) - 1)
        BY <4>1, <3>1
      <4> QED BY <4>1, <4>2, <3>2, <2>1
    <3>3. OneKey(frames, pic[1].isr)
      BY DEF BootInv
    <3> QED BY <3>2, <3>3, <1>1, SameKeys
  <2> QED BY <1>2, <1>4, <1>5, <2>1, <2>2 DEF BootInv
<1>6. CASE Raise(14)
  <2>1. 14 \in Raised
    BY DEF Raised
  <2>2. pic[1].isr \subseteq pic'[1].isr
    BY <1>1
  <2> QED BY <1>1, <1>3, <1>4, <1>6, <2>1, <2>2, RaiseBoot
<1> QED
  BY <1>5, <1>6 DEF SyscallReturns

LEMMA UsermodeBoot == BootInv /\ usermode_entry => BootInv'
<1> SUFFICES ASSUME BootInv, usermode_entry PROVE BootInv'
  OBVIOUS
<1>1. Running.code = "syscall_entry" /\ UNCHANGED <<at, tables, tags>> /\ pic' = pic
  BY DEF usermode_entry
<1>2. Segments' /\ Gates' /\ at' = at /\ tags' \in TagSets
  BY <1>1, SameTables
<1>3. at = 11
  BY <1>1, RunningPushed
<1>4. Controllers'
  BY <1>1, <1>2 DEF BootInv, Controllers
<1>5. /\ Program.code = "program" /\ Program \in Contexts
      /\ Program.cs = USER_CODE_SELECTOR /\ Program.ss = USER_DATA_SELECTOR
  BY DEF Program, Contexts, Codes, Vectors, USER_CODE_SELECTOR, USER_DATA_SELECTOR
<1>6. Loaded(USER_DATA_SELECTOR, "data", TRUE) /\ Returnable(Program)
  <2>1. Segments /\ at \in 4..11
    BY <1>3 DEF BootInv
  <2> QED BY <1>5, <2>1, SegmentsLoaded, ReturnableIs
<1>7. frames' = <<Program>> /\ IF_' = IF_ /\ reset' = reset
  BY <1>6 DEF usermode_entry
<1>8. /\ frames' \in Seq(Contexts) /\ Len(frames') = 1 /\ frames'[1].code = "program"
      /\ frames'[1].cs = USER_CODE_SELECTOR /\ frames'[1].ss = USER_DATA_SELECTOR
  BY <1>5, <1>7
<1>9. Stack(frames', 11)
  BY <1>8 DEF Stack, Bottom, Pushed, Returning
<1>10. OneKey(frames', pic'[1].isr)
  BY <1>8 DEF OneKey
<1> QED
  BY <1>2, <1>3, <1>4, <1>7, <1>9, <1>10 DEF BootInv

LEMMA IretBoot == BootInv /\ Iret => BootInv'
<1> SUFFICES ASSUME BootInv, Iret PROVE BootInv'
  OBVIOUS
<1> DEFINE below == frames[Len(frames) - 1]
<1>1. Running.code = "iretq" /\ UNCHANGED <<at, tables, tags>> /\ pic' = pic
  BY DEF Iret
<1>2. Segments' /\ Gates' /\ at' = at /\ tags' \in TagSets
  BY <1>1, SameTables
<1>3. Len(frames) > 1 /\ at \in 7..11 /\ Len(frames) \in Nat
  <2>1. Running.code \notin {"_start", "program"}
    BY <1>1
  <2>2. Len(frames) > 1 /\ at \in 7..11
    BY <2>1, RunningPushed
  <2> QED BY <2>2 DEF BootInv, Stack
<1>4. Controllers'
  BY <1>1, <1>2 DEF BootInv, Controllers
<1>5. CASE Returnable(below)
  <2>1. frames' = Front(frames) /\ IF_' = IF_ /\ reset' = reset
    BY <1>5 DEF Iret
  <2>2. /\ Stack(frames', at)
        /\ Len(frames') = Len(frames) - 1
        /\ \A k \in 1..(Len(frames) - 1) : frames'[k] = frames[k]
    <3>1. Stack(frames, at)
      BY DEF BootInv
    <3>2. PICK fs, gs, n : fs = frames /\ gs = frames' /\ n = at
      OBVIOUS
    <3>3. Stack(fs, n) /\ Len(fs) > 1 /\ gs = Front(fs)
      BY <1>3, <2>1, <3>1, <3>2
    <3>4. /\ Stack(gs, n)
          /\ Len(gs) = Len(fs) - 1
          /\ \A k \in 1..(Len(fs) - 1) : gs[k] = fs[k]
      BY <3>3, PopStack
    <3> QED BY <3>2, <3>4
  <2>3. OneKey(frames', pic'[1].isr)
    <3>1. \A k \in 1..Len(frames') : k \in 1..Len(frames) /\ frames'[k] = frames[k]
      BY <2>2, <1>3
    <3>2. OneKey(frames, pic[1].isr)
      BY DEF BootInv
    <3> QED BY <3>1, <3>2, <1>1, SameKeys
  <2> QED BY <1>2, <1>4, <2>1, <2>2, <2>3 DEF BootInv
<1>6. CASE ~Returnable(below)
  <2>1. Raise(13)
    BY <1>6 DEF Iret
  <2>2. frames[1].code = "_start"
    <3> SUFFICES ASSUME frames[1].code # "_start" PROVE FALSE
      OBVIOUS
    <3>1. /\ frames[1].code = "program"
          /\ frames[1].cs = USER_CODE_SELECTOR /\ frames[1].ss = USER_DATA_SELECTOR
      BY DEF BootInv, Stack, Bottom
    <3>2. Segments /\ at \in 4..11
      BY <1>3 DEF BootInv
    <3>3. CASE Len(frames) - 1 = 1
      BY <3>1, <3>2, <3>3, <1>6, ReturnableIs
    <3>4. CASE Len(frames) - 1 \in 2..Len(frames)
      <4>1. /\ below.cs = KERNEL_CODE_SELECTOR /\ below.ss = 0
            /\ below.cause \in Raised
            /\ below.code \in {Serves(at, below.cause), "iretq"}
        BY <3>1, <3>4 DEF BootInv, Stack, Pushed
      <4>2. below.code # "program"
        BY <4>1 DEF Raised, Serves
      <4> QED BY <4>1, <4>2, <3>2, <1>6, ReturnableIs
    <3>5. Len(frames) - 1 = 1 \/ Len(frames) - 1 \in 2..Len(frames)
      <4>1. \A k \in Nat : k > 1 => k - 1 = 1 \/ k - 1 \in 2..k
        OBVIOUS
      <4> QED BY <4>1, <1>3
    <3> QED BY <3>3, <3>4, <3>5
  <2>3. Faulting(frames, Len(frames))
    BY <1>1, <2>2 DEF Faulting, Running
  <2>4. 13 \in Raised
    BY DEF Raised
  <2>5. pic[1].isr \subseteq pic'[1].isr
    BY <1>1
  <2> QED BY <1>1, <1>3, <1>4, <2>1, <2>3, <2>4, <2>5, RaiseBoot
<1> QED
  BY <1>5, <1>6

LEMMA RequestBoot == BootInv /\ (\E line \in Lines : Request(line)) => BootInv'
<1> SUFFICES ASSUME BootInv, NEW line \in Lines, Request(line) PROVE BootInv'
  OBVIOUS
<1>1. /\ pic' = [pic EXCEPT ![1].irr = @ \cup {line}]
      /\ UNCHANGED <<at, tables, tags>> /\ frames' = frames /\ IF_' = IF_ /\ reset' = reset
  BY DEF Request
<1>2. Segments' /\ Gates' /\ at' = at /\ tags' \in TagSets
  BY <1>1, SameTables
<1>3. /\ pic \in [1..2 -> Chips] /\ pic[1].isr \subseteq {KeyLine}
      /\ at > 6 => pic[1].offset = IRQ0_INTERRUPT
      /\ at = 7 => pic[1].mask = 0..7
      /\ at > 7 => pic[1].mask = 0..7 \ {KeyLine}
  BY DEF BootInv, Controllers
<1>4. PICK chip \in Chips : chip = pic[1]
  BY <1>3
<1>5. PICK new : new = [chip EXCEPT !.irr = @ \cup {line}]
  OBVIOUS
<1>6. new \in Chips /\ new.mask = chip.mask /\ new.isr = chip.isr /\ new.offset = chip.offset
  BY <1>5, BootAssumption DEF Chips
<1>7. pic' = [pic EXCEPT ![1] = new]
  BY <1>1, <1>4, <1>5
<1>8. pic' \in [1..2 -> Chips] /\ pic'[1] = new
  BY <1>3, <1>6, <1>7
<1>9. Controllers'
  BY <1>2, <1>3, <1>4, <1>6, <1>8 DEF Controllers
<1>10. OneKey(frames', pic'[1].isr)
  BY <1>1, <1>4, <1>6, <1>8 DEF BootInv
<1> QED
  BY <1>1, <1>2, <1>9, <1>10 DEF BootInv

LEMMA DeliverBoot == BootInv /\ (\E line \in Lines : Deliver(line)) => BootInv'
<1> SUFFICES ASSUME BootInv, NEW line \in Lines, Deliver(line) PROVE BootInv'
  OBVIOUS
<1>1. /\ pic' = [pic EXCEPT ![1] = Acknowledged(@, line)]
      /\ UNCHANGED <<at, tables, tags>>
      /\ IF_ /\ line \in pic[1].irr \ pic[1].mask /\ pic[1].isr \cap 0..line = {}
      /\ Raise(pic[1].offset + line)
  BY DEF Deliver
<1>2. Segments' /\ Gates' /\ at' = at /\ tags' \in TagSets
  BY <1>1, SameTables
<1>3. at \in 7..11
  <2>1. ~(at <= 6)
    BY <1>1, Zenon DEF BootInv
  <2> QED BY <2>1 DEF BootInv
<1>4. /\ pic \in [1..2 -> Chips] /\ pic[1].isr \subseteq {KeyLine}
      /\ pic[1].offset = IRQ0_INTERRUPT
      /\ at = 7 => pic[1].mask = 0..7
      /\ at > 7 => pic[1].mask = 0..7 \ {KeyLine}
  BY <1>3 DEF BootInv, Controllers
<1>5. PICK chip \in Chips : chip = pic[1]
  BY <1>4
<1>6. line = KeyLine /\ at > 7
  <2>1. line \in 0..7 /\ line \notin chip.mask
    BY <1>1, <1>5 DEF Chips
  <2> QED BY <2>1, <1>3, <1>4, <1>5
<1>7. KeyLine \notin pic[1].isr
  BY <1>1, <1>6 DEF KeyLine
<1>8. PICK mid : mid = [chip EXCEPT !.irr = @ \ {line}]
  OBVIOUS
<1>9. /\ mid \in Chips /\ mid.mask = chip.mask /\ mid.isr = chip.isr
      /\ mid.offset = chip.offset
  BY <1>8 DEF Chips
<1>10. PICK new : new = [mid EXCEPT !.isr = @ \cup {line}]
  OBVIOUS
<1>11. /\ new \in Chips /\ new.mask = chip.mask /\ new.isr = chip.isr \cup {line}
       /\ new.offset = chip.offset
  BY <1>9, <1>10, BootAssumption DEF Chips
<1>12. pic' = [pic EXCEPT ![1] = new]
  <2>1. Acknowledged(chip, line) = new
    BY <1>8, <1>10, Zenon DEF Acknowledged
  <2> QED BY <2>1, <1>1, <1>5, Zenon
<1>13. pic' \in [1..2 -> Chips] /\ pic'[1] = new
  BY <1>4, <1>11, <1>12
<1>14. Controllers'
  BY <1>2, <1>4, <1>5, <1>6, <1>11, <1>13 DEF Controllers
<1>15. pic[1].isr \subseteq pic'[1].isr /\ KeyLine \in pic'[1].isr
  BY <1>5, <1>6, <1>11, <1>13
<1>16. Raise(33)
  <2>1. pic[1].offset + line = 33
    BY <1>4, <1>6 DEF KeyLine, IRQ0_INTERRUPT
  <2> QED BY <1>1, <2>1
<1>17. 33 \in Raised
  BY DEF Raised
<1> QED
  BY <1>1, <1>3, <1>7, <1>14, <1>15, <1>16, <1>17, RaiseBoot

LEMMA ProgramBoot == BootInv /\ (\E v \in ProgramVectors : ProgramRaises(v)) => BootInv'
<1> SUFFICES ASSUME BootInv, NEW v \in ProgramVectors, ProgramRaises(v) PROVE BootInv'
  OBVIOUS
<1>1. Running.code = "program" /\ Raise(v) /\ UNCHANGED <<at, tables, tags>> /\ pic' = pic
  BY DEF ProgramRaises
<1>2. v \in Raised /\ v # 33
  BY DEF ProgramVectors, Raised
<1>3. Len(frames) = 1 /\ at = 11
  <2>1. Len(frames) \in Nat /\ Len(frames) >= 1
    BY DEF BootInv, Stack
  <2>2. Len(frames) \notin 2..Len(frames)
    <3> SUFFICES ASSUME Len(frames) \in 2..Len(frames) PROVE FALSE
      OBVIOUS
    <3>1. /\ Running.cause \in Raised
          /\ Running.code \in {Serves(at, Running.cause), "iretq"}
      BY DEF BootInv, Stack, Pushed, Running
    <3>2. Serves(at, Running.cause) # "program"
      BY <3>1 DEF Raised, Serves
    <3> QED BY <3>1, <3>2, <1>1
  <2>3. Len(frames) = 1
    <3>1. \A k \in Nat : k >= 1 /\ k \notin 2..k => k = 1
      OBVIOUS
    <3> QED BY <3>1, <2>1, <2>2
  <2> QED BY <2>3, <1>1 DEF BootInv, Stack, Bottom, Running
<1>4. Controllers'
  <2>1. at' = at
    BY <1>1
  <2> QED BY <1>1, <2>1 DEF BootInv, Controllers
<1>5. pic[1].isr \subseteq pic'[1].isr
  BY <1>1
<1>6. at \in 7..11 /\ Faulting(frames, Len(frames))
  BY <1>1, <1>3 DEF Faulting, Running
<1> QED
  BY <1>1, <1>2, <1>3, <1>4, <1>5, <1>6, RaiseBoot

LEMMA NextBoot == BootInv /\ [Next]_vars => BootInv'
<1> SUFFICES ASSUME BootInv, [Next]_vars PROVE BootInv'
  OBVIOUS
<1>1. CASE KernelStep
  BY <1>1, PrepareBoot, GdtSetupBoot, IdtSetupBoot, PicInitBoot, UnmaskBoot, InstallBoot,
     CallExecBoot, KeyboardHandlerBoot, SyscallBoot, UsermodeBoot, IretBoot DEF KernelStep
<1>2. CASE \E line \in Lines : Request(line)
  BY <1>2, RequestBoot
<1>3. CASE \E line \in Lines : Deliver(line)
  BY <1>3, DeliverBoot
<1>4. CASE \E v \in ProgramVectors : ProgramRaises(v)
  BY <1>4, ProgramBoot
<1>5. CASE UNCHANGED vars
  <2>1. UNCHANGED <<at, tables, tags>> /\ frames' = frames /\ IF_' = IF_ /\ pic' = pic
        /\ reset' = reset
    BY <1>5 DEF vars
  <2>2. Segments' /\ Gates' /\ at' = at /\ tags' \in TagSets
    BY <2>1, SameTables
  <2>3. Controllers'
    BY <2>1, <2>2 DEF BootInv, Controllers
  <2> QED BY <2>1, <2>2, <2>3 DEF BootInv
<1> QED
  BY <1>1, <1>2, <1>3, <1>4, <1>5 DEF Next
-----------------------------------------------------------------------------
(***************************************************************************)
(* The theorems.                                                           *)
(***************************************************************************)

(***************************************************************************)
(* The tables, masks and contexts are at every moment the ones of the      *)
(* statement that _start has reached, whatever interrupts come.            *)
(***************************************************************************)
THEOREM BootAlways == Spec => []BootInv
  BY InitBoot, NextBoot, PTL DEF Spec

(***************************************************************************)
(* The types of _start's state, and lgdt's limit is the last byte of the   *)
(* table that gdt.c has filled.                                            *)
(***************************************************************************)
THEOREM TypeCorrect == Spec => []TypeOK
<1>1. BootInv => TypeOK
  <2> SUFFICES ASSUME BootInv PROVE TypeOK
    OBVIOUS
  <2>1. at \in 1..Len(start)
    BY StartIs DEF BootInv
  <2>2. frames \in Seq(Contexts) /\ Len(frames) >= 1
    BY DEF BootInv, Stack
  <2>3. frames # <<>>
    BY <2>2, EmptySeq
  <2>4. ASSUME NEW f \in ToSet(frames) PROVE f.cause \in Vectors
    <3>1. PICK k \in 1..Len(frames) : f = frames[k]
      BY <2>2 DEF ToSet
    <3>2. f \in Contexts
      BY <2>2, <3>1, ElementOfSeq
    <3> QED BY <3>2 DEF Contexts
  <2>5. IF_ \in BOOLEAN /\ reset \in BOOLEAN
    BY Zenon DEF BootInv
  <2>6. idtr \in BOOLEAN
    BY Zenon DEF BootInv, Gates
  <2>7. gdt.limit + 1 \in {0, gdt.size}
    BY FullTableIs DEF BootInv, Segments
  <2>8. ASSUME NEW c \in 1..2
        PROVE  pic[c].icw \in {0, 2, 3, 4} /\ pic[c].isr \cup pic[c].irr \subseteq 0..7
    <3>1. pic[c] \in Chips
      BY DEF BootInv, Controllers
    <3> QED BY <3>1 DEF Chips
  <2> QED BY <2>1, <2>3, <2>4, <2>5, <2>6, <2>7, <2>8 DEF TypeOK
<1> QED
  BY <1>1, BootAlways, PTL

(***************************************************************************)
(* gdt_setup, idt_setup and pic_init come in an order in which no          *)
(* interrupt finds the processor without a gate, a segment or a stack: the *)
(* machine is never reset.                                                 *)
(***************************************************************************)
THEOREM NoTripleFault == Spec => []NeverReset
<1>1. BootInv => NeverReset
  BY Zenon DEF BootInv, NeverReset
<1> QED
  BY <1>1, BootAlways, PTL

(***************************************************************************)
(* keyboard_interrupt does not interrupt itself, however fast keys come:   *)
(* its line is in service until the EOI that ends it.                      *)
(***************************************************************************)
THEOREM KeysDoNotNest == Spec => []HandlerNotReentered
<1>1. BootInv => HandlerNotReentered
  BY DEF BootInv, OneKey, HandlerNotReentered
<1> QED
  BY <1>1, BootAlways, PTL

(***************************************************************************)
(* The gates of idt_setup and _start and the masks of pic.c bring every    *)
(* interrupt to its handler and no other interrupt through, and the two    *)
(* without a gate, a division by zero and a key that comes before          *)
(* idt_set_handler, stop in the handler of a fault.                        *)
(***************************************************************************)
THEOREM Served == Spec => []ServedByItsHandler
<1>1. BootInv => ServedByItsHandler
  <2> SUFFICES ASSUME BootInv, NEW k \in 2..Len(frames)
               PROVE  \/ frames[k].code = Handler(frames[k].cause)
                      \/ frames[k].code = "iretq" /\ frames[k].cause \in {IRQ1_INTERRUPT, 128}
                      \/ frames[k].code \in {"GP", "DF"} /\ ~idt[frames[k].cause].present
    BY DEF ServedByItsHandler
  <2>1. /\ frames[k].cause \in Raised
        /\ \/ frames[k].code = Serves(at, frames[k].cause)
           \/ frames[k].code = "iretq" /\ frames[k].cause \in {33, 128}
    BY DEF BootInv, Stack, Pushed
  <2>2. at \in 7..11
    BY DEF BootInv, Stack
  <2>3. /\ idt[0].present = FALSE
        /\ at <= 9 => idt[33].present = FALSE
    <3>1. 0 \in Vectors /\ 33 \in Vectors
      BY DEF Vectors
    <3> QED BY <2>2, <3>1 DEF BootInv, Gates, GatesAt, Absent
  <2>4. CASE frames[k].code = Serves(at, frames[k].cause)
    <3>1. CASE frames[k].cause = 0
      <4>1. frames[k].code = "DF"
        BY <2>4, <3>1 DEF Serves
      <4> QED BY <4>1, <3>1, <2>3
    <3>2. CASE frames[k].cause = 33 /\ at <= 9
      <4>1. frames[k].code = "GP"
        BY <2>2, <2>4, <3>2 DEF Serves
      <4> QED BY <4>1, <3>2, <2>3
    <3>3. CASE frames[k].cause = 33 /\ at > 9
      BY <2>4, <3>3 DEF Serves, Handler, IRQ1_INTERRUPT
    <3>4. CASE frames[k].cause \in {6, 13, 14, 128}
      BY <2>4, <3>4 DEF Serves, Handler, IRQ1_INTERRUPT
    <3> QED BY <2>1, <2>2, <3>1, <3>2, <3>3, <3>4 DEF Raised
  <2> QED BY <2>1, <2>4 DEF IRQ1_INTERRUPT
<1> QED
  BY <1>1, BootAlways, PTL

(***************************************************************************)
(* Every iretq and every usermode_entry finds its selectors in the         *)
(* kernel's table once a program runs: a program gets the processor back   *)
(* from every system call and every key.                                   *)
(***************************************************************************)
THEOREM ProgramsResume == Spec => []ReturnsToPrograms
<1>1. BootInv => ReturnsToPrograms
  BY DEF BootInv, Stack, Returning, Faulting, ReturnsToPrograms
<1> QED
  BY <1>1, BootAlways, PTL
=============================================================================
