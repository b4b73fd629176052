-------------------------------- MODULE Boot --------------------------------
(***************************************************************************)
(* From _start to user mode: the descriptor tables (gdt.c, interrupts.c),  *)
(* the interrupt controllers (pic.c), the order in which kernel/boot.c     *)
(* sets them up, and the interrupts that arrive meanwhile and afterwards.  *)
(*                                                                         *)
(* frames is the processor's stack of contexts, the running one last: an   *)
(* interrupt pushes one, iretq pops it.  Descriptors are kept by what the  *)
(* processor looks at: their kind, and the handler's name for its address. *)
(* What a system call does is in the other modules; here it returns,       *)
(* faults, or starts a program.                                            *)
(***************************************************************************)
EXTENDS Integers, Sequences, SequencesExt

CONSTANTS
    BootSelectors,  \* values of CS and SS that the boot loader may leave
    TagSets,        \* the sets of tags that it may pass
    Lines,          \* the interrupt lines of the primary controller in use
    MaxKeys         \* bound: keys pressed

KeyLine == 1

ASSUME BootAssumption ==
    /\ BootSelectors \subseteq [cs : Nat, ss : Nat]
    /\ \A tags \in TagSets : {"hhdm", "memmap"} \subseteq tags
    /\ Lines \subseteq 0..7 /\ KeyLine \in Lines
    /\ MaxKeys \in Nat

VARIABLES
    at,          \* the statement of _start
    frames,      \* the contexts on the processor, the running one last
    IF_,         \* the interrupt flag
    gdt,         \* the segment descriptors: table, gdt_size, and what lgdt loaded
    tss,         \* the task state: rsp0, and the selector that ltr loaded
    idt, idtr,   \* the gates, and whether lidt has loaded them
    pic,         \* the two interrupt controllers
    tags,        \* the boot loader's tags
    pressed,     \* keys pressed
    reset        \* a triple fault has reset the machine

tables == <<gdt, tss, idt, idtr>>
vars == <<at, frames, IF_, tables, pic, tags, pressed, reset>>

Running == frames[Len(frames)]
-----------------------------------------------------------------------------
(***************************************************************************)
(* gdt.c.                                                                  *)
(***************************************************************************)
KERNEL_CODE_SELECTOR == 8
KERNEL_DATA_SELECTOR == 16
USER_CODE_SELECTOR == 24
USER_DATA_SELECTOR == 32
TSS_SELECTOR == 40
Offsets == {8 * k : k \in 0..31}

Grow(size, end) == IF size < end THEN end ELSE size

gdt_code_descriptor(g, offset, user) ==
    [table |-> [g.table EXCEPT ![offset] = [kind |-> "code", user |-> user]],
     size |-> Grow(g.size, offset + 8)]

gdt_data_descriptor(g, offset, user) ==
    [table |-> [g.table EXCEPT ![offset] = [kind |-> "data", user |-> user]],
     size |-> Grow(g.size, offset + 8)]

\* A system descriptor is twice as long.
gdt_tss_descriptor(g, offset) ==
    [table |-> [g.table EXCEPT ![offset] = [kind |-> "tss", user |-> FALSE],
                               ![offset + 8] = [kind |-> "tss", user |-> FALSE]],
     size |-> Grow(g.size, offset + 16)]

NullTable == [table |-> [o \in Offsets |-> [kind |-> "null", user |-> FALSE]], size |-> 0]

\* Mutant: the user's code descriptor is the kernel's.
FullTableKernel ==
    LET k1 == gdt_code_descriptor(NullTable, KERNEL_CODE_SELECTOR, FALSE)
        k2 == gdt_data_descriptor(k1, KERNEL_DATA_SELECTOR, FALSE)
        u1 == gdt_code_descriptor(k2, USER_CODE_SELECTOR, FALSE)
        u2 == gdt_data_descriptor(u1, USER_DATA_SELECTOR, TRUE)
    IN  gdt_tss_descriptor(u2, TSS_SELECTOR)

FullTable ==
    LET k1 == gdt_code_descriptor(NullTable, KERNEL_CODE_SELECTOR, FALSE)
        k2 == gdt_data_descriptor(k1, KERNEL_DATA_SELECTOR, FALSE)
        u1 == gdt_code_descriptor(k2, USER_CODE_SELECTOR, TRUE)
        u2 == gdt_data_descriptor(u1, USER_DATA_SELECTOR, TRUE)
    IN  gdt_tss_descriptor(u2, TSS_SELECTOR)

\* Does the loaded table hold this kind of descriptor at this selector?
Loaded(selector, kind, user) ==
    /\ gdt.limit >= selector + 7
    /\ gdt.table[selector] = [kind |-> kind, user |-> user]
-----------------------------------------------------------------------------
(***************************************************************************)
(* interrupts.c.                                                           *)
(***************************************************************************)
Vectors == 0..21 \cup 32..47 \cup {128}
IRQ0_INTERRUPT == 32
IRQ1_INTERRUPT == 33
IRQ8_INTERRUPT == 40

\* handler0 to handler20, by the exception they report.  Each halts.
handlers == <<"DB", "NMI", "BP", "OF", "BR", "UD", "NM", "DF", "CSO", "TS", "NP", "SS",
              "GP", "PF", "reserved", "MF", "AC", "MC", "XM", "VE", "CP">>

Absent == [present |-> FALSE, fn |-> "none", type |-> "none"]

idt_set_handler(table, index, fn, type) ==
    [table EXCEPT ![index] = [present |-> TRUE, fn |-> fn, type |-> type]]

\* Mutant: the handlers are numbered from vector 0.
ExceptionGatesFromZero ==
    [v \in Vectors |-> IF v \in 0..20 THEN [present |-> TRUE, fn |-> handlers[v + 1], type |-> "trap"]
                       ELSE Absent]

\* idt_setup's table: zeroed, then vectors 1 to 21; only NMI is not a trap gate.
ExceptionGates ==
    [v \in Vectors |-> IF v \in 1..21
                       THEN [present |-> TRUE, fn |-> handlers[v],
                             type |-> IF v = 2 THEN "interrupt" ELSE "trap"]
                       ELSE Absent]
-----------------------------------------------------------------------------
(***************************************************************************)
(* The 8259 interrupt controllers, and pic.c.                              *)
(***************************************************************************)
Weights == <<1, 2, 4, 8, 16, 32, 64, 128>>
Bits(byte) == {i \in 0..7 : (byte \div Weights[i + 1]) % 2 = 1}

\* Initialisation starts (0x10), or the interrupt in service is over (0x20).
Command(chip, byte) ==
    CASE 4 \in Bits(byte) -> [icw |-> 2, offset |-> chip.offset, mask |-> {}, irr |-> {}, isr |-> {}]
      [] 5 \in Bits(byte) -> [chip EXCEPT !.isr = @ \ {i \in @ : \A j \in @ : i <= j}]
      [] OTHER -> chip

\* ICW2 to ICW4 in turn, then the mask.
Data(chip, byte) ==
    CASE chip.icw = 2 -> [[chip EXCEPT !.icw = 3] EXCEPT !.offset = byte]
      [] chip.icw = 3 -> [chip EXCEPT !.icw = 4]
      [] chip.icw = 4 -> [chip EXCEPT !.icw = 0]
      [] chip.icw = 0 -> [chip EXCEPT !.mask = Bits(byte)]

\* A request that the processor has taken is in service.
Acknowledged(chip, line) ==
    [[chip EXCEPT !.irr = @ \ {line}] EXCEPT !.isr = @ \cup {line}]

\* The end of interrupt command, to the primary controller.
EOI == 32
SendEoi(chips) == [chips EXCEPT ![1] = Command(@, EOI)]

\* pic_init's writes to a controller: ICW1 to ICW4, then all lines masked.
Initialised(chip, vector, cascade) ==
    LET icw1 == Command(chip, 17)
        icw2 == Data(icw1, vector)
        icw3 == Data(icw2, cascade)
        icw4 == Data(icw3, 1)
    IN  Data(icw4, 255)

Unmasked(chips, num) ==
    IF num < 8 THEN [chips EXCEPT ![1].mask = @ \ {num}]
    ELSE IF num < 16 THEN [chips EXCEPT ![2].mask = @ \ {num - 8}]
    ELSE chips
-----------------------------------------------------------------------------
(***************************************************************************)
(* The processor: a gate is used if its table is loaded, it is present,    *)
(* its selector is kernel code, and coming from user mode there is a       *)
(* stack to switch to.  If one cannot be used that is a general protection *)
(* fault; while a contributory exception or a page fault is delivered it   *)
(* is a double fault instead, and a failing double fault resets the        *)
(* machine.                                                                *)
(***************************************************************************)
Gate(v) ==
    /\ idtr /\ idt[v].present
    /\ Loaded(KERNEL_CODE_SELECTOR, "code", FALSE)
    /\ Running.code = "program" =>
          tss.rsp0 # "none" /\ Loaded(tss.tr, "tss", FALSE)

Contributory == {0, 10, 11, 12, 13}
PageFault == 14

Taken(v) ==
    IF Gate(v) THEN v
    ELSE IF v \notin Contributory \cup {PageFault} /\ Gate(13) THEN 13
    ELSE 8

\* An interrupt out of user mode makes SS NULL; in the kernel SS stays as it is.
HandlerSS == IF Running.code = "program" THEN 0 ELSE Running.ss

Raise(v) ==
    IF ~Gate(Taken(v))
    THEN reset' = TRUE /\ UNCHANGED <<frames, IF_>>
    ELSE LET gate == idt[Taken(v)]
         IN  /\ frames' = Append(frames, [code |-> gate.fn, cs |-> KERNEL_CODE_SELECTOR,
                                          ss |-> HandlerSS, cause |-> v])
             /\ IF_' = (IF_ /\ gate.type = "trap")
             /\ UNCHANGED reset

(***************************************************************************)
(* iretq loads CS and SS: they must be code and data of the context's      *)
(* privilege in the loaded table, but in the kernel SS may be NULL.        *)
(***************************************************************************)
Returnable(to) ==
    LET user == to.code = "program"
    IN  /\ Loaded(to.cs, "code", user)
        /\ Loaded(to.ss, "data", user) \/ (~user /\ to.ss = 0)

Iret ==
    /\ ~reset
    /\ Running.code = "iretq"
    /\ IF Returnable(frames[Len(frames) - 1])
       THEN frames' = Front(frames) /\ UNCHANGED <<IF_, reset>>
       ELSE Raise(13)
    /\ UNCHANGED <<at, tables, pic, tags, pressed>>

\* The running context's handler is done but for its iretq.
Finish == frames' = [frames EXCEPT ![Len(frames)].code = "iretq"]

\* A device requests an interrupt.
Request(line) ==
    /\ ~reset
    /\ line \notin pic[1].irr
    /\ line = KeyLine => pressed < MaxKeys
    /\ pressed' = IF line = KeyLine THEN pressed + 1 ELSE pressed
    /\ pic' = [pic EXCEPT ![1].irr = @ \cup {line}]
    /\ UNCHANGED <<at, frames, IF_, tables, tags, reset>>

\* The controller passes it on, and the processor takes it.
Deliver(line) ==
    /\ ~reset /\ IF_ /\ pic[1].icw = 0
    /\ line \in pic[1].irr \ pic[1].mask
    /\ pic[1].isr \cap 0..line = {}
    /\ pic' = [pic EXCEPT ![1] = Acknowledged(@, line)]
    /\ Raise(pic[1].offset + line)
    /\ UNCHANGED <<at, tables, tags, pressed>>
-----------------------------------------------------------------------------
(***************************************************************************)
(* _start.                                                                 *)
(***************************************************************************)
start == <<"init_init", "term_init", "gdt_setup", "idt_setup", "mem_init", "pic_init",
           "pic_unmask_irq", "syscall_entry", "keyboard_interrupt", "exec", "halt">>

Statement(name) ==
    /\ ~reset
    /\ Running.code = "_start"
    /\ start[at] = name
    /\ at' = at + 1
    /\ UNCHANGED <<tags, pressed>>

Quiet == UNCHANGED <<frames, IF_, reset>>

\* find_tag returns NULL for a tag that is not there.
find_tag(id) == IF id \in tags THEN id ELSE "NULL"

\* get_hhdm uses what find_tag returns; the terminal and memory are other modules.
Prepare ==
    \/ Statement("init_init") /\ find_tag("hhdm") # "NULL" /\ Quiet /\ UNCHANGED <<tables, pic>>
    \/ Statement("term_init") /\ Quiet /\ UNCHANGED <<tables, pic>>
    \/ Statement("mem_init") /\ find_tag("memmap") # "NULL" /\ Quiet /\ UNCHANGED <<tables, pic>>

\* Mutant: ltr is left out.
gdt_setupNoTask ==
    /\ Statement("gdt_setup")
    /\ gdt' = [table |-> FullTable.table, size |-> FullTable.size, limit |-> FullTable.size - 1]
    /\ tss' = [tss EXCEPT !.rsp0 = "interrupt_stack"]
    /\ Quiet /\ UNCHANGED <<idt, idtr, pic>>

\* Mutant: the limit is the size.
gdt_setupLimit ==
    /\ Statement("gdt_setup")
    /\ gdt' = [table |-> FullTable.table, size |-> FullTable.size, limit |-> FullTable.size]
    /\ tss' = [rsp0 |-> "interrupt_stack", tr |-> TSS_SELECTOR]
    /\ Quiet /\ UNCHANGED <<idt, idtr, pic>>

\* lgdt with gdt_size - 1, then rsp0 and ltr.
gdt_setup ==
    /\ Statement("gdt_setup")
    /\ gdt' = [table |-> FullTable.table, size |-> FullTable.size, limit |-> FullTable.size - 1]
    /\ tss' = [rsp0 |-> "interrupt_stack", tr |-> TSS_SELECTOR]
    /\ Quiet /\ UNCHANGED <<idt, idtr, pic>>

idt_setup ==
    /\ Statement("idt_setup")
    /\ idt' = ExceptionGates
    /\ idtr' = TRUE
    /\ Quiet /\ UNCHANGED <<gdt, tss, pic>>

\* The last instruction is sti.
pic_init ==
    /\ Statement("pic_init")
    /\ pic' = [c \in 1..2 |-> IF c = 1 THEN Initialised(pic[c], IRQ0_INTERRUPT, 4)
                              ELSE Initialised(pic[c], IRQ8_INTERRUPT, 2)]
    /\ IF_' = TRUE
    /\ UNCHANGED <<frames, reset, tables>>

pic_unmask_irq ==
    /\ Statement("pic_unmask_irq")
    /\ pic' = Unmasked(pic, KeyLine)
    /\ Quiet /\ UNCHANGED tables

InstallHandlers ==
    /\ \/ Statement("syscall_entry") /\ idt' = idt_set_handler(idt, 128, "syscall_entry", "trap")
       \/ /\ Statement("keyboard_interrupt")
          /\ idt' = idt_set_handler(idt, IRQ1_INTERRUPT, "keyboard_interrupt", "trap")
    /\ Quiet /\ UNCHANGED <<gdt, tss, idtr, pic>>

\* exec("sleep") is int 0x80.
CallExec == Statement("exec") /\ Raise(128) /\ UNCHANGED <<tables, pic>>
-----------------------------------------------------------------------------
(***************************************************************************)
(* The handlers and the program.                                           *)
(***************************************************************************)

\* Mutant: no EOI.
KeyboardHandlerNoEoi ==
    /\ ~reset /\ Running.code = "keyboard_interrupt"
    /\ Finish
    /\ UNCHANGED <<at, IF_, tables, pic, tags, pressed, reset>>

\* Mutant: the EOI is sent before the key is read and written.
KeyboardHandlerEoiFirst ==
    /\ ~reset /\ Running.code = "keyboard_interrupt"
    /\ pic[1].isr # {}
    /\ pic' = SendEoi(pic)
    /\ UNCHANGED <<at, frames, IF_, tables, tags, pressed, reset>>

\* The key is read and written to the buffer, then EOI.
KeyboardHandler ==
    /\ ~reset /\ Running.code = "keyboard_interrupt"
    /\ Finish
    /\ pic' = SendEoi(pic)
    /\ UNCHANGED <<at, IF_, tables, tags, pressed, reset>>

\* A system call returns, or faults on memory that is not mapped (a NULL tag, too).
SyscallReturns ==
    /\ ~reset /\ Running.code = "syscall_entry"
    /\ \/ Finish /\ UNCHANGED <<IF_, reset>>
       \/ Raise(14)
    /\ UNCHANGED <<at, tables, pic, tags, pressed>>

Program == [code |-> "program", cs |-> USER_CODE_SELECTOR, ss |-> USER_DATA_SELECTOR,
            cause |-> 0]

(***************************************************************************)
(* exec_setup has loaded a program: usermode_entry loads the data segment  *)
(* registers and leaves the kernel's contexts with an iretq.               *)
(***************************************************************************)
usermode_entry ==
    /\ ~reset /\ Running.code = "syscall_entry"
    /\ find_tag("modules") # "NULL"
    /\ IF Loaded(USER_DATA_SELECTOR, "data", TRUE) /\ Returnable(Program)
       THEN frames' = <<Program>> /\ UNCHANGED <<IF_, reset>>
       ELSE Raise(13)
    /\ UNCHANGED <<at, tables, pic, tags, pressed>>

\* A program calls the kernel, divides by zero, or runs into a fault.
ProgramRaises(v) ==
    /\ ~reset /\ Running.code = "program"
    /\ Raise(v)
    /\ UNCHANGED <<at, tables, pic, tags, pressed>>

ProgramVectors == {0, 6, 13, 14, 128}
-----------------------------------------------------------------------------
\* The boot loader: interrupts off, its own tables, controllers as the BIOS left them.
Init ==
    /\ at = 1
    /\ \E selector \in BootSelectors :
          frames = <<[code |-> "_start", cs |-> selector.cs, ss |-> selector.ss, cause |-> 0]>>
    /\ IF_ = FALSE
    /\ gdt = [table |-> NullTable.table, size |-> 0, limit |-> -1]
    /\ tss = [rsp0 |-> "none", tr |-> 0]
    /\ idt = [v \in Vectors |-> Absent]
    /\ idtr = FALSE
    /\ pic = [c \in 1..2 |-> [icw |-> 0, offset |-> 8, mask |-> {}, irr |-> {}, isr |-> {}]]
    /\ tags \in TagSets
    /\ pressed = 0
    /\ reset = FALSE

KernelStep ==
    \/ Prepare \/ gdt_setup \/ idt_setup \/ pic_init \/ pic_unmask_irq \/ InstallHandlers
    \/ CallExec \/ KeyboardHandler \/ SyscallReturns \/ usermode_entry \/ Iret

Next ==
    \/ KernelStep
    \/ \E line \in Lines : Request(line)
    \/ \E line \in Lines : Deliver(line)
    \/ \E v \in ProgramVectors : ProgramRaises(v)

Spec == Init /\ [][Next]_vars

(***************************************************************************)
(* The processor executes the kernel and takes an interrupt it is offered. *)
(***************************************************************************)
FairSpec == Spec /\ WF_vars(KernelStep) /\ \A line \in Lines : WF_vars(Deliver(line))
-----------------------------------------------------------------------------
(***************************************************************************)
(* Properties.                                                             *)
(***************************************************************************)

\* Types; the limit that lgdt loads is the table's last byte.
TypeOK ==
    /\ at \in 1..Len(start)
    /\ frames # <<>>
    /\ \A f \in ToSet(frames) : f.cause \in Vectors
    /\ IF_ \in BOOLEAN /\ idtr \in BOOLEAN /\ reset \in BOOLEAN
    /\ gdt.limit + 1 \in {0, gdt.size}
    /\ \A c \in 1..2 : pic[c].icw \in {0, 2, 3, 4} /\ pic[c].isr \cup pic[c].irr \subseteq 0..7

(***************************************************************************)
(* No interrupt, at any moment of the boot or of a program, finds the      *)
(* processor without a usable gate, segment or stack: the machine is never *)
(* reset by a triple fault.                                                *)
(***************************************************************************)
NeverReset == ~reset

(***************************************************************************)
(* The keyboard's gate leaves interrupts enabled, and still its handler,   *)
(* the only writer of the character buffer, does not interrupt itself: the *)
(* controller holds the next key back until the EOI at its end.            *)
(***************************************************************************)
HandlerNotReentered ==
    \A i, j \in 1..Len(frames) :
        frames[i].code = "keyboard_interrupt" /\ frames[j].code = "keyboard_interrupt" => i = j

\* The handler of an interrupt, by Intel's numbering and _start's; 0 has none.
Handler(v) ==
    CASE v = 6 -> "UD"
      [] v = 13 -> "GP"
      [] v = 14 -> "PF"
      [] v = IRQ1_INTERRUPT -> "keyboard_interrupt"
      [] v = 128 -> "syscall_entry"
      [] OTHER -> "none"

(***************************************************************************)
(* Every interrupt is served by its handler, and only a system call and a  *)
(* key return; no line but the keyboard's gets through, and none is taken  *)
(* for an exception.  An interrupt that has no gate, a division by zero or *)
(* a key between pic_unmask_irq and idt_set_handler, stops the machine in  *)
(* the handler of the fault that it becomes.                               *)
(***************************************************************************)
ServedByItsHandler ==
    \A i \in 2..Len(frames) :
        LET f == frames[i]
        IN  \/ f.code = Handler(f.cause)
            \/ f.code = "iretq" /\ f.cause \in {IRQ1_INTERRUPT, 128}
            \/ f.code \in {"GP", "DF"} /\ ~idt[f.cause].present

(***************************************************************************)
(* Once a program runs, every iretq and usermode_entry finds its selectors *)
(* in the kernel's table: programs get the processor back from each system *)
(* call and each key, also one that interrupts a system call.  Only above  *)
(* _start, which runs on the boot loader's CS and SS, can an iretq fail.   *)
(***************************************************************************)
ReturnsToPrograms ==
    \A i \in 2..Len(frames) :
        frames[i].cause = 13 =>
            \/ frames[i - 1].code = "program"
            \/ frames[i - 1].code = "iretq" /\ frames[1].code = "_start"

(***************************************************************************)
(* A key pressed once its handler is installed is handled, whatever runs   *)
(* and even when the kernel has halted in an exception handler.            *)
(***************************************************************************)
KeyHandled ==
    (KeyLine \in pic[1].irr /\ idt[IRQ1_INTERRUPT].present)
        ~> Running.code = "keyboard_interrupt"
=============================================================================
