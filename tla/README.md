# Verification of the CSC 395 kernel

The repository is a small x86-64 teaching kernel: it is started by the Limine
boot loader, drives a VGA text screen and a PS/2 keyboard, manages physical
memory and page tables, and loads one user program at a time, which talks to it
through three system calls (read, write, exec). This directory holds TLA+
models of its core, the TLC runs that check them, and proofs checked by TLAPS.

Run from this directory, for example:

    tlc -workers 2 -config keyboard_fifo.cfg MCKeyboard
    tlapm KeyboardProofs.tla

## The system

| component | source | state | operations | used by |
|---|---|---|---|---|
| keyboard input | `kernel/systemcalls.c`, `kernel/boot.c:227` | `buffer[100]`, `buffer_length`, `reading_index`, `writing_index` | `keyboard_interrupt` → `getkey`, `backspace`, `char_write`; `kread` → `kgetc` | IRQ 1; the read system call |
| terminal | `kernel/boot.c:88-196`, `kernel/kprint.c` | the VGA cells, `term_row`, `term_col`, the cursor registers | `term_putchar`, `term_clear`, `kprint_*`, `kprintf` | the write system call, the echo of typed keys, every kernel message |
| physical memory | `kernel/page.c:136-197` | the freelist (linked through the free pages), `free_page_counter` | `pmem_alloc`, `pmem_free` | page tables |
| page tables | `kernel/page.c` | four levels of tables from CR3; the TLB | `vm_map`, `vm_protect`, `vm_unmap`, `unmap_lower_half`, `mem_init`, `translate` | exec, boot |
| program loading | `kernel/executables.c` | the lower half of the address space | `exec_setup` | boot; the exec system call |
| boot, IDT, PIC, GDT | `kernel/boot.c`, `interrupts.c`, `pic.c`, `gdt.c` | descriptor tables, the interrupt mask and flag | `_start`, `idt_setup`, `idt_set_handler`, `pic_init`, `pic_unmask_irq`, `gdt_setup` | – |
| library | `stdlib/` | none | `strlen`, `strcmp`, `strcpy`, `strcat`, `memset`, `memcpy`, `read`, `write`, `exec`, `exit` | kernel and programs |
| programs | `init/`, `echo/`, `wait/` | their own memory | the shell, an echo, a wait loop | – |

**Interaction.** There is one processor and no scheduler. The only concurrency
is between the code that runs (a program or a system call) and the keyboard
interrupt. All gates are trap gates, so system calls run with interrupts
enabled; the interrupt handler does as well, but the interrupt controller holds
back a second IRQ 1 until the EOI, which is the handler's last action. The two
contexts share the circular buffer and, because `char_write` echoes the
character, the terminal. Page tables are only touched by the running context;
the other party there is the processor's own page walk and its TLB.

**What is hard here.** Preemption of `kgetc` and of `term_putchar` between any
two accesses to unlocked globals; the `int8_t` counter and the ring at their
limits; a `vm_map` that fails half way; freeing pages while the tables in them
are being read; stale TLB entries; page numbers and page addresses of one C type;
the order of the steps at boot and in exec. `PROJECT.json` lists these as hazards, each
at its line.

**What would make each part correct.** Keyboard: characters reach the readers in
order, once each, and a waiting read is served. Terminal: the screen shows the
last lines printed. Memory: a page is free or in use, never both, and none is
lost. Page tables: a call changes for the processor exactly what its comment
says. Exec: a program starts with its segments, its stack and nothing of its
predecessor. Boot: no interrupt arrives before its handler.

## Modules

| module | models | state and actions |
|---|---|---|
| `KeyQueue` | what read promises (abstract) | a queue of typed characters, the read in progress |
| `Keyboard` | `systemcalls.c` input half, `keyboard_interrupt` | the four globals under their own names, `kread`'s registers and buffer, `pending` (auxiliary: typed and undelivered) |
| `AddressSpace` | what `page.c` promises (abstract) | the effective rights of each page, the call in progress |
| `Paging` | `page.c` | physical memory as words, the freelist, the TLB, the loop variables; `free`, `lost` and `phase` are auxiliary |
| `Teletype` | what the terminal promises (abstract) | lines and a column |
| `Terminal` | `boot.c` terminal, `kwrite`, the echo | the cells, row and column, the VGA controller's registers, `term_update_cursor`'s `pos`; `settled` and `echoed` are auxiliary |
| `Exec` | `executables.c`, on `Paging` | where `exec_setup` is, the module, header and stack page it is at, the content of pages |
| `Boot` | `_start`, `gdt.c`, `interrupts.c`, `pic.c`, the entry and exit of interrupts | the descriptor tables, the two interrupt controllers, the processor's stack of contexts, each with its CS and SS |
| `Kprint` | `kprint.c` | `kprintf`'s index and arguments, the digit loops' variables, what is printed |
| `Strings` | `stdlib/string.c`, `memory.c` | a memory of bytes, the call, the loop |
| `Library` | one call of either of the two | – |
| `Programs` | `init`, `echo`, `wait`, the system call wrappers, `syscall_handler` | the program that runs, its buffers, `kread`'s loop |
| `KeyboardProofs`, `TerminalProofs`, `BootProofs`, `LibraryProofs`, `ProgramsProofs` | theorems about the module in the name | the inductive invariant of each |
| `PageTreeProofs` | the roles of pages, and what each step of `page.c` does to them | `PagesOwned` |
| `PagingProofs` | theorems about `Paging`, on `PageTreeProofs` | `Translated` |
| `ExecProofs` | theorems about `Exec`, on `PagingProofs` | `ExecInv` |
| `MCKeyboard`, `MCPaging`, `MCTerminal`, `MCExec`, `MCBoot`, `MCLibrary`, `MCPrograms` | small instances | – |

Definitions have the names of the C functions and variables they model. Operators
whose comment starts with "Mutant" are deliberate mistakes that show that a
property can fail; no specification uses them.

### Keyboard

`keyboard_interrupt(code)` is one action, for the reason given above. `kread` is
split at every access to a shared variable, as the compiled code performs them:
`kgetc` waits on the volatile `buffer_length`, loads `reading_index` into a
register, fetches the character, stores the incremented index, decrements
`buffer_length` with one instruction, and tests the *register* for the wrap-around.
`kgetc` is inlined into `kread`'s loop, in the model as in the build. The
scan code table is a constant; scan code 128, which `getkey` would look up one
past the table, is excluded by assumption because no key sends it. The echo is in
`Terminal`. `int8_t` keeps its wrap-around (`ToInt8`), with the width a constant
larger than the buffer.

`pending` follows the typist: a key appends, backspace removes the last
undelivered character, a delivery removes the first. `TypeAhead` bounds its
length. `CalmTypist` names the condition under which the buffer works: no
backspace, and never more than a buffer ahead.

### Paging

Memory is an array of words, a page is `PAGE` words, `<< 12` is `* PAGE`. Thus a
free page's link really is in the first word of the page, zeroing a table really
overwrites it. The
higher-half map is the identity. A virtual page is the tuple of its four table
indices. Each call is an action that starts it and one action per loop iteration;
every early return is an action of its own. The processor is external:
`Access` is the page walk (a right must be granted at every level, large pages
end the walk) and `Touch` caches a translation between calls.

The boot loader's tables are a constant (`BootMem`): with large pages at two
levels, with level 1 tables in both halves that map usable pages and page tables
(as the low 2 MiB are under the `UNMAP_NULL` tag of `boot.c:25-28`), and with a
lower half whose tables `mem_init` reclaims through `unmap_lower_half`. Only the usable
entries of the memory map (type 1) are freed, page by page. Callers pass lower half
addresses only, as `exec_setup` does. `vm_unmap` is not modelled: nothing calls it.

`free` is the freelist as a sequence, `lost` collects the pages that are still
mapped when their tables are unmapped: the code says it does not reclaim them.
`phase` says whether `mem_init` has returned. Until then the lower half still maps what
the boot loader chose, pages that `mem_init` has just put on the freelist among them;
`GivenPages` therefore counts a page that the lower half maps as *given* only when `vm_map`
mapped it, that is, once `phase` is "run". The upper half's map of all of physical
memory is never counted: through it the kernel itself writes the freelist's links. `InUse`,
in `FreeNotInUse`, is the page tables of both halves and the given pages.

`free_page_counter` is kept as the code keeps it, which counts the pages of the memory map
twice: once in `pmem_free` and once in `mem_init` (`page.c:275`). Nothing reads it but
the message of `mem_init` (`page.c:284`, "number of free pages are"), which is therefore
wrong; no property states that it is right.

### Terminal

`term_putchar` is a sequence of statements; each is an operator from screen to
screen. The interrupt handler applies their composition at once, `kwrite` one per
action. The build reloads `term_row` and `term_col` for each statement and even
within some of them, so finer interleavings exist: they would add behaviours only
to `terminal_echo`, which finds its violation without them. `EchoAt` says where in
`term_putchar` a key may arrive.

The cursor is moved through the controller's ports, one action for each of the four
writes of `term_update_cursor`, and `terminal_lines` lets a key in between any two of
them. A byte may then reach the wrong register, or an older position be written last;
`CursorRecovers` says that this lasts no longer than to the next character. `settled`
is the screen that the last call of `term_putchar` to change it left: the
abstract teletype is compared with that one.

### Exec

`Exec` EXTENDS `Paging`: a step of `exec_setup` starts a call of `page.c` and the
next waits for its return, so that the loops of `unmap_lower_half`, `vm_map` and
`vm_protect` run in between. Accesses of the kernel and of the program go through
`Seen`, a cached translation if there is one. When no module has the name, `exec_setup` returns
(`NotFound`), and the machine stops: a program's next instruction is no longer mapped, and
`_start`'s exec returns through an `iretq` to the boot loader's CS, which `gdt_setup` has made the
task state's selector; the fault's handler halts. The shipped `limine.cfg` has no "sleep"
and takes that path. A segment is the list of the pages that
its bytes touch; only the first is mapped, as in the code. A fault ends in its
handler, which halts. The name passed to exec has a page: the kernel's own call keeps
it in the kernel half; the programs of the repository pass a pointer into their own
half, which is unmapped before the name is read. `MCExec` has both, because with the
second alone the loader would never get past its first lines.

### Boot

The processor is a stack of contexts (`frames`): an interrupt pushes one, `iretq` pops
it. `Raise` is the processor's entry of an interrupt: it needs a loaded table, a present
gate, kernel code at selector 8 and, from user mode, a loaded task register with
`rsp0`; what fails becomes a general protection fault, or a double fault if a
contributory exception (a division by zero, vector 0, has no gate) or a page fault was being
delivered, then a reset. Each context has its CS and SS. `iretq` checks both against the loaded
table (`Returnable`), and `usermode_entry` also loads the data segment registers. `lgdt` reloads
none of them, so `_start` keeps the boot loader's 0x28 and 0x30, which are the two halves of the
task state's descriptor in the new table: an `iretq` into `_start` faults for its CS and one into
the system call that `_start` makes for its SS, a key during that call included. An interrupt out of
user mode makes SS NULL, which `iretq` accepts in the kernel; so from the first program on all goes
well. The interrupt controllers are modelled from the bytes that `pic.c` writes:
initialisation words, masks, requests, interrupts in service, EOI. `Initialised` is
what the five writes of `pic_init` make of one controller. Keys, timer ticks
and requests of the second controller come at any moment. System calls return, fault or
start a program; what they do is in the other modules.

External assumptions: the boot loader enters with interrupts off and with CS = 0x28, SS = 0x30
(stivale2), with SS NULL or, for comparison, with the kernel's own selectors; the controllers are as the BIOS left them,
initialised, with offset 8 and nothing masked; no NMI comes. The gates' `dpl` of 3, which
all of them have, is not modelled, nor is `pic_mask_irq`, which nothing calls.

### Library: Kprint and Strings

A call of `kprintf` is a sequence of tokens, what the caller meant, and the kernel sees
only their text; `PrintsExpansion` compares what is printed with the tokens' meaning,
numbers with numerals defined by weights. Where `kprint_x` gets 16, which `kprint_hex` shows to be
printed wrongly, `PrintsExpansion` leaves the character open and still compares all that surrounds
it. The arrays' elements start out as `Garbage`. The
string functions run in a memory of five bytes, with every content, every block and
every overlap. `char` is signed, as in the build. `strcat`'s array has the byte of the stack behind it,
to which the terminator goes, and what it returns is `Dangling`, a pointer to an array that is gone.

### Programs

One program runs from its start to its exec. The keyboard is the queue that
`KeyboardProofs` shows it to be for a calm typist. Uninitialised memory is a choice:
`init`'s `modname[4]`, which is never written, and `echo`'s pointer, for which the
build uses whatever a register holds, at each use anew; it may be unmapped.

## Runs

| run | result | what it shows |
|---|---|---|
| `keyboard_fifo` | holds | `ImplementsKeyQueue`: characters reach `read` in order, once each; `RingHoldsPending`: the ring's content at every preemption point; `KeyReachesReader`: the wait ends (under weak fairness) |
| `keyboard_anykeys` | holds | `RingAccessInBounds` with backspace at any moment and a typist beyond the buffer |
| `keyboard_backspace` | violated | backspace on an empty buffer: `kgetc` does not block |
| `paging_memory` | holds | `FreelistIntact`, `FreeNotInUse`, `NoAliasing`, `Partition` (no page lost, also when `vm_map` fails half way), `TlbCoherent`, `TranslateAgrees`, `CallsReturn`, `ImplementsAddressSpace` |
| `terminal_lines` | holds | `ImplementsTeletype`; `CursorRecovers` with keys between the port writes |
| `terminal_echo` | violated | a key during output makes a store leave the screen |
| `exec_chain` | holds | `StartsWhole`, `OnlyOwnPages` over chains of exec calls until memory runs out; `HaltsForCause`: the four reasons for which the machine stops; `ExecEnds` |
| `exec_user` | violated | a program's exec of an existing module halts the machine: its name is unmapped before it is read |
| `boot_order` | holds | `NeverReset`, `ServedByItsHandler`, `ReturnsToPrograms`, `HandlerNotReentered`, and `KeyHandled` under fairness |
| `library_calls` | holds | `PrintsExpansion`, `DigitsInBounds`, `BlockMoved`, `StrcmpOrders`, `Returns` |
| `kprint_hex` | violated | `kprint_x(16)` prints "g" |
| `programs_calls` | holds | `ExecsWhatWasTyped`, `ShellTakesAll` |

**Deviations from comments and docs that have no run of their own.**

- More than a buffer ahead, the oldest characters are overwritten (`systemcalls.c:135`).
  That is outside `CalmTypist`; `keyboard_anykeys` shows that memory stays intact.
- `free_page_counter` counts the memory map's pages twice (`page.c:275`); see Paging.
- `vm_unmap` passes `pmem_free` a page number, without `<< 12` (`page.c:417`), where
  `page.c:176` asks for a page-aligned address. Nothing calls it.
- After a key between the port writes the cursor is off until the next character
  (`boot.c:112`): `CursorRecovers`.
- A program whose stack did not fit is started and faults (`executables.c:164`), a
  segment longer than a page faults while it is copied: `HaltsForCause`.
- `_start` execs "sleep", a module that `limine.cfg` names "wait", and so halts. `MCExec` has
  both: a module list with the name that `_start` asks for, so that programs run, and calls
  with a name that no module has.
- A key between `pic_unmask_irq(1)` and its handler (`boot.c:284-290`) ends in the general
  protection fault's handler, and a division by zero, whose gate `idt_setup` leaves out
  (`interrupts.c:212`), in the double fault's. `ServedByItsHandler` says that an interrupt without
  a gate stops there.
- After `lgdt` the old CS and SS are no code and data segments any more (`gdt.c:142`):
  `ReturnsToPrograms` is about the stack above a program, not above `_start`.
- A format that ends in a single `%` is read past its end: not among the calls, and no caller
  has one.
- `strcpy` stores no terminator although `string.c:42` says "including null terminator", and
  `strcat` stores it outside its array and returns that array, which is a local one. Nothing calls
  them. `BlockMoved` says nothing of `strcpy`'s terminator.
- `init` does not recognise a command when `modname[4]` happens not to be 0.
- `echo` is to "Copy first 20 characters written to terminal" (`echo.c:15`); it waits for 20 groups of
  20 characters, each overwriting the last one, through a pointer that was never set. Nothing
  can be said of what it prints, so no property is about it.

**Bounds.** The keyboard runs use a buffer of 3 slots and an integer of
-5..4. Reads of up to 4 characters wrap around the ring and outlast it; the
typist gets as far ahead as the buffer (3), one further (4), or far enough to
overflow the length as well (5). Paging uses tables of 4 entries, two of them the
lower half, in 13 pages: 4 are usable, of which the boot loader's tables map some, and the lower
half's tables are reclaimed: enough for one page with its
three tables, its neighbour in the same table and one behind another level 3 table, so
that `vm_map` fails after each number of added tables; two sets of rights, and one
page that is touched and cached. `exec_chain` has 28 pages, of which each
program loses its segments and two stack pages: a few programs run before memory runs
out, in a segment or in the stack. The screen has 3 rows of 2 characters, so the right edge, the bottom and the
corner are met from everywhere; its registers hold 2 bits, so that both cursor registers
matter. `boot_order` has 3 keys: one in service, one requested, one more.
`library_calls` has 12-bit numbers with arrays of 4 and 3 digits, which are exactly as
long as needed, like 20 and 16 for 64 bits. `programs_calls` has names of 2 characters,
2 rounds of 2 characters for echo and 5 characters typed: two wrong commands, or a wrong and
a right one, and one character left.

**Fairness.** `FairSpec` assumes that the processor keeps executing the kernel's
current loop (weak fairness of `KernelStep`); interrupts return, so they cannot starve
it. Nothing is assumed of typists and callers. In `keyboard_fifo` this is justified
because the typist's bound keeps interrupts finite between two steps; a keyboard
sends at most a few dozen codes a second. `ExecFairSpec`, `LibrarySpec` and the
`FairSpec` of `Programs` assume the same of their steps; no program has to call exec, and
nobody has to type. `Boot` has in addition weak fairness of each line's delivery: the
processor takes an interrupt that the controller keeps offering while interrupts are
enabled.

## Proofs

The theorems hold for every value of the constants that the named assumptions allow;
TLC evaluates the assumptions in the runs. Each invariant below was first checked by TLC on
the instance of its component's run. None of the properties is inductive as it stands
(except `RingHoldsPending`), so each section says what had to be added, and why.

### Keyboard

For every buffer size smaller than the integer's range, every scan code table and every
set of scan codes (`KeyboardAssumption`: the buffer is not empty, an `int8_t` can
count it, scan codes are bytes other than 128, the table has 128 entries):

- `TypeCorrect` and `RingSafety`: `TypeOK` and `RingAccessInBounds` are always
  true. They are proved together (`BoundsInv`): the register that `kgetc` indexes
  with is in range because the shared index is, except between the increment and the
  wrap-around test, and the exception is part of the invariant.
- `FirstInFirstOut`: for a calm typist `RingHoldsPending` is always true. It is
  its own strengthening: it says what the ring holds (`Ring`) and, for each point where
  the interrupt can preempt `kgetc`, how far the shared variables have been updated
  (`KgetcProgress`). The argument about the ring is in two lemmas without
  state: `RingAppend` (the slot after the last character is free) and `RingTail`.
- `Refinement`: for a calm typist `Keyboard` implements `KeyQueue`; every step of
  the handler is a `Press` or nothing, the step that stores the character in the
  caller's buffer is the `Deliver`, and the others change nothing.

### Terminal

For every width and height, under `KeysBetween`: keys arrive between two characters or
between the port writes of the cursor, and not between the statements that move the row
and column. `terminal_lines` runs under it; `terminal_echo` shows that
`WrittenOnScreen` is false without it.

- `TypeCorrect`, `StoresOnScreen`: by `ScreenInv`, which says that in the middle of
  `term_putchar` the screen is what the statements executed so far make of the last
  settled one. Without that, the row at the `scroll` could be anything.
- `CursorCorrect`: `CursorInv` adds which of the four port writes are done, and that the
  registers hold the right bytes unless a key has come in between. Every complete
  `term_update_cursor` writes both registers, which is why the error does not last.
- `Refinement`: `Terminal` implements `Teletype`. The step lemmas compare the four
  statements, composed, with one step of the teletype: scrolling cells by index is
  dropping the first line (cells and pairs of row and column correspond one to one, which
  needs a few facts about division).

### Physical memory and page tables

For every page size, memory size, memory map and every tables that the boot loader leaves,
under `PagingAssumption` and `BootLoaderAssumption`. The second is what the code silently
relies on: usable entries of the memory map are aligned and disjoint (the stivale2
specification promises both, and that page 0 is in none), the boot loader's tables are
in its own reclaimable memory and not in usable memory, the lower half's tables form a tree
(`unmap_lower_half` would free a shared table twice), and the upper half shares none of them.
Nothing is assumed of the pages that the tables map, by small or by large pages: usable memory may
be mapped in both halves, and so may the tables. `paging_memory`'s instance satisfies it.

- `PagesOwned`, the inductive invariant, gives every managed page one *role*: free, the
  table or the page below one particular entry (its `dad` and index), the page in hand, or
  lost. Until `mem_init` returns, the pages that the lower half maps get no role from that, and
  the walk that unmaps them records nothing (`Walking`). The tree is an existential: a step that links a page gives it a new role, a step
  that frees it takes the role away, and nothing has to be said about reachability, which is
  a closure and would need an induction. `Owned` is the theorem; the preservation lemmas, one per action of
  `page.c`, are in `PageTreeProofs`.
- From it follow `TypeCorrect`, `FreelistCorrect`, `NoUseAfterFree`,
  `TablesAreATree` and `PagesPartitioned`, each for every state in the middle of a loop as well.
- `TranslateCorrect`: `translate` and the processor's walk agree.
- `TlbCorrect`: the invariant `Translated` adds where the walk of `vm_map` and `vm_protect` has got
  to (`Reached`), that every table on the way grants all rights (`Granted`; otherwise the
  rights of the last entry would not be the effective ones), and that only pages that can
  be used are cached (`Cached`; otherwise `vm_map`, which flushes nothing, could leave a
  stale translation behind).
- `Refinement`: each call implements one step of `AddressSpace`, at the iteration that
  writes the entry, or none when it fails; the tables that a failing `vm_map` has added change
  no page's rights.

### Exec

For every list of modules and every stack, under the above and `ExecAssumption`: each segment
has pages of its own, outside the stack, and the entry point is in an executable segment. The
linker scripts say so: `ENTRY(_start)` is in `.text`, and the sections are a
`MAXPAGESIZE` apart.

- `ExecInv` says, for each statement of `exec_setup`, which headers have been asked for, filled and
  protected, which pages of the stack, that the lower half maps nothing else (`Cleared`,
  `Confined`), and that the call of `page.c` in progress is the one that `exec_setup` made
  (`Arguments`, `Answered`). It includes `Translated`, since what the program sees goes through the TLB.
- `ExecTypeCorrect`, `ExecPartition`, `NothingLeftOver`, `LoadedWhole`.
- `HaltsOnlyForCause`, if the kernel's names are mapped at the start (`NamesMapped`):
  the string "sleep" is in the kernel's read-only data.

### Boot

For every set of lines, any number of keys, any boot-time CS, SS and tags (`BootAssumption`: the tags
for the higher half and the memory map are there, the keyboard is line 1).

- `BootInv`: what the tables, gates and controllers hold at each statement of
  `_start`, that interrupts are off until `pic_init`'s last instruction, and the shape of the
  stack of contexts: `_start` or a program at the bottom, each other context a handler that was called
  for a cause its gate serves at that point, or the fault handler that stands in for a missing gate, and
  above a program every context has selectors that an `iretq` accepts (`Stack`). `OneKey` ties the controller's state to the
  stack: while a key's handler is there line 1 is in service, so no second one can be
  delivered; the line may stay in service when a key has ended in the general protection
  fault's handler instead.
- `TypeCorrect`, `NoTripleFault`, `KeysDoNotNest`, `Served`, `ProgramsResume`.

### Library and programs

- `LibraryProofs`, string functions: `StringInv` says what the loop of the running function has
  written (`Written`) and compared (`Compared`) so far, for every memory size and every pair of
  blocks; `BlocksMoved` and `StrcmpZero` (strcmp is 0 exactly for equal strings) follow. For
  `StrcmpIsOrder` a string's characters are the digits of a number (`Rank`), and the lemma is that the first
  characters that differ decide which number is larger.
- `LibraryProofs`, formatted output: `KprintInv` says that kprintf's loop stands behind a number of
  whole tokens and some characters of a text, that the arguments left are those of the tokens to come,
  and that what is printed is the text meant by those behind it, with a "g" for a hexadecimal 16. While a number is taken apart, the
  array's end holds the digits of the lowest weights and `value` is the quotient by the next one; while it is
  printed, the digits before `place` are out. `PrintsWhatWasMeant`, `DigitsStayInBounds` and
  `LibraryTypes` follow. The assumption (`KprintAssumption`): a call is a sequence of texts, `%%`, unsupported characters
  and directives with one argument of their type each, all of printable characters, tabs and newlines; every integer has at most
  as many digits as the arrays have elements (2^64 is below 10^20 and equal to 16^16).
- These two rest on recursive functions (`Rank`, `Weight`, and the fold in `FlattenSeq`). The library's induction
  theorems cannot be instantiated here, so `UpTo` states induction for a set of naturals (from `WFMin` and
  `NatLessThanWellFounded`), and each function is first shown to exist and then to satisfy its equation.
- `ProgramsProofs`: `ProgramsInv` counts the characters taken from the queue in whole names
  (`Queue`) and says that the buffer holds the last of them (`Name`); `TypeCorrect` and
  `ShellExecsTyped` follow, for every name length, input and number of wrong attempts.

### Only model-checked

- Liveness: `KeyReachesReader`, `CallsReturn`, `ExecEnds`, `KeyHandled`, `Returns`,
  `ShellTakesAll`. Fairness and ENABLED are outside the prover's reach.

Every invariant of the passing runs is stated by a theorem.

## Not modelled, and the plan

Every safety property of the passing runs is proved; what remains to TLC is liveness, and the four
violations, which are about particular behaviours. `KprintAssumption` leaves out a format that ends
in a single '%' (`kprint.c:111`): no caller in the repository has one.

Left out for good: colours and wording of messages, `usable_memory` (it only prints), the
third-party `stivale2.h`, `testing.c` (test code, called from nowhere), register saving in
the assembly glue, and functions that nothing calls (`pic_mask_irq`, `vm_unmap`).
