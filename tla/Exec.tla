-------------------------------- MODULE Exec --------------------------------
(***************************************************************************)
(* Loading a program: exec_setup of kernel/executables.c, on the page      *)
(* tables of Paging.tla.  _start calls it once; afterwards the running     *)
(* program does, through the exec system call.                             *)
(*                                                                         *)
(* exec_setup's own steps alternate with the loops of the page.c functions *)
(* it calls: a step waits for pc = "idle", the previous call's return.     *)
(* Every access goes through the processor's cached translation, if there  *)
(* is one.  A page fault in the kernel or in a program ends in its         *)
(* handler, which prints a line and halts.                                 *)
(***************************************************************************)
EXTENDS Paging

CONSTANTS
    Modules,    \* the boot loader's modules: names and ELF program headers
    user_stack, \* the pages of the user stack, lowest first (8 in the code)
    BootCall,   \* _start's exec("sleep"): the name and the page it is stored in
    UserCalls   \* the exec calls of programs

\* A program header.  touches are the pages from p_vaddr to p_vaddr + p_memsz.
Segment == [p_type : {"NULL", "LOAD"}, p_filesz : Nat, p_flags : SUBSET {"R", "W", "X"},
            touches : Seq(UserPages)]

Loadable(s) == s.p_type = "LOAD" /\ s.p_filesz > 0
Loads(m) == {i \in DOMAIN m.segments : Loadable(m.segments[i])}

(***************************************************************************)
(* The linker scripts put each segment in pages of its own, below the      *)
(* stack, and the entry point in the segment that can be executed.         *)
(***************************************************************************)
ASSUME ExecAssumption ==
    /\ Modules \in Seq(ToSet(Modules))
    /\ \A m \in ToSet(Modules) :
          /\ m.segments \in Seq(Segment)
          /\ \A i \in Loads(m) :
                LET touches == m.segments[i].touches
                IN  /\ touches # <<>> /\ IsInjective(touches)
                    /\ ToSet(touches) \cap ToSet(user_stack) = {}
                    /\ \A j \in Loads(m) \ {i} :
                          ToSet(touches) \cap ToSet(m.segments[j].touches) = {}
          /\ \E i \in Loads(m) : /\ m.e_entry \in ToSet(m.segments[i].touches)
                                 /\ "X" \in m.segments[i].p_flags
    /\ user_stack \in Seq(UserPages) /\ user_stack # <<>>
    /\ BootCall.page \in KernelPages
    /\ \A c \in UserCalls : c.page \in UserPages \cup KernelPages

VARIABLES
    step,       \* where exec_setup is, or who runs instead
    modulename, \* its argument
    ourmod,     \* the module found
    ph_entry,   \* the program header it is at
    p,          \* the stack page it is at
    data        \* what memcpy has put in each physical page

execvars == <<step, modulename, ourmod, ph_entry, p, data>>
allvars == <<vars, execvars>>

Zero == <<>>
-----------------------------------------------------------------------------
(***************************************************************************)
(* The processor's view of a page, cached or walked, and its caching.      *)
(***************************************************************************)
Seen(a) ==
    IF \E t \in tlb : t.page = a THEN CHOOSE t \in tlb : t.page = a ELSE Translation(a)

Cache(pages) == tlb' = tlb \cup {Seen(a) : a \in pages}

\* always set usable to be true
Rights(s) == {"user"} \cup (IF "W" \in s.p_flags THEN {"writable"} ELSE {})
                      \cup (IF "X" \in s.p_flags THEN {"executable"} ELSE {})

Header == Modules[ourmod].segments[ph_entry]
HeadersLeft == ph_entry \in DOMAIN Modules[ourmod].segments

\* A step of exec_setup that returns from the previous call and changes no page.
At(here, next) ==
    /\ step = here
    /\ pc = "idle"
    /\ step' = next
    /\ UNCHANGED modulename
-----------------------------------------------------------------------------
(***************************************************************************)
(* exec_setup.                                                             *)
(***************************************************************************)

\* unmap_lower_half(read_cr3()) comes first.
exec_setup(call) ==
    /\ unmap_lower_half
    /\ step' = "find"
    /\ modulename' = call
    /\ UNCHANGED <<ourmod, ph_entry, p, data>>

ReadsName == Modules # <<>>
Matching == SelectInSeq(Modules, LAMBDA m : m.string = modulename.string)

\* strcmp(modulename, ourmod.string) reads a page that is no longer there.
NameFault ==
    /\ At("find", "halted")
    /\ ReadsName /\ Seen(modulename.page).access = {}
    /\ UNCHANGED <<vars, ourmod, ph_entry, p, data>>

\* Mutant: the loop's index, which starts at 0.
FindModuleZeroBased ==
    /\ At("find", "headers")
    /\ Seen(modulename.page).access # {}
    /\ Matching # 0
    /\ ourmod' = Matching - 1
    /\ ph_entry' = 1
    /\ p' = 1
    /\ UNCHANGED <<vars, data>>

FindModule ==
    /\ At("find", "headers")
    /\ ReadsName /\ Seen(modulename.page).access # {}
    /\ Matching # 0
    /\ ourmod' = Matching
    /\ ph_entry' = 1
    /\ p' = 1
    /\ Cache({modulename.page})
    /\ UNCHANGED <<memory, pc, walk, ret, loops, scan, lost, data>>

(***************************************************************************)
(* The module is not found: exec_setup returns, and syscall_entry's iretq  *)
(* stops the machine.  Back in a program, the next instruction is in a     *)
(* page that is no longer mapped.  Into _start the iretq itself faults     *)
(* (Boot.tla), or _start goes on to halt().                                *)
(***************************************************************************)
NotFound ==
    /\ At("find", "halted")
    /\ ReadsName => Seen(modulename.page).access # {}
    /\ Matching = 0
    /\ UNCHANGED <<vars, ourmod, ph_entry, p, data>>

\* Mutant: ph_entry++ inside the if.
SkipHeaderStuck ==
    /\ At("headers", "headers")
    /\ HeadersLeft /\ ~Loadable(Header)
    /\ UNCHANGED <<vars, ourmod, ph_entry, p, data>>

SkipHeader ==
    /\ At("headers", "headers")
    /\ HeadersLeft /\ ~Loadable(Header)
    /\ ph_entry' = ph_entry + 1
    /\ UNCHANGED <<vars, ourmod, p, data>>

\* Mutant: the page is mapped with the segment's own rights.
MapSegmentRights ==
    /\ At("headers", "copy")
    /\ HeadersLeft /\ Loadable(Header)
    /\ vm_map(Header.touches[1], Rights(Header))
    /\ UNCHANGED <<ourmod, ph_entry, p, data>>

\* One page is mapped for the segment, whatever its size.
MapSegment ==
    /\ At("headers", "copy")
    /\ HeadersLeft /\ Loadable(Header)
    /\ vm_map(Header.touches[1], {"user", "writable"})
    /\ UNCHANGED <<ourmod, ph_entry, p, data>>

\* Mutant: at most one page is copied.
CopySegmentShort ==
    /\ At("copy", "protect")
    /\ "writable" \in Seen(Header.touches[1]).access
    /\ data' = [data EXCEPT ![Seen(Header.touches[1]).base] = <<ourmod, ph_entry, 1>>]
    /\ Cache({Header.touches[1]})
    /\ UNCHANGED <<memory, pc, walk, ret, loops, scan, lost, ourmod, ph_entry, p>>

\* memcpy of p_memsz bytes to p_vaddr; vm_map's result is not looked at.
CopySegment ==
    /\ At("copy", "protect")
    /\ \A a \in ToSet(Header.touches) : "writable" \in Seen(a).access
    /\ data' = [f \in DOMAIN data |->
                  IF \E k \in DOMAIN Header.touches : Seen(Header.touches[k]).base = f
                  THEN <<ourmod, ph_entry,
                         CHOOSE k \in DOMAIN Header.touches : Seen(Header.touches[k]).base = f>>
                  ELSE data[f]]
    /\ Cache(ToSet(Header.touches))
    /\ UNCHANGED <<memory, pc, walk, ret, loops, scan, lost, ourmod, ph_entry, p>>

CopyFault ==
    /\ At("copy", "halted")
    /\ \E a \in ToSet(Header.touches) : "writable" \notin Seen(a).access
    /\ UNCHANGED <<vars, ourmod, ph_entry, p, data>>

ProtectSegment ==
    /\ At("protect", "headers")
    /\ vm_protect(Header.touches[1], Rights(Header))
    /\ ph_entry' = ph_entry + 1
    /\ UNCHANGED <<ourmod, p, data>>

\* vm_map's result is not looked at here either.
MapStack ==
    /\ At("headers", "headers")
    /\ ~HeadersLeft
    /\ p \in DOMAIN user_stack
    /\ vm_map(user_stack[p], {"user", "writable"})
    /\ p' = p + 1
    /\ UNCHANGED <<ourmod, ph_entry, data>>

usermode_entry ==
    /\ At("headers", "user")
    /\ ~HeadersLeft
    /\ p \notin DOMAIN user_stack
    /\ UNCHANGED <<vars, ourmod, ph_entry, p, data>>
-----------------------------------------------------------------------------
(***************************************************************************)
(* The program: its first instruction is at e_entry and uses the stack.    *)
(***************************************************************************)
StackTop == user_stack[Len(user_stack)]
CanRun ==
    /\ {"user", "executable"} \subseteq Seen(Modules[ourmod].e_entry).access
    /\ {"user", "writable"} \subseteq Seen(StackTop).access

ProgramFault ==
    /\ At("user", "halted")
    /\ ~CanRun
    /\ UNCHANGED <<vars, ourmod, ph_entry, p, data>>

ProgramTouch(a) == step = "user" /\ CanRun /\ Touch(a) /\ UNCHANGED execvars

\* The call arrives through int 0x80 and syscall_handler's SYS_EXEC.
ProgramExec(call) == step = "user" /\ CanRun /\ exec_setup(call)

BootExec == step = "boot" /\ exec_setup(BootCall)
-----------------------------------------------------------------------------
ExecInit ==
    /\ Init
    /\ step = "boot"
    /\ modulename = BootCall
    /\ ourmod = 0
    /\ ph_entry = 1
    /\ p = 1
    /\ data = [f \in Frames \cup {0} |-> Zero]

ExecStep ==
    \/ BootExec
    \/ NameFault \/ FindModule \/ NotFound
    \/ SkipHeader \/ MapSegment \/ CopySegment \/ CopyFault \/ ProtectSegment
    \/ MapStack \/ usermode_entry
    \/ ProgramFault
    \/ KernelStep /\ UNCHANGED execvars

ExecNext ==
    \/ ExecStep
    \/ \E a \in Touched : ProgramTouch(a)
    \/ \E call \in UserCalls : ProgramExec(call)

ExecSpec == ExecInit /\ [][ExecNext]_allvars

(***************************************************************************)
(* The processor keeps executing the kernel; no program has to call exec.  *)
(***************************************************************************)
ExecFairSpec == ExecSpec /\ WF_allvars(ExecStep)
-----------------------------------------------------------------------------
(***************************************************************************)
(* Properties.                                                             *)
(***************************************************************************)

\* Types of both parts; a module is known once exec_setup has found one.
ExecTypeOK ==
    /\ TypeOK
    /\ step \in {"boot", "find", "headers", "copy", "protect", "user", "halted"}
    /\ modulename \in UserCalls \cup {BootCall}
    /\ step \in {"headers", "copy", "protect", "user"} => ourmod \in DOMAIN Modules
    /\ step \in {"copy", "protect"} => HeadersLeft /\ Loadable(Header)
    /\ p \in 1..Len(user_stack) + 1

(***************************************************************************)
(* A program never runs half loaded: when it starts, and as long as it     *)
(* runs, every loadable segment is in memory, whole, under the permissions *)
(* of its program header, and no page of the stack can be executed.  When  *)
(* memory runs out in a segment, or a segment is larger than the one page  *)
(* that is mapped for it, exec_setup stops before it.                      *)
(***************************************************************************)
StartsWhole ==
    step = "user" =>
        /\ \A i \in Loads(Modules[ourmod]) :
              LET s == Modules[ourmod].segments[i]
              IN  \A k \in DOMAIN s.touches :
                     /\ Seen(s.touches[k]).access = {"read"} \cup Rights(s)
                     /\ data[Seen(s.touches[k]).base] = <<ourmod, i, k>>
        /\ \A a \in ToSet(user_stack) : Seen(a).access \in {{}, {"read", "user", "writable"}}

OwnPages(m) ==
    ToSet(user_stack) \cup UNION {ToSet(m.segments[i].touches) : i \in Loads(m)}

(***************************************************************************)
(* Nothing of its predecessors is left to a program, neither in the page   *)
(* tables nor in a cached translation, however many exec calls went before.*)
(***************************************************************************)
OnlyOwnPages ==
    step = "user" =>
        \A a \in UserPages : Seen(a).access # {} => a \in OwnPages(Modules[ourmod])

(***************************************************************************)
(* An exec comes to an end: a program runs or the machine has stopped,     *)
(* also when memory is used up.                                            *)
(***************************************************************************)
ExecEnds == step \notin {"user", "halted"} ~> step \in {"user", "halted"}

(***************************************************************************)
(* init.c: "if inputs match module names, exec": the exec of a name that   *)
(* is a module's does not stop the machine.                                *)
(***************************************************************************)
NamedModuleRuns ==
    step = "halted" => \A m \in ToSet(Modules) : m.string # modulename.string

(***************************************************************************)
(* exec stops the machine for one of four reasons only: the name is in the *)
(* memory that has just been unmapped, there is no such module, as there   *)
(* is no "sleep" in limine.cfg, a segment is larger than a page, or the    *)
(* last free page is used up, which neither the segments' nor the stack's  *)
(* vm_map is asked about.                                                  *)
(***************************************************************************)
HaltsForCause ==
    step = "halted" =>
        \/ modulename.page \in UserPages
        \/ Matching = 0
        \/ freelist = NULL
        \/ \E i \in Loads(Modules[ourmod]) : Len(Modules[ourmod].segments[i].touches) > 1
=============================================================================
