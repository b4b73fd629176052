------------------------------ MODULE Programs ------------------------------
(***************************************************************************)
(* The user programs init (the shell), echo and wait over the system calls *)
(* read, write and exec: init/init.c, echo/echo.c, wait/wait.c, the        *)
(* wrappers of stdlib and syscall_handler of kernel/systemcalls.c.         *)
(*                                                                         *)
(* One program runs, from its start to its exec; what exec does is in      *)
(* Exec.tla.  The keyboard buffer is the queue that KeyboardProofs.tla     *)
(* shows it to be.  What the programs leave uninitialised, a byte of       *)
(* init's modname and echo's pointer, holds anything.                      *)
(***************************************************************************)
EXTENDS Integers, Sequences, SequencesExt

CONSTANTS
    Chars, NUL,      \* what keys produce, and '\0'
    NAME,            \* the characters that the shell reads (4)
    init, echo, wait, \* the names of the modules
    COUNT,           \* echo's rounds, and the characters of each (20)
    Places,          \* the addresses that echo's pointer may hold
    Invalid,         \* the subset of them that is not mapped
    MaxTyped         \* bound: characters typed

Commands == {init, echo, wait}

ASSUME ProgramsAssumption ==
    /\ NAME \in Nat \ {0} /\ COUNT \in Nat \ {0} /\ MaxTyped \in Nat
    /\ NUL \notin Chars
    /\ \A name \in Commands : name \in [1..NAME -> Chars]
    /\ Invalid \subseteq Places

VARIABLES
    program,    \* the program that runs
    pc,         \* where it is
    typed,      \* characters typed and not read
    buf,        \* its buffers: modname, or what echo's pointer may point to
    to,         \* the read system call's buffer
    i,          \* kread's loop
    round,      \* echo's loop
    out,        \* what it has written
    keys        \* auxiliary: all characters typed

kernel == <<typed, keys>>
vars == <<program, pc, typed, buf, to, i, round, out, keys>>

\* The string in a buffer.
String(b) == LET n == SelectInSeq(b, LAMBDA c : c = NUL)
             IN  SubSeq(b, 1, n - 1)

Goto(name, here, next) ==
    /\ program = name /\ pc = here
    /\ pc' = next
    /\ UNCHANGED program
-----------------------------------------------------------------------------
(***************************************************************************)
(* The system calls.  syscall_handler looks at the number only, not at the *)
(* file descriptor.                                                        *)
(***************************************************************************)
SYS_READ == 0
SYS_WRITE == 1
SYS_EXEC == 3

syscall_handler(nr) ==
    CASE nr = SYS_READ -> "kread"
      [] nr = SYS_WRITE -> "kwrite"
      [] nr = SYS_EXEC -> "exec_setup"
      [] OTHER -> "-1"

\* read and write return to the program; exec ends it.
read(place) == /\ pc' = syscall_handler(SYS_READ)
               /\ to' = place
               /\ i' = 0

write(string) == out' = out \o string

\* Mutant: i <= numchars.
kreadExtra ==
    /\ pc = "kread"
    /\ typed # <<>>
    /\ typed' = Tail(typed)
    /\ i' = i + 1
    /\ buf' = [buf EXCEPT ![to] = [k \in DOMAIN @ |-> IF k = i + 1 THEN Head(typed) ELSE @[k]]]
    /\ pc' = IF i' <= (IF program = "init" THEN NAME ELSE COUNT) THEN "kread" ELSE "returned"
    /\ UNCHANGED <<program, to, round, out, keys>>

\* kread takes one character after another from kgetc.
kread ==
    /\ pc = "kread"
    /\ typed # <<>>
    /\ typed' = Tail(typed)
    /\ i' = i + 1
    /\ buf' = [buf EXCEPT ![to] = [@ EXCEPT ![i + 1] = Head(typed)]]
    /\ pc' = IF i' < (IF program = "init" THEN NAME ELSE COUNT) THEN "kread" ELSE "returned"
    /\ UNCHANGED <<program, to, round, out, keys>>

Type(ch) ==
    /\ Len(keys) < MaxTyped
    /\ typed' = Append(typed, ch)
    /\ keys' = Append(keys, ch)
    /\ UNCHANGED <<program, pc, buf, to, i, round, out>>
-----------------------------------------------------------------------------
(***************************************************************************)
(* init: modname has NAME + 1 bytes and is terminated one byte behind its  *)
(* end; the byte before is whatever it was.                                *)
(***************************************************************************)
InitStart ==
    /\ program = "init" /\ pc = "_start"
    /\ write(<<"$">>)
    /\ read("modname")
    /\ UNCHANGED <<program, kernel, buf, round>>

InitTerminate ==
    /\ Goto("init", "returned", "check")
    /\ buf' = [buf EXCEPT !.modname = [@ EXCEPT ![NAME + 2] = NUL]]
    /\ UNCHANGED <<kernel, to, i, round, out>>

\* Mutant: only the characters of the command are compared.
InitCheckPrefix ==
    /\ Goto("init", "check", syscall_handler(SYS_EXEC))
    /\ SubSeq(buf.modname, 1, NAME) \in Commands
    /\ UNCHANGED <<kernel, buf, to, i, round, out>>

\* strcmp with each of the names; valid, then exec(modname).
InitCheck ==
    /\ Goto("init", "check", syscall_handler(SYS_EXEC))
    /\ String(buf.modname) \in Commands
    /\ UNCHANGED <<kernel, buf, to, i, round, out>>

\* Mutant: the check is repeated without a read.
InitInvalidAgain ==
    /\ Goto("init", "check", "check")
    /\ String(buf.modname) \notin Commands
    /\ UNCHANGED <<kernel, buf, to, i, round, out>>

InitInvalid ==
    /\ program = "init" /\ pc = "check"
    /\ String(buf.modname) \notin Commands
    /\ write(<<"Invalid command.", "$">>)
    /\ read("modname")
    /\ UNCHANGED <<program, kernel, buf, round>>
-----------------------------------------------------------------------------
(***************************************************************************)
(* echo: its pointer holds another leftover at each use.  The kernel       *)
(* follows it; a page fault halts the machine.                             *)
(***************************************************************************)
EchoStart ==
    /\ Goto("echo", "_start", "loop")
    /\ write(<<"$">>)
    /\ UNCHANGED <<kernel, buf, to, i, round>>

EchoRead(place) ==
    /\ program = "echo" /\ pc = "loop" /\ round < COUNT
    /\ IF place \in Invalid THEN pc' = "halted" /\ UNCHANGED <<to, i>> ELSE read(place)
    /\ UNCHANGED <<program, kernel, buf, round, out>>

EchoNext ==
    /\ Goto("echo", "returned", "loop")
    /\ round' = round + 1
    /\ UNCHANGED <<kernel, buf, to, i, out>>

EchoWrite(place) ==
    /\ Goto("echo", "loop", IF place \in Invalid THEN "halted" ELSE "exit")
    /\ round = COUNT
    /\ out' = IF place \in Invalid THEN out ELSE out \o String(buf[place])
    /\ UNCHANGED <<kernel, buf, to, i, round>>

\* exit is exec("init").
EchoExit ==
    /\ Goto("echo", "exit", syscall_handler(SYS_EXEC))
    /\ UNCHANGED <<kernel, buf, to, i, round, out>>

\* wait counts, writes and loops; its exit is never reached.
WaitStart ==
    /\ Goto("wait", "_start", "forever")
    /\ write(<<"finished sleep">>)
    /\ UNCHANGED <<kernel, buf, to, i, round>>
-----------------------------------------------------------------------------
\* The memory at a place: characters, a terminator somewhere behind them.
Block(n) == {Append(b, NUL) : b \in [1..n -> Chars \cup {NUL}]}

Init ==
    /\ program \in {"init", "echo", "wait"}
    /\ pc = "_start"
    /\ typed = <<>> /\ keys = <<>>
    /\ buf \in IF program = "init" THEN [{"modname"} -> Block(NAME + 1)]
                ELSE [Places \ Invalid -> Block(COUNT)]
    /\ to = "modname"
    /\ i = 0 /\ round = 0
    /\ out = <<>>

Step ==
    \/ kread
    \/ InitStart \/ InitTerminate \/ InitCheck \/ InitInvalid
    \/ EchoStart \/ EchoNext \/ EchoExit
    \/ \E place \in Places : EchoRead(place) \/ EchoWrite(place)
    \/ WaitStart

Next == Step \/ \E ch \in Chars : Type(ch)

Spec == Init /\ [][Next]_vars

\* The processor runs the program; nobody has to type.
FairSpec == Spec /\ WF_vars(Step)
-----------------------------------------------------------------------------
(***************************************************************************)
(* Properties.                                                             *)
(***************************************************************************)

\* Types; a read stores no more than it was asked for.
TypeOK ==
    /\ program \in {"init", "echo", "wait"}
    /\ pc \in {"_start", "kread", "returned", "check", "loop", "exit", "exec_setup",
               "halted", "forever"}
    /\ i \in 0..(IF program = "init" THEN NAME ELSE COUNT)
    /\ round \in 0..COUNT
    /\ typed \in Seq(Chars) /\ Len(typed) <= Len(keys)

(***************************************************************************)
(* The shell calls exec only with a string that is a module's name to its  *)
(* last byte, whatever modname's uninitialised byte holds, and the name is *)
(* one group of NAME characters as the user typed them: nothing is left of *)
(* an earlier attempt.                                                     *)
(***************************************************************************)
ExecsWhatWasTyped ==
    program = "init" /\ pc = "exec_setup" =>
        LET read_ == Len(keys) - Len(typed)
        IN  /\ String(buf.modname) \in Commands
            /\ read_ % NAME = 0
            /\ String(buf.modname) = SubSeq(keys, read_ - NAME + 1, read_)

\* The shell takes all that is typed, group after group, until it execs.
ShellTakesAll ==
    program = "init" => <>[](Len(typed) < NAME \/ pc = "exec_setup")
=============================================================================
