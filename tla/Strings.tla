------------------------------ MODULE Strings -------------------------------
(***************************************************************************)
(* The string and memory functions of stdlib/string.c and memory.c, as     *)
(* loops over a memory of bytes.  The kernel scrolls the screen and loads  *)
(* programs with memcpy, clears its tables with memset, and compares       *)
(* module names, as the shell compares commands, with strcmp.              *)
(***************************************************************************)
EXTENDS Integers, Sequences, SequencesExt, FiniteSetsExt

CONSTANTS
    MEMORY,     \* the memory's size in bytes
    BYTE,       \* 256: the values of a byte
    Contents    \* bytes that the memory may start with

Addresses == 0..MEMORY - 1

VARIABLES
    mem,        \* the memory
    op,         \* the call: function, arguments, and the loop's number of rounds
    i,          \* the loop's variable
    buf,        \* strcat's array, and the byte of the stack behind it
    state,      \* "loop" or "done"
    result,     \* what the function returns
    original    \* auxiliary: the memory when it was called

vars == <<mem, op, i, buf, state, result, original>>

\* char is signed.
Signed(b) == IF b >= BYTE \div 2 THEN b - BYTE ELSE b
Sign(n) == IF n > 0 THEN 1 ELSE IF n < 0 THEN -1 ELSE 0

\* The string at p: up to its terminator.
IsString(p) == \E a \in p..MEMORY - 1 : mem[a] = 0
strlen(p) == Min({k \in 0..MEMORY - 1 - p : mem[p + k] = 0})
Garbage == -1

\* A pointer to an array that went with the function that declared it.
Dangling == MEMORY + 1
-----------------------------------------------------------------------------
(***************************************************************************)
(* A call in this memory.  The caller's blocks lie in it.                  *)
(***************************************************************************)
Call(name, a, b, c, rounds) ==
    op = [name |-> name, dest |-> a, src |-> b, arg |-> c, rounds |-> rounds]

Called ==
    \/ \E a \in Addresses, c \in 0..BYTE : \E n \in 0..MEMORY - a : Call("memset", a, a, c, n)
    \/ \E a, b \in Addresses : \E n \in 0..MEMORY - Max({a, b}) : Call("memcpy", a, b, 0, n)
    \/ \E a, b \in Addresses : /\ IsString(a) /\ IsString(b)
                               /\ Call("strcmp", a, b, 0, strlen(a))
    \/ \E a, b \in Addresses : /\ IsString(b) /\ a + strlen(b) < MEMORY
                               /\ Call("strcpy", a, b, 0, strlen(b))
    \/ \E a, b \in Addresses : /\ IsString(a)
                               /\ \E n \in 0..MEMORY - b : Call("strcat", a, b, n, strlen(a) + n)

Init ==
    /\ mem \in [Addresses -> Contents]
    /\ Called
    /\ i = 0
    /\ buf = IF op.name = "strcat" THEN [k \in 0..op.rounds + 1 |-> Garbage] ELSE <<>>
    /\ state = "loop" /\ result = 0
    /\ original = mem

In(name) == state = "loop" /\ op.name = name /\ UNCHANGED <<op, original>>
Round == i < op.rounds /\ i' = i + 1 /\ UNCHANGED <<state, result>>
Return(value) == state' = "done" /\ result' = value /\ UNCHANGED <<mem, buf, i>>

Set(a, b) == mem' = [mem EXCEPT ![a] = b] /\ UNCHANGED buf

\* The value is stored as a byte.
memset == In("memset") /\ \/ Round /\ Set(op.dest + i, op.arg % BYTE)
                          \/ i = op.rounds /\ Return(0)

\* Mutant: the bytes are copied from the last to the first.
memcpyDown == In("memcpy") /\ \/ /\ Round
                                 /\ Set(op.dest + op.rounds - 1 - i, mem[op.src + op.rounds - 1 - i])
                              \/ i = op.rounds /\ Return(0)

memcpy == In("memcpy") /\ \/ Round /\ Set(op.dest + i, mem[op.src + i])
                          \/ i = op.rounds /\ Return(0)

\* Mutant: a string is equal to the longer ones that it begins.
strcmpPrefix ==
    LET a == mem[op.dest + i]
        b == mem[op.src + i]
    IN  /\ In("strcmp")
        /\ \/ i < op.rounds /\ a # b /\ Return(Sign(Signed(a) - Signed(b)))
           \/ a = b /\ Round /\ UNCHANGED <<mem, buf>>
           \/ i = op.rounds /\ Return(0)

\* Lengths first, then the first character that differs.
strcmp ==
    LET longer == op.rounds - strlen(op.src)
        a == mem[op.dest + i]
        b == mem[op.src + i]
    IN  /\ In("strcmp")
        /\ \/ longer # 0 /\ Return(Sign(longer))
           \/ longer = 0 /\ i < op.rounds /\ a # b /\ Return(Sign(Signed(a) - Signed(b)))
           \/ longer = 0 /\ a = b /\ Round /\ UNCHANGED <<mem, buf>>
           \/ longer = 0 /\ i = op.rounds /\ Return(0)

\* It returns the pointer that the loop has moved.
strcpy == In("strcpy") /\ \/ Round /\ Set(op.dest + i, mem[op.src + i])
                          \/ i = op.rounds /\ Return(op.dest + i)

\* Two loops fill buf from dest and then src.  The array has oglen + len + 1 elements:
\* the terminator goes to the byte behind them, and the array goes with the return.
strcat ==
    LET oglen == op.rounds - op.arg
        from == IF i < oglen THEN op.dest + i ELSE op.src + i - oglen
    IN  /\ In("strcat")
        /\ \/ Round /\ buf' = [buf EXCEPT ![i] = mem[from]] /\ UNCHANGED mem
           \/ /\ i = op.rounds
              /\ buf' = [buf EXCEPT ![op.rounds + 1] = 0]
              /\ state' = "done" /\ result' = Dangling
              /\ UNCHANGED <<mem, i>>

Next == memset \/ memcpy \/ strcmp \/ strcpy \/ strcat

Spec == Init /\ [][Next]_vars
-----------------------------------------------------------------------------
(***************************************************************************)
(* Properties.                                                             *)
(***************************************************************************)

\* Types; no function returns anything but its place in memory or an order.
TypeOK ==
    /\ mem \in [Addresses -> 0..BYTE - 1]
    /\ i \in 0..op.rounds
    /\ state \in {"loop", "done"}
    /\ result \in -1..MEMORY + 1

(***************************************************************************)
(* memcpy moves a block even onto one that overlaps it, if it moves down:  *)
(* the scrolling terminal copies the screen over itself by one row.        *)
(* strcpy moves a string's characters, likewise.  They and memset change   *)
(* no byte outside the block, but for strcpy's terminator, of which this   *)
(* says nothing, and strcmp and strcat change none.                        *)
(***************************************************************************)
BlockMoved ==
    state = "done" =>
        \A a \in Addresses :
            LET k == a - op.dest
            IN  IF op.name \in {"strcmp", "strcat"} \/ k \notin 0..op.rounds - 1
                THEN mem[a] = original[a] \/ (op.name = "strcpy" /\ k = op.rounds)
                ELSE \/ op.name = "memset" /\ mem[a] = op.arg % BYTE
                     \/ op.name # "memset" /\ mem[a] = original[op.src + k]
                     \/ op.name # "memset" /\ op.dest \in op.src + 1..op.src + op.rounds - 1

\* The rank of a string: its characters as the digits of a number.
Rank(p) ==
    LET rank[k \in 0..strlen(p)] ==
            IF k = 0 THEN 0 ELSE rank[k - 1] * BYTE + Signed(mem[p + k - 1])
    IN  rank[strlen(p)]

(***************************************************************************)
(* strcmp is an order, by length and then by the characters: in particular *)
(* it is 0 for equal strings only, which is how the loader finds a module  *)
(* and the shell a command.                                                *)
(***************************************************************************)
StrcmpOrders ==
    state = "done" /\ op.name = "strcmp" =>
        result = IF strlen(op.dest) # strlen(op.src)
                 THEN Sign(strlen(op.dest) - strlen(op.src))
                 ELSE Sign(Rank(op.dest) - Rank(op.src))
=============================================================================
