------------------------------ MODULE KeyQueue ------------------------------
(***************************************************************************)
(* What the console promises a program that calls read(): the characters   *)
(* typed at the keyboard arrive in the order they were typed, each exactly *)
(* once, and a read returns when it has as many of them as it asked for.   *)
(*                                                                         *)
(* This is the abstract specification that Keyboard.tla (the interrupt     *)
(* handler, the circular buffer and the system call) implements.           *)
(***************************************************************************)
EXTENDS Naturals, Sequences

CONSTANTS
    Char,       \* the characters a key can produce
    Sizes       \* the numbers of characters a read may ask for

VARIABLES
    queue,      \* characters typed and not yet delivered, oldest first
    reading,    \* is a read in progress?
    wanted,     \* how many characters the current (or last) read asked for
    got         \* what that read has been given so far

vars == <<queue, reading, wanted, got>>

Init ==
    /\ queue = <<>>
    /\ reading = FALSE
    /\ wanted = 0
    /\ got = <<>>

\* A key is pressed: its character joins the queue.
Press(c) ==
    /\ queue' = Append(queue, c)
    /\ UNCHANGED <<reading, wanted, got>>

\* A program calls read; a read of nothing returns at once.
Request(n) ==
    /\ ~reading
    /\ reading' = (n > 0)
    /\ wanted' = n
    /\ got' = <<>>
    /\ UNCHANGED queue

\* The oldest character goes to the reader; the last one wanted ends the read.
Deliver ==
    /\ reading
    /\ queue # <<>>
    /\ got' = Append(got, Head(queue))
    /\ queue' = Tail(queue)
    /\ reading' = (Len(got) + 1 < wanted)
    /\ UNCHANGED wanted

Next ==
    \/ \E c \in Char : Press(c)
    \/ \E n \in Sizes : Request(n)
    \/ Deliver

Spec == Init /\ [][Next]_vars

(***************************************************************************)
(* A read that waits while there is something to deliver is served.        *)
(***************************************************************************)
FairSpec == Spec /\ WF_vars(Deliver)
=============================================================================
