------------------------------ MODULE Teletype ------------------------------
(***************************************************************************)
(* What the terminal promises a program that prints: a screen that shows   *)
(* the last lines of what was printed.  A character goes to the end of the *)
(* last line, or to a new line when that one is full; a new line pushes    *)
(* out the oldest when there is no room.  Terminal.tla implements this     *)
(* with an array of cells.                                                 *)
(***************************************************************************)
EXTENDS Naturals, Sequences

CONSTANTS
    WIDTH, HEIGHT,   \* the size of the screen
    Printable,       \* the characters with a glyph
    Blank, NL, CR, BS

VARIABLES
    lines,           \* the lines on the screen, oldest first
    col              \* where in the last line the next character goes

vars == <<lines, col>>

BlankLine == [k \in 0..WIDTH - 1 |-> Blank]

Init == lines = <<BlankLine>> /\ col = 0

NewLine == Append(IF Len(lines) < HEIGHT THEN lines ELSE Tail(lines), BlankLine)

Put(c) ==
    LET full == col = WIDTH
        ls == IF full THEN NewLine ELSE lines
        k == IF full THEN 0 ELSE col
    IN  /\ lines' = [ls EXCEPT ![Len(ls)] = [@ EXCEPT ![k] = c]]
        /\ col' = k + 1

Feed == lines' = NewLine /\ col' = 0

Return == col' = 0 /\ UNCHANGED lines

Erase ==
    /\ col > 0
    /\ lines' = [lines EXCEPT ![Len(lines)] = [@ EXCEPT ![col - 1] = Blank]]
    /\ col' = col - 1

Next ==
    \/ \E c \in Printable : Put(c)
    \/ Feed
    \/ Return
    \/ Erase

Spec == Init /\ [][Next]_vars
=============================================================================
