------------------------------ MODULE Terminal ------------------------------
(***************************************************************************)
(* The VGA text terminal of kernel/boot.c and its two users: the write     *)
(* system call, whose loop puts one character after another, and the echo  *)
(* of a typed character, which the keyboard interrupt puts.                *)
(*                                                                         *)
(* The interrupt handler runs to completion and is one action.  kwrite     *)
(* runs with interrupts enabled; term_putchar reloads term_row and         *)
(* term_col from memory for each of its statements, and a key may          *)
(* interrupt it between any two of them, those of term_update_cursor too.  *)
(* Colours are left out.                                                   *)
(***************************************************************************)
EXTENDS Integers, Sequences

CONSTANTS
    WIDTH, HEIGHT,    \* VGA_WIDTH (80) and VGA_HEIGHT (25)
    Printable,        \* the characters with a glyph
    Blank,            \* ' '
    NL, CR, BS,       \* '\n', '\r' and '\b'
    Echoed,           \* the characters that keys produce
    EchoAt,           \* where in term_putchar a key may interrupt kwrite
    BYTE              \* 256: the values of a register of the VGA controller

Output == Printable \cup {NL, CR, BS}

ASSUME TerminalAssumption ==
    /\ WIDTH \in Nat \ {0} /\ HEIGHT \in Nat \ {0}
    /\ Blank \notin {NL, CR, BS}
    /\ NL \notin {CR, BS} /\ CR # BS
    /\ {NL, CR, BS} \cap Printable = {}
    /\ Echoed \subseteq Output
    /\ BYTE \in Nat \ {0}

VARIABLES
    screen,    \* term (the cells), term_row and term_col
    crtc,      \* the VGA controller: the index selected, and its registers
    pos,       \* term_update_cursor's variable
    pc,        \* the statement of term_putchar that kwrite is at
    c,         \* the character it is putting
    settled,   \* auxiliary: the screen that the last term_putchar to change it left
    echoed     \* auxiliary: a key has interrupted it since

vars == <<screen, crtc, pos, pc, c, settled, echoed>>

Cells == 0..WIDTH * HEIGHT - 1
Pos(s) == s.row * WIDTH + s.col

\* Store a character; the array has no cell outside Cells.
Store(s, i, ch) == [s EXCEPT !.term = [k \in Cells |-> IF k = i THEN ch ELSE @[k]]]
-----------------------------------------------------------------------------
(***************************************************************************)
(* The statements of term_putchar, each as what it makes of the screen.    *)
(***************************************************************************)

\* \r, \b and \n.
Control(s, ch) ==
    CASE ch = CR -> [s EXCEPT !.col = 0]
      [] ch = BS /\ s.col > 0 -> Store([s EXCEPT !.col = @ - 1], Pos(s) - 1, Blank)
      [] ch = NL -> [s EXCEPT !.col = 0, !.row = @ + 1]
      [] OTHER -> s

Wrap(s) == IF s.col = WIDTH THEN [s EXCEPT !.col = 0, !.row = @ + 1] ELSE s

\* Mutant: term_row stays below the screen.
ScrollRowKept(s) ==
    IF s.row = HEIGHT
    THEN [s EXCEPT !.term = [k \in Cells |-> IF k + WIDTH \in Cells THEN @[k + WIDTH]
                                             ELSE Blank]]
    ELSE s

\* Mutant: the last row is not cleared.
ScrollUncleared(s) ==
    IF s.row = HEIGHT
    THEN [s EXCEPT !.row = @ - 1,
                   !.term = [k \in Cells |-> IF k + WIDTH \in Cells THEN @[k + WIDTH]
                                             ELSE @[k]]]
    ELSE s

\* Shift the rows up by one and clear the last.
Scroll(s) ==
    IF s.row = HEIGHT
    THEN [s EXCEPT !.row = @ - 1,
                   !.term = [k \in Cells |-> IF k + WIDTH \in Cells THEN @[k + WIDTH]
                                             ELSE Blank]]
    ELSE s

Write(s, ch) == IF ch = NL THEN s ELSE Store(s, Pos(s), ch)

Advance(s, ch) == IF ch = NL THEN s ELSE [s EXCEPT !.col = @ + 1]

\* The whole function, as the interrupt handler runs it.
term_putchar(s, ch) ==
    IF ch \in {CR, BS} THEN Control(s, ch)
    ELSE LET t == Scroll(Wrap(Control(s, ch)))
         IN  Advance(Write(t, ch), ch)
-----------------------------------------------------------------------------
(***************************************************************************)
(* The VGA controller: port 0x3D4 selects a register, 0x3D5 is the one     *)
(* selected.  Registers 14 and 15 are the cursor's position, 10 and 11 its *)
(* first and last scan line; 32 in register 10 turns the cursor off.       *)
(***************************************************************************)
Registers == {10, 11, 14, 15}
CursorSteps == {"cursor", "select15", "put15", "select14", "put14"}

Select(v, i) == [v EXCEPT !.index = i]
Put(v, byte) == [v EXCEPT !.reg = [@ EXCEPT ![v.index] = byte]]
Selected(v) == v.reg[v.index]

\* The bits of 0xC0 and 0xE0 are kept.
term_enable_cursor(v) ==
    LET first == Select(v, 10)
        last == Select(Put(first, (Selected(first) \div 64) * 64 + 13), 11)
    IN  Put(last, (Selected(last) \div 32) * 32 + 15)

term_update_cursor(v, p) ==
    Put(Select(Put(Select(v, 15), p % BYTE), 14), p \div BYTE)

Cursor(v) == v.reg[14] * BYTE + v.reg[15]
-----------------------------------------------------------------------------
(***************************************************************************)
(* The two users.                                                          *)
(***************************************************************************)

\* The cells are cleared and the cursor goes to the corner.
term_clear == [term |-> [k \in Cells |-> Blank], row |-> 0, col |-> 0]

\* term_init; the cursor may have been on or off.
Init ==
    /\ screen = term_clear
    /\ \E off \in {0, 32} :
          LET v == [index |-> 14, reg |-> [i \in Registers |-> IF i = 10 THEN off ELSE 0]]
          IN  crtc = term_update_cursor(term_enable_cursor(v), Pos(screen))
    /\ pos = 0
    /\ pc = "idle"
    /\ c = Blank
    /\ settled = screen
    /\ echoed = FALSE

\* Mutant: \r and \b return without term_update_cursor.
kwriteNoCursor(ch) ==
    /\ pc = "idle"
    /\ c' = ch
    /\ screen' = Control(screen, ch)
    /\ settled' = IF ch \in {CR, BS} THEN screen' ELSE screen
    /\ pc' = IF ch \in {CR, BS} THEN "idle" ELSE "wrap"
    /\ echoed' = FALSE
    /\ UNCHANGED <<crtc, pos>>

\* kwrite's loop calls term_putchar, which starts with the control characters.
kwrite(ch) ==
    /\ pc = "idle"
    /\ c' = ch
    /\ screen' = Control(screen, ch)
    /\ settled' = IF ch \in {CR, BS} THEN screen' ELSE screen
    /\ pc' = IF ch \in {CR, BS} THEN "cursor" ELSE "wrap"
    /\ echoed' = FALSE
    /\ UNCHANGED <<crtc, pos>>

At(here, next) ==
    /\ pc = here
    /\ pc' = next
    /\ settled' = IF next \in CursorSteps THEN screen' ELSE settled
    /\ c' = IF next = "idle" THEN Blank ELSE c    \* c goes out of scope
    /\ UNCHANGED echoed

Statement(here, next, result) ==
    /\ screen' = result
    /\ At(here, next)
    /\ UNCHANGED <<crtc, pos>>

WrapIfNeeded == Statement("wrap", "scroll", Wrap(screen))
ScrollIfNeeded == Statement("scroll", "write", Scroll(screen))
WriteCharacter == Statement("write", "advance", Write(screen, c))
AdvanceColumn == Statement("advance", "cursor", Advance(screen, c))

LoadPos == UNCHANGED <<screen, crtc>> /\ At("cursor", "select15") /\ pos' = Pos(screen)

Port(here, next, result) ==
    /\ UNCHANGED screen
    /\ At(here, next)
    /\ crtc' = result
    /\ pos' = IF next = "idle" THEN 0 ELSE pos    \* pos goes out of scope

SelectLow == Port("select15", "put15", Select(crtc, 15))
PutLow == Port("put15", "select14", Put(crtc, pos % BYTE))
SelectHigh == Port("select14", "put14", Select(crtc, 14))
PutHigh == Port("put14", "idle", Put(crtc, pos \div BYTE))

\* char_write's kprintf, in the keyboard interrupt.
Echo(ch) ==
    /\ pc \in EchoAt
    /\ screen' = term_putchar(screen, ch)
    /\ crtc' = term_update_cursor(crtc, Pos(screen'))
    /\ echoed' = (pc # "idle")
    /\ settled' = IF pc \in {"idle"} \cup CursorSteps THEN screen' ELSE settled
    /\ UNCHANGED <<pos, pc, c>>

Next ==
    \/ \E ch \in Output : kwrite(ch)
    \/ WrapIfNeeded
    \/ ScrollIfNeeded
    \/ WriteCharacter
    \/ AdvanceColumn
    \/ LoadPos
    \/ SelectLow
    \/ PutLow
    \/ SelectHigh
    \/ PutHigh
    \/ \E ch \in Echoed : Echo(ch)

Spec == Init /\ [][Next]_vars
-----------------------------------------------------------------------------
(***************************************************************************)
(* Properties.                                                             *)
(***************************************************************************)

\* Every value of term, term_row and term_col; the row may be one past the end.
Screens == [term : [Cells -> Output \cup {Blank}], row : 0..HEIGHT, col : 0..WIDTH]

\* Types; the row is one past the end only between a new line and the scroll.
TypeOK ==
    /\ screen \in Screens /\ (screen.row = HEIGHT => pc \in {"wrap", "scroll"})
    /\ settled \in Screens /\ settled.row # HEIGHT
    /\ crtc \in [index : {14, 15}, reg : [Registers -> Nat]]
    /\ pos \in 0..WIDTH * HEIGHT
    /\ pc \in {"idle", "wrap", "scroll", "write", "advance"} \cup CursorSteps
    /\ c \in Output \cup {Blank}
    /\ echoed \in BOOLEAN

\* The lines of the screen down to the row being written.
Lines(s) ==
    [r \in 1..s.row + 1 |-> [k \in 0..WIDTH - 1 |-> s.term[(r - 1) * WIDTH + k]]]

TT == INSTANCE Teletype WITH lines <- Lines(settled), col <- settled.col

(***************************************************************************)
(* While keys come only between two characters of output or while the      *)
(* cursor is moved, the cells, the row and the column implement the        *)
(* scrolling lines of Teletype.tla: no character is lost or misplaced at   *)
(* the right edge, at the bottom or where both meet.                       *)
(***************************************************************************)
ImplementsTeletype == TT!Spec

(***************************************************************************)
(* Between characters the cursor is on and where the next character will   *)
(* go, unless a key has interrupted the last character: what interrupted   *)
(* port writes leave in the controller does not survive the next one.      *)
(***************************************************************************)
CursorRecovers ==
    pc = "idle" /\ ~echoed => Cursor(crtc) = Pos(screen) /\ (crtc.reg[10] \div 32) % 2 = 0

(***************************************************************************)
(* term_putchar's comments: "Wrap if needed", "Scroll if needed": a        *)
(* character is written to a cell of the screen.                           *)
(***************************************************************************)
WrittenOnScreen == pc = "write" /\ c # NL => Pos(screen) \in Cells
=============================================================================
