--------------------------- MODULE TerminalProofs ---------------------------
(***************************************************************************)
(* Proofs about Terminal.tla, for every size of the screen and every set   *)
(* of characters.  Keys come between two characters of output or while the *)
(* cursor is moved; terminal_echo shows what they do elsewhere.            *)
(***************************************************************************)
EXTENDS Terminal, SequenceTheorems, TLAPS

\* No key interrupts the statements that change the screen.
KeysBetween == EchoAt \subseteq {"idle"} \cup CursorSteps

-----------------------------------------------------------------------------
(***************************************************************************)
(* Cells: the row and the column of a cell determine it and it them.       *)
(***************************************************************************)

\* A row and a column of the screen are a cell.
LEMMA CellInRange ==
  ASSUME NEW r \in 0..HEIGHT - 1, NEW k \in 0..WIDTH - 1
  PROVE  /\ r * WIDTH + k \in Cells
         /\ r * WIDTH + WIDTH <= WIDTH * HEIGHT
<1>0. WIDTH \in Nat /\ HEIGHT \in Nat /\ r \in Nat
  BY TerminalAssumption
<1> DEFINE d == HEIGHT - 1 - r
<1>1. d \in Nat /\ HEIGHT = d + r + 1
  BY <1>0
<1> HIDE DEF d
<1>2. d * WIDTH \in Nat /\ r * WIDTH \in Nat
  BY <1>0, <1>1
<1>3. WIDTH * HEIGHT = d * WIDTH + r * WIDTH + WIDTH
  BY <1>0, <1>1
<1> QED BY <1>0, <1>2, <1>3 DEF Cells

\* Cells of an earlier row come first.
LEMMA RowBefore ==
  ASSUME NEW q \in Nat, NEW r \in Nat, q < r
  PROVE  q * WIDTH + WIDTH <= r * WIDTH
<1>0. WIDTH \in Nat
  BY TerminalAssumption
<1> DEFINE d == r - 1 - q
<1>1. d \in Nat /\ r = d + q + 1
  OBVIOUS
<1> HIDE DEF d
<1>2. d * WIDTH \in Nat
  BY <1>0, <1>1
<1>3. r * WIDTH = d * WIDTH + q * WIDTH + WIDTH
  BY <1>0, <1>1
<1> QED BY <1>0, <1>2, <1>3

\* Two places of the screen with the same cell are the same.
LEMMA CellUnique ==
  ASSUME NEW q \in Nat, NEW r \in Nat, NEW j \in 0..WIDTH - 1, NEW k \in 0..WIDTH - 1,
         q * WIDTH + j = r * WIDTH + k
  PROVE  q = r /\ j = k
<1>0. WIDTH \in Nat /\ q * WIDTH \in Nat /\ r * WIDTH \in Nat
  BY TerminalAssumption
<1>1. ~(q < r)
  BY <1>0, RowBefore
<1>2. ~(r < q)
  BY <1>0, RowBefore
<1>3. q = r
  BY <1>1, <1>2
<1> QED BY <1>0, <1>3
-----------------------------------------------------------------------------
(***************************************************************************)
(* The statements of term_putchar on a screen that it has left: the row is *)
(* on the screen, and nothing is written below it.                         *)
(***************************************************************************)
Settled(s) ==
    /\ s \in Screens
    /\ s.row # HEIGHT
    /\ \A k \in Cells : k >= (s.row + 1) * WIDTH => s.term[k] = Blank

\* What a new line makes of a screen: the next row, or the last one scrolled up.
NextLine(s) ==
    IF s.row + 1 = HEIGHT
    THEN [term |-> [k \in Cells |-> IF k + WIDTH \in Cells THEN s.term[k + WIDTH]
                                    ELSE Blank],
          row |-> s.row, col |-> 0]
    ELSE [term |-> s.term, row |-> s.row + 1, col |-> 0]

\* The fields of a screen.
LEMMA ScreenFields ==
  ASSUME NEW s \in Screens
  PROVE  /\ s = [term |-> s.term, row |-> s.row, col |-> s.col]
         /\ s.term \in [Cells -> Output \cup {Blank}]
         /\ s.row \in 0..HEIGHT /\ s.col \in 0..WIDTH
BY DEF Screens

\* What the statements do to the fields of a screen.
LEMMA StatementFields ==
  ASSUME NEW s \in Screens
  PROVE  /\ Control(s, CR) = [term |-> s.term, row |-> s.row, col |-> 0]
         /\ Control(s, NL) = [term |-> s.term, row |-> s.row + 1, col |-> 0]
         /\ s.col > 0 =>
               Control(s, BS) = Store([term |-> s.term, row |-> s.row, col |-> s.col - 1],
                                      Pos(s) - 1, Blank)
         /\ s.col = WIDTH => Wrap(s) = [term |-> s.term, row |-> s.row + 1, col |-> 0]
         /\ s.row = HEIGHT =>
               Scroll(s) = [term |-> [k \in Cells |-> IF k + WIDTH \in Cells
                                                      THEN s.term[k + WIDTH] ELSE Blank],
                            row |-> s.row - 1, col |-> s.col]
<1> DEFINE t == s.term  r == s.row  j == s.col
<1>0. s = [term |-> t, row |-> r, col |-> j]
  BY ScreenFields
<1>a. s.term = t /\ s.row = r /\ s.col = j
  OBVIOUS
<1> HIDE DEF t, r, j
<1>1. Control(s, CR) = [term |-> t, row |-> r, col |-> 0]
  BY <1>0, TerminalAssumption DEF Control
<1>2. Control(s, NL) = [term |-> t, row |-> r + 1, col |-> 0]
  BY <1>0, TerminalAssumption DEF Control
<1>3. j > 0 => Control(s, BS) = Store([term |-> t, row |-> r, col |-> j - 1], Pos(s) - 1, Blank)
  <2>1. [s EXCEPT !.col = @ - 1] = [term |-> t, row |-> r, col |-> j - 1]
    BY <1>0
  <2>2. s.col > 0 => Control(s, BS) = Store([s EXCEPT !.col = @ - 1], Pos(s) - 1, Blank)
    BY TerminalAssumption DEF Control
  <2> QED BY <1>a, <2>1, <2>2
<1>4. j = WIDTH => Wrap(s) = [term |-> t, row |-> r + 1, col |-> 0]
  BY <1>0 DEF Wrap
<1>5. r = HEIGHT =>
         Scroll(s) = [term |-> [k \in Cells |-> IF k + WIDTH \in Cells THEN t[k + WIDTH]
                                                ELSE Blank],
                      row |-> r - 1, col |-> j]
  BY <1>0 DEF Scroll
<1> QED BY <1>a, <1>1, <1>2, <1>3, <1>4, <1>5

\* ... and those that take a character.
LEMMA StoreFields ==
  ASSUME NEW s \in Screens, NEW i, NEW ch
  PROVE  /\ Store(s, i, ch) = [term |-> [k \in Cells |-> IF k = i THEN ch ELSE s.term[k]],
                               row |-> s.row, col |-> s.col]
         /\ ch # NL => Advance(s, ch) = [term |-> s.term, row |-> s.row, col |-> s.col + 1]
<1> DEFINE t == s.term  r == s.row  j == s.col
<1>0. s = [term |-> t, row |-> r, col |-> j]
  BY ScreenFields
<1>a. s.term = t /\ s.row = r /\ s.col = j
  OBVIOUS
<1> HIDE DEF t, r, j
<1>1. Store(s, i, ch) = [term |-> [k \in Cells |-> IF k = i THEN ch ELSE t[k]],
                         row |-> r, col |-> j]
  BY <1>0 DEF Store
<1>2. ch # NL => Advance(s, ch) = [term |-> t, row |-> r, col |-> j + 1]
  BY <1>0 DEF Advance
<1> QED BY <1>a, <1>1, <1>2

\* Wrapping and scrolling after a new line character.
LEMMA ScrollAfterNewline ==
  ASSUME NEW s, Settled(s)
  PROVE  /\ Control(s, NL) \in Screens /\ Control(s, NL).col = 0
         /\ Wrap(Control(s, NL)) \in Screens /\ Wrap(Control(s, NL)).col = 0
         /\ Scroll(Wrap(Control(s, NL))) = NextLine(s)
<1>1. /\ s = [term |-> s.term, row |-> s.row, col |-> s.col]
      /\ s.term \in [Cells -> Output \cup {Blank}]
      /\ s.row \in 0..HEIGHT - 1
  BY ScreenFields, TerminalAssumption DEF Settled
<1>2. WIDTH \in Nat /\ WIDTH # 0 /\ HEIGHT \in Nat
  BY TerminalAssumption
<1> DEFINE u == [term |-> s.term, row |-> s.row + 1, col |-> 0]
<1>3. Control(s, NL) = u
  BY StatementFields DEF Settled
<1>4. u \in Screens
  BY <1>1, <1>2 DEF Screens
<1>5. Wrap(u) = u
  BY <1>2 DEF Wrap
<1>6. Scroll(u) = NextLine(s)
  <2>1. CASE s.row + 1 = HEIGHT
    <3>1. u.term = s.term /\ u.row = HEIGHT /\ u.row - 1 = s.row /\ u.col = 0
      BY <1>1, <1>2, <2>1
    <3> QED BY <1>4, <2>1, <3>1, StatementFields DEF NextLine
  <2>2. CASE s.row + 1 # HEIGHT
    BY <2>2 DEF Scroll, NextLine
  <2> QED BY <2>1, <2>2
<1> QED BY <1>3, <1>4, <1>5, <1>6

\* Wrapping and scrolling before a printable character.
LEMMA ScrollBeforePrintable ==
  ASSUME NEW s, Settled(s), NEW ch \in Printable
  PROVE  /\ Control(s, ch) = s
         /\ Wrap(s) \in Screens /\ Wrap(s).col < WIDTH
         /\ Scroll(Wrap(s)) = IF s.col = WIDTH THEN NextLine(s) ELSE s
<1>1. /\ s = [term |-> s.term, row |-> s.row, col |-> s.col]
      /\ s.term \in [Cells -> Output \cup {Blank}]
      /\ s.row \in 0..HEIGHT - 1 /\ s.col \in 0..WIDTH
  BY ScreenFields, TerminalAssumption DEF Settled
<1>2. WIDTH \in Nat /\ WIDTH # 0 /\ HEIGHT \in Nat /\ ch \notin {CR, BS, NL}
  BY TerminalAssumption
<1>3. Control(s, ch) = s
  BY <1>2 DEF Control
<1>4. CASE s.col = WIDTH
  <2> DEFINE u == [term |-> s.term, row |-> s.row + 1, col |-> 0]
  <2>1. Wrap(s) = u
    BY <1>4, StatementFields DEF Settled
  <2>2. u \in Screens
    BY <1>1, <1>2 DEF Screens
  <2>3. Scroll(u) = NextLine(s)
    <3>1. CASE s.row + 1 = HEIGHT
      <4>1. u.term = s.term /\ u.row = HEIGHT /\ u.row - 1 = s.row /\ u.col = 0
        BY <1>1, <1>2, <3>1
      <4> QED BY <2>2, <3>1, <4>1, StatementFields DEF NextLine
    <3>2. CASE s.row + 1 # HEIGHT
      BY <3>2 DEF Scroll, NextLine
    <3> QED BY <3>1, <3>2
  <2> QED BY <1>2, <1>3, <1>4, <2>1, <2>2, <2>3
<1>5. CASE s.col # WIDTH
  <2>1. Wrap(s) = s /\ Scroll(s) = s
    BY <1>1, <1>2, <1>5 DEF Wrap, Scroll
  <2>2. s.col < WIDTH
    BY <1>1, <1>2, <1>5
  <2> QED BY <1>3, <1>5, <2>1, <2>2 DEF Settled
<1> QED BY <1>4, <1>5

\* A new line leaves the screen settled, with room for a character.
LEMMA NextLineSettled ==
  ASSUME NEW s, Settled(s)
  PROVE  Settled(NextLine(s)) /\ NextLine(s).col = 0
<1>1. /\ s.term \in [Cells -> Output \cup {Blank}]
      /\ s.row \in 0..HEIGHT - 1
  BY ScreenFields, TerminalAssumption DEF Settled
<1>2. WIDTH \in Nat /\ WIDTH # 0 /\ HEIGHT \in Nat /\ 0 \in 0..WIDTH
  BY TerminalAssumption
<1>3. CASE s.row + 1 = HEIGHT
  <2> DEFINE f == [k \in Cells |-> IF k + WIDTH \in Cells THEN s.term[k + WIDTH] ELSE Blank]
             u == [term |-> f, row |-> s.row, col |-> 0]
  <2>1. NextLine(s) = u
    BY <1>3 DEF NextLine
  <2>2. f \in [Cells -> Output \cup {Blank}]
    BY <1>1
  <2>3. u \in Screens /\ u.row # HEIGHT /\ u.term = f /\ u.row = s.row /\ u.col = 0
    BY <1>1, <1>2, <2>2 DEF Screens
  <2>4. ASSUME NEW k \in Cells PROVE ~(k >= (s.row + 1) * WIDTH)
    BY <1>2, <1>3, <2>4 DEF Cells
  <2> QED BY <2>1, <2>3, <2>4 DEF Settled
<1>4. CASE s.row + 1 # HEIGHT
  <2> DEFINE u == [term |-> s.term, row |-> s.row + 1, col |-> 0]
  <2>1. NextLine(s) = u
    BY <1>4 DEF NextLine
  <2>2. u \in Screens /\ u.row # HEIGHT /\ u.term = s.term /\ u.row = s.row + 1 /\ u.col = 0
    BY <1>1, <1>2, <1>4 DEF Screens
  <2>3. ASSUME NEW k \in Cells, k >= (s.row + 2) * WIDTH PROVE s.term[k] = Blank
    <3>1. (s.row + 2) * WIDTH = (s.row + 1) * WIDTH + WIDTH
      BY <1>1, <1>2
    <3>2. (s.row + 1) * WIDTH \in Nat /\ k \in Int
      BY <1>1, <1>2 DEF Cells
    <3>3. k >= (s.row + 1) * WIDTH
      BY <1>2, <2>3, <3>1, <3>2
    <3> QED BY <3>3 DEF Settled
  <2>4. (s.row + 1) + 1 = s.row + 2
    BY <1>1
  <2> QED BY <2>1, <2>2, <2>3, <2>4 DEF Settled
<1> QED BY <1>3, <1>4

\* Storing a character in the row being written and moving on.
LEMMA PutSettled ==
  ASSUME NEW s, Settled(s), s.col < WIDTH, NEW ch \in Printable
  PROVE  LET w == Write(s, ch)
             t == Advance(w, ch)
         IN  /\ w = [term |-> [s.term EXCEPT ![Pos(s)] = ch], row |-> s.row, col |-> s.col]
             /\ t = [term |-> [s.term EXCEPT ![Pos(s)] = ch], row |-> s.row, col |-> s.col + 1]
             /\ w \in Screens /\ Settled(t) /\ Pos(s) \in Cells
<1>1. /\ s = [term |-> s.term, row |-> s.row, col |-> s.col]
      /\ s.term \in [Cells -> Output \cup {Blank}]
      /\ s.row \in 0..HEIGHT - 1 /\ s.col \in 0..WIDTH - 1
  BY ScreenFields, TerminalAssumption DEF Settled
<1>2. WIDTH \in Nat /\ WIDTH # 0 /\ HEIGHT \in Nat /\ ch # NL /\ ch \in Output
  BY TerminalAssumption DEF Output
<1> DEFINE p == Pos(s)
           f == [s.term EXCEPT ![p] = ch]
           w == [term |-> f, row |-> s.row, col |-> s.col]
           t == [term |-> f, row |-> s.row, col |-> s.col + 1]
<1>3. p \in Cells
  BY <1>1, CellInRange DEF Pos
<1>4. f \in [Cells -> Output \cup {Blank}]
  BY <1>1, <1>2
<1>5. Write(s, ch) = w
  <2>1. [k \in Cells |-> IF k = p THEN ch ELSE s.term[k]] = f
    BY <1>1, <1>3
  <2>2. Write(s, ch) = Store(s, p, ch)
    BY <1>2 DEF Write
  <2>3. Store(s, p, ch) = [term |-> [k \in Cells |-> IF k = p THEN ch ELSE s.term[k]],
                           row |-> s.row, col |-> s.col]
    BY StoreFields DEF Settled
  <2> QED BY <2>1, <2>2, <2>3
<1>6. w \in Screens /\ t \in Screens
  BY <1>1, <1>2, <1>4 DEF Screens
<1>7. Advance(w, ch) = t
  BY <1>2, <1>6, StoreFields
<1>8. ASSUME NEW k \in Cells, k >= (s.row + 1) * WIDTH PROVE f[k] = Blank
  <2>1. s.term[k] = Blank
    BY <1>8 DEF Settled
  <2>2. p < (s.row + 1) * WIDTH /\ (s.row + 1) * WIDTH \in Nat
    BY <1>1, <1>2 DEF Pos
  <2>3. k # p /\ k \in Int /\ p \in Int
    BY <1>3, <1>8, <2>2 DEF Cells
  <2> QED BY <1>1, <2>1, <2>3
<1>9. Settled(t)
  <2>1. t.row = s.row /\ t.term = f
    OBVIOUS
  <2> QED BY <1>1, <1>2, <1>6, <1>8, <2>1 DEF Settled
<1> QED BY <1>3, <1>5, <1>6, <1>7, <1>9

\* \r and \b.
LEMMA ControlSettled ==
  ASSUME NEW s, Settled(s), NEW ch \in {CR, BS}
  PROVE  /\ Settled(Control(s, ch))
         /\ ch = CR => Control(s, ch) = [term |-> s.term, row |-> s.row, col |-> 0]
         /\ ch = BS /\ s.col > 0 =>
               /\ Pos(s) - 1 \in Cells
               /\ Control(s, ch) = [term |-> [s.term EXCEPT ![Pos(s) - 1] = Blank],
                                    row |-> s.row, col |-> s.col - 1]
         /\ ch = BS /\ s.col = 0 => Control(s, ch) = s
<1>1. /\ s = [term |-> s.term, row |-> s.row, col |-> s.col]
      /\ s.term \in [Cells -> Output \cup {Blank}]
      /\ s.row \in 0..HEIGHT - 1 /\ s.col \in 0..WIDTH
  BY ScreenFields, TerminalAssumption DEF Settled
<1>2. WIDTH \in Nat /\ WIDTH # 0 /\ HEIGHT \in Nat /\ CR # BS /\ NL # BS
  BY TerminalAssumption
<1>3. CASE ch = CR
  <2> DEFINE t == [term |-> s.term, row |-> s.row, col |-> 0]
  <2>1. Control(s, ch) = t
    BY <1>3, StatementFields DEF Settled
  <2>2. t \in Screens /\ t.row = s.row /\ t.term = s.term
    BY <1>1, <1>2 DEF Screens
  <2>3. Settled(t)
    BY <2>2 DEF Settled
  <2> QED BY <1>2, <1>3, <2>1, <2>3
<1>4. CASE ch = BS /\ s.col > 0
  <2> DEFINE p == Pos(s) - 1
             f == [s.term EXCEPT ![p] = Blank]
             t == [term |-> f, row |-> s.row, col |-> s.col - 1]
  <2>1. p \in Cells
    <3>1. s.col - 1 \in 0..WIDTH - 1 /\ p = s.row * WIDTH + (s.col - 1)
      BY <1>1, <1>2, <1>4 DEF Pos
    <3> QED BY <1>1, <3>1, CellInRange
  <2>2. f \in [Cells -> Output \cup {Blank}]
    BY <1>1
  <2>3. Control(s, ch) = t
    <3> DEFINE u == [term |-> s.term, row |-> s.row, col |-> s.col - 1]
    <3>0. u \in Screens
      BY <1>1, <1>2, <1>4 DEF Screens
    <3>1. Control(s, ch) = Store(u, p, Blank)
      BY <1>4, StatementFields DEF Settled
    <3>2. [k \in Cells |-> IF k = p THEN Blank ELSE s.term[k]] = f
      BY <1>1, <2>1
    <3>3. Store(u, p, Blank) = [term |-> [k \in Cells |-> IF k = p THEN Blank ELSE s.term[k]],
                                row |-> s.row, col |-> s.col - 1]
      BY <3>0, StoreFields
    <3> QED BY <3>1, <3>2, <3>3
  <2>4. t \in Screens /\ t.row = s.row /\ t.term = f
    BY <1>1, <1>2, <1>4, <2>2 DEF Screens
  <2>5. ASSUME NEW k \in Cells, k >= (s.row + 1) * WIDTH PROVE f[k] = Blank
    BY <1>1, <2>5 DEF Settled
  <2>6. Settled(t)
    BY <1>1, <1>2, <2>4, <2>5 DEF Settled
  <2> QED BY <1>2, <1>4, <2>1, <2>3, <2>6
<1>5. CASE ch = BS /\ ~(s.col > 0)
  <2>1. Control(s, ch) = s
    BY <1>2, <1>5 DEF Control
  <2> QED BY <1>2, <1>1, <1>5, <2>1
<1> QED BY <1>3, <1>4, <1>5

\* The whole function leaves a settled screen settled.
LEMMA PutcharSettled ==
  ASSUME NEW s, Settled(s), NEW ch \in Output
  PROVE  Settled(term_putchar(s, ch))
<1>1. CASE ch \in {CR, BS}
  BY <1>1, ControlSettled DEF term_putchar
<1>2. CASE ch = NL
  <2>1. ch \notin {CR, BS}
    BY <1>2, TerminalAssumption
  <2>2. term_putchar(s, ch) = NextLine(s)
    BY <1>2, <2>1, ScrollAfterNewline DEF term_putchar, Advance, Write
  <2> QED BY <2>2, NextLineSettled
<1>3. CASE ch \in Printable
  <2> DEFINE t == IF s.col = WIDTH THEN NextLine(s) ELSE s
  <2>1. ch \notin {CR, BS}
    BY <1>3, TerminalAssumption
  <2>2. term_putchar(s, ch) = Advance(Write(t, ch), ch)
    BY <1>3, <2>1, ScrollBeforePrintable DEF term_putchar
  <2>3. Settled(t) /\ t.col < WIDTH
    <3>1. s.col \in 0..WIDTH /\ WIDTH \in Nat /\ WIDTH # 0
      BY ScreenFields, TerminalAssumption DEF Settled
    <3> QED BY <3>1, NextLineSettled
  <2> QED BY <1>3, <2>2, <2>3, PutSettled
<1> QED BY <1>1, <1>2, <1>3 DEF Output
-----------------------------------------------------------------------------
(***************************************************************************)
(* The VGA controller.                                                     *)
(***************************************************************************)
Controllers == [index : {14, 15}, reg : [Registers -> Nat]]

\* What a write to one of the two ports does.
LEMMA PortFields ==
  ASSUME NEW v \in Controllers, NEW i \in {14, 15}, NEW byte \in Nat
  PROVE  /\ Select(v, i) = [index |-> i, reg |-> v.reg]
         /\ Select(v, i) \in Controllers
         /\ Put(v, byte) = [index |-> v.index, reg |-> [v.reg EXCEPT ![v.index] = byte]]
         /\ Put(v, byte) \in Controllers
<1> DEFINE n == v.index  r == v.reg
<1>1. v = [index |-> n, reg |-> r] /\ n \in {14, 15} /\ r \in [Registers -> Nat]
  BY DEF Controllers
<1>a. v.index = n /\ v.reg = r
  OBVIOUS
<1> HIDE DEF n, r
<1>2. Select(v, i) = [index |-> i, reg |-> r]
  BY <1>1 DEF Select
<1>3. Put(v, byte) = [index |-> n, reg |-> [r EXCEPT ![n] = byte]]
  BY <1>1 DEF Put
<1>4. [r EXCEPT ![n] = byte] \in [Registers -> Nat]
  BY <1>1
<1> QED BY <1>a, <1>1, <1>2, <1>3, <1>4 DEF Controllers

\* Division.
LEMMA DivMod ==
  ASSUME NEW p \in Nat, NEW b \in Nat, b > 0
  PROVE  p % b \in Nat /\ p \div b \in Nat /\ b * (p \div b) + (p % b) = p
OBVIOUS

\* The low and the high byte of a number.
Low(p) == p % BYTE
High(p) == p \div BYTE

\* A number is made of its bytes.
LEMMA Bytes ==
  ASSUME NEW p \in Nat
  PROVE  /\ Low(p) \in Nat /\ High(p) \in Nat
         /\ High(p) * BYTE + Low(p) = p
<1>1. BYTE \in Nat /\ BYTE > 0
  BY TerminalAssumption
<1>2. Low(p) \in Nat /\ High(p) \in Nat /\ BYTE * High(p) + Low(p) = p
  BY <1>1, DivMod DEF Low, High
<1>3. BYTE * High(p) = High(p) * BYTE
  BY <1>1, <1>2
<1> QED BY <1>2, <1>3

\* Written without interruption, the registers hold the position.
LEMMA UpdateCursor ==
  ASSUME NEW v \in Controllers, NEW p \in Nat
  PROVE  LET w == term_update_cursor(v, p)
         IN  w \in Controllers /\ Cursor(w) = p /\ w.reg[10] = v.reg[10]
<1> DEFINE a == Select(v, 15)  b == Put(a, Low(p))  d == Select(b, 14)
           w == Put(d, High(p))
<1>0. Low(p) \in Nat /\ High(p) \in Nat
  BY Bytes
<1>r. v.reg \in [Registers -> Nat]
  BY DEF Controllers
<1>1. a = [index |-> 15, reg |-> v.reg] /\ a \in Controllers
  BY PortFields
<1>2. b = [index |-> a.index, reg |-> [a.reg EXCEPT ![a.index] = Low(p)]] /\ b \in Controllers
  BY <1>0, <1>1, PortFields
<1>3. d = [index |-> 14, reg |-> b.reg] /\ d \in Controllers
  BY <1>2, PortFields
<1>4. w = [index |-> d.index, reg |-> [d.reg EXCEPT ![d.index] = High(p)]] /\ w \in Controllers
  BY <1>0, <1>3, PortFields
<1>5. a.index = 15 /\ a.reg = v.reg
  BY <1>1
<1>6. b.reg = [v.reg EXCEPT ![15] = Low(p)]
  BY <1>2, <1>5
<1>7. d.index = 14 /\ d.reg = [v.reg EXCEPT ![15] = Low(p)]
  BY <1>3, <1>6
<1>8. w.reg = [[v.reg EXCEPT ![15] = Low(p)] EXCEPT ![14] = High(p)]
  BY <1>4, <1>7
<1>9. term_update_cursor(v, p) = w
  BY DEF term_update_cursor, Low, High
<1> HIDE DEF a, b, d, w
<1>10. w.reg[14] = High(p) /\ w.reg[15] = Low(p) /\ w.reg[10] = v.reg[10]
  BY <1>r, <1>8 DEF Registers
<1>11. Cursor(w) = High(p) * BYTE + Low(p)
  BY <1>10 DEF Cursor
<1>12. Cursor(w) = p
  BY <1>11, Bytes
<1> QED BY <1>4, <1>9, <1>10, <1>12

\* term_init turns the cursor on, whether it was on or off.
LEMMA EnableCursor ==
  ASSUME NEW off \in {0, 32}
  PROVE  LET v == [index |-> 14, reg |-> [i \in Registers |-> IF i = 10 THEN off ELSE 0]]
             w == term_update_cursor(term_enable_cursor(v), 0)
         IN  w \in Controllers /\ Cursor(w) = 0 /\ w.reg[10] = 13
<1> DEFINE r == [i \in Registers |-> IF i = 10 THEN off ELSE 0]
           v == [index |-> 14, reg |-> r]
           first == Select(v, 10)
           put == Put(first, 13)
           last == Select(put, 11)
           on == Put(last, 15)
           r1 == [r EXCEPT ![10] = 13]
           r2 == [r1 EXCEPT ![11] = 15]
<1>0. /\ r \in [Registers -> Nat] /\ r[10] = off /\ r[11] = 0
      /\ r1 \in [Registers -> Nat] /\ r1[11] = 0
      /\ r2 \in [Registers -> Nat] /\ r2[10] = 13
  BY DEF Registers
<1> HIDE DEF r, r1, r2
<1>1. first = [index |-> 10, reg |-> r]
  BY DEF Select
<1>2. (Selected(first) \div 64) * 64 + 13 = 13
  BY <1>0, <1>1 DEF Selected
<1>3. put = [index |-> 10, reg |-> r1]
  BY <1>1 DEF Put, r1
<1>4. last = [index |-> 11, reg |-> r1]
  BY <1>3 DEF Select
<1>5. (Selected(last) \div 32) * 32 + 15 = 15
  BY <1>0, <1>4 DEF Selected
<1>6. on = [index |-> 11, reg |-> r2]
  BY <1>4 DEF Put, r2
<1>7. term_enable_cursor(v) = on
  BY <1>2, <1>5 DEF term_enable_cursor
<1> HIDE DEF first, put, last, on
<1> DEFINE r3 == [r2 EXCEPT ![15] = 0]
           r4 == [r3 EXCEPT ![14] = 0]
<1>8. r4 \in [Registers -> Nat] /\ r4[14] = 0 /\ r4[15] = 0 /\ r4[10] = 13
  BY <1>0 DEF Registers
<1>9. 0 % BYTE = 0 /\ 0 \div BYTE = 0
  BY TerminalAssumption
<1>10. Select(on, 15) = [index |-> 15, reg |-> r2]
  BY <1>6 DEF Select
<1>11. Put(Select(on, 15), 0) = [index |-> 15, reg |-> r3]
  BY <1>10 DEF Put
<1>12. Select(Put(Select(on, 15), 0), 14) = [index |-> 14, reg |-> r3]
  BY <1>11 DEF Select
<1>13. Put(Select(Put(Select(on, 15), 0), 14), 0) = [index |-> 14, reg |-> r4]
  BY <1>12 DEF Put
<1>14. term_update_cursor(on, 0) = [index |-> 14, reg |-> r4]
  BY <1>9, <1>13 DEF term_update_cursor
<1> HIDE DEF r4
<1>15. [index |-> 14, reg |-> r4] \in Controllers
  BY <1>8 DEF Controllers
<1>16. Cursor([index |-> 14, reg |-> r4]) = 0
  BY <1>8, TerminalAssumption DEF Cursor
<1> QED BY <1>7, <1>8, <1>14, <1>15, <1>16 DEF r
-----------------------------------------------------------------------------
(***************************************************************************)
(* The inductive invariant: what the screen is, at each statement of       *)
(* term_putchar, in terms of the one that the last call left.              *)
(***************************************************************************)
Statements == {"wrap", "scroll", "write", "advance"}

ScreenInv ==
    /\ TypeOK
    /\ Settled(settled)
    /\ pc \in Statements => c \in Printable \cup {NL}
    /\ pc \notin Statements => screen = settled
    /\ pc = "wrap" => screen = Control(settled, c)
    /\ pc = "scroll" => screen = Wrap(Control(settled, c))
    /\ pc = "write" => screen = Scroll(Wrap(Control(settled, c)))
    /\ pc = "advance" => screen = Write(Scroll(Wrap(Control(settled, c))), c)

\* The screens between the statements of one call.
LEMMA PutcharTypes ==
  ASSUME NEW s, Settled(s), NEW ch \in Printable \cup {NL}
  PROVE  LET u == Control(s, ch)
             w == Scroll(Wrap(u))
         IN  /\ u \in Screens /\ Wrap(u) \in Screens
             /\ Settled(w) /\ w.col < WIDTH
             /\ Write(w, ch) \in Screens /\ Write(w, ch).row # HEIGHT
             /\ Settled(Advance(Write(w, ch), ch))
             /\ term_putchar(s, ch) = Advance(Write(w, ch), ch)
<1>0. ch \notin {CR, BS} /\ WIDTH \in Nat /\ WIDTH # 0
  BY TerminalAssumption
<1>1. term_putchar(s, ch) = Advance(Write(Scroll(Wrap(Control(s, ch))), ch), ch)
  BY <1>0 DEF term_putchar
<1>2. CASE ch = NL
  <2>1. Settled(NextLine(s)) /\ NextLine(s).col < WIDTH
    BY <1>0, NextLineSettled
  <2>2. Write(NextLine(s), ch) = NextLine(s) /\ Advance(NextLine(s), ch) = NextLine(s)
    BY <1>2 DEF Write, Advance
  <2>3. NextLine(s) \in Screens /\ NextLine(s).row # HEIGHT
    BY <2>1 DEF Settled
  <2> QED BY <1>1, <1>2, <2>1, <2>2, <2>3, ScrollAfterNewline
<1>3. CASE ch \in Printable
  <2> DEFINE w == IF s.col = WIDTH THEN NextLine(s) ELSE s
  <2>1. Control(s, ch) = s /\ Wrap(s) \in Screens /\ Scroll(Wrap(s)) = w
    BY <1>3, ScrollBeforePrintable
  <2>2. Settled(w) /\ w.col < WIDTH
    <3>1. s.col \in 0..WIDTH
      BY ScreenFields DEF Settled
    <3> QED BY <1>0, <3>1, NextLineSettled
  <2>3. w.row # HEIGHT /\ s \in Screens
    BY <2>2 DEF Settled
  <2> HIDE DEF w
  <2>4. /\ Write(w, ch) = [term |-> [w.term EXCEPT ![Pos(w)] = ch], row |-> w.row, col |-> w.col]
        /\ Write(w, ch) \in Screens
        /\ Settled(Advance(Write(w, ch), ch))
    BY <1>3, <2>2, PutSettled
  <2>5. Write(w, ch).row # HEIGHT
    BY <2>3, <2>4
  <2> QED BY <1>1, <2>1, <2>2, <2>3, <2>4, <2>5
<1> QED BY <1>2, <1>3

\* The place after the last character is on the screen or at its end.
LEMMA PosRange ==
  ASSUME NEW s, Settled(s)
  PROVE  Pos(s) \in 0..WIDTH * HEIGHT
<1>1. s.row \in 0..HEIGHT - 1 /\ s.col \in 0..WIDTH /\ WIDTH \in Nat /\ HEIGHT \in Nat
  BY ScreenFields, TerminalAssumption DEF Settled
<1>2. 0 \in 0..WIDTH - 1 /\ s.row * WIDTH \in Nat /\ WIDTH * HEIGHT \in Nat
  BY <1>1, TerminalAssumption
<1>3. s.row * WIDTH + WIDTH <= WIDTH * HEIGHT
  BY <1>1, <1>2, CellInRange
<1> QED BY <1>1, <1>2, <1>3 DEF Pos

THEOREM ScreenInit == Init => ScreenInv
<1> SUFFICES ASSUME Init PROVE ScreenInv
  OBVIOUS
<1>0. WIDTH \in Nat /\ HEIGHT \in Nat /\ WIDTH # 0 /\ HEIGHT # 0 /\ WIDTH * HEIGHT \in Nat
  BY TerminalAssumption
<1> DEFINE f == [k \in Cells |-> Blank]
<1>1. screen = [term |-> f, row |-> 0, col |-> 0]
  BY DEF Init, term_clear
<1>2. f \in [Cells -> Output \cup {Blank}] /\ \A k \in Cells : f[k] = Blank
  OBVIOUS
<1> HIDE DEF f
<1>3. screen \in Screens /\ screen.row = 0 /\ screen.term = f /\ screen.col = 0
  BY <1>0, <1>1, <1>2 DEF Screens
<1>4. Settled(screen)
  BY <1>0, <1>2, <1>3 DEF Settled
<1>5. Pos(screen) = 0
  BY <1>0, <1>3 DEF Pos
<1>6. crtc \in Controllers
  BY <1>5, EnableCursor DEF Init
<1>7. settled = screen /\ pc = "idle" /\ pos = 0 /\ c = Blank /\ echoed = FALSE
  BY DEF Init
<1>8. TypeOK
  <2>1. /\ pos \in 0..WIDTH * HEIGHT
        /\ pc \in {"idle", "wrap", "scroll", "write", "advance"} \cup CursorSteps
        /\ c \in Output \cup {Blank}
    BY <1>0, <1>7
  <2>3. echoed \in BOOLEAN
    BY <1>7, Zenon
  <2>2. screen.row # HEIGHT /\ settled.row # HEIGHT /\ settled \in Screens
    BY <1>0, <1>3, <1>7
  <2> QED BY <1>3, <1>6, <2>1, <2>2, <2>3 DEF TypeOK, Controllers
<1> QED BY <1>4, <1>7, <1>8 DEF ScreenInv, Statements

THEOREM ScreenStep == KeysBetween /\ ScreenInv /\ [Next]_vars => ScreenInv'
<1> SUFFICES ASSUME KeysBetween, ScreenInv, [Next]_vars PROVE ScreenInv'
  OBVIOUS
<1>0. /\ TypeOK /\ Settled(settled) /\ crtc \in Controllers
      /\ Pos(settled) \in 0..WIDTH * HEIGHT /\ pos \in Nat
      /\ WIDTH * HEIGHT \in Nat
  BY PosRange, TerminalAssumption DEF ScreenInv, TypeOK, Controllers
<1>1. ASSUME NEW ch \in Output, kwrite(ch) PROVE ScreenInv'
  <2>1. screen = settled /\ pc = "idle"
    BY <1>1 DEF kwrite, ScreenInv, Statements
  <2>2. CASE ch \in {CR, BS}
    <3>1. settled' = screen' /\ pc' = "cursor" /\ Settled(screen')
      BY <1>1, <2>1, <2>2, <1>0, ControlSettled DEF kwrite
    <3> QED BY <1>0, <1>1, <3>1
            DEF kwrite, ScreenInv, Statements, TypeOK, CursorSteps, Settled
  <2>3. CASE ch \notin {CR, BS}
    <3>1. /\ settled' = settled /\ pc' = "wrap" /\ c' = ch /\ ch \in Printable \cup {NL}
          /\ screen' = Control(settled, ch)
      BY <1>1, <2>1, <2>3 DEF kwrite, Output
    <3>2. screen' \in Screens
      BY <1>0, <3>1, PutcharTypes
    <3> QED BY <1>0, <1>1, <3>1, <3>2 DEF kwrite, ScreenInv, Statements, TypeOK
  <2> QED BY <2>2, <2>3
<1>2. ASSUME NEW here \in Statements \ {"advance"}, NEW next \in Statements, NEW result,
             Statement(here, next, result), result \in Screens,
             result.row = HEIGHT => next = "scroll",
             next = "scroll" => result = Wrap(Control(settled, c)),
             next = "write" => result = Scroll(Wrap(Control(settled, c))),
             next = "advance" => result = Write(Scroll(Wrap(Control(settled, c))), c),
             next # "wrap"
      PROVE  ScreenInv'
  <2>1. /\ screen' = result /\ pc' = next /\ settled' = settled /\ c' = c
        /\ UNCHANGED <<crtc, pos, echoed>> /\ pc \in Statements
    BY <1>2 DEF Statement, At, Statements, CursorSteps
  <2> QED BY <1>0, <1>2, <2>1 DEF ScreenInv, Statements, TypeOK
<1>c. pc \in Statements => c \in Printable \cup {NL}
  BY DEF ScreenInv
<1>3. CASE WrapIfNeeded
  <2>1. screen = Control(settled, c) /\ pc = "wrap"
    BY <1>3 DEF WrapIfNeeded, Statement, At, ScreenInv
  <2>2. Wrap(screen) \in Screens
    BY <1>0, <1>c, <2>1, PutcharTypes DEF Statements
  <2> QED BY <1>2, <1>3, <2>1, <2>2 DEF WrapIfNeeded, Statements
<1>4. CASE ScrollIfNeeded
  <2>1. screen = Wrap(Control(settled, c)) /\ pc = "scroll"
    BY <1>4 DEF ScrollIfNeeded, Statement, At, ScreenInv
  <2>2. Settled(Scroll(screen))
    BY <1>0, <1>c, <2>1, PutcharTypes DEF Statements
  <2> QED BY <1>2, <1>4, <2>1, <2>2 DEF ScrollIfNeeded, Statements, Settled
<1>5. CASE WriteCharacter
  <2>1. screen = Scroll(Wrap(Control(settled, c))) /\ pc = "write"
    BY <1>5 DEF WriteCharacter, Statement, At, ScreenInv
  <2>2. Write(screen, c) \in Screens /\ Write(screen, c).row # HEIGHT
    BY <1>0, <1>c, <2>1, PutcharTypes DEF Statements
  <2> QED BY <1>2, <1>5, <2>1, <2>2 DEF WriteCharacter, Statements
<1>6. CASE AdvanceColumn
  <2>1. screen = Write(Scroll(Wrap(Control(settled, c))), c) /\ pc = "advance"
    BY <1>6 DEF AdvanceColumn, Statement, At, ScreenInv
  <2>2. Settled(Advance(screen, c))
    BY <1>0, <1>c, <2>1, PutcharTypes DEF Statements
  <2>3. /\ screen' = Advance(screen, c) /\ settled' = screen' /\ pc' = "cursor" /\ c' = c
        /\ UNCHANGED <<crtc, pos, echoed>>
    BY <1>6 DEF AdvanceColumn, Statement, At, CursorSteps
  <2> QED BY <1>0, <2>2, <2>3 DEF ScreenInv, Statements, TypeOK, CursorSteps, Settled
<1>7. ASSUME NEW here \in CursorSteps, NEW next \in {"idle"} \cup CursorSteps,
             At(here, next), UNCHANGED screen,
             crtc' \in Controllers, pos' \in 0..WIDTH * HEIGHT
      PROVE  ScreenInv'
  <2>1. screen = settled
    BY <1>7 DEF At, CursorSteps, ScreenInv, Statements
  <2>2. settled' = settled /\ c' \in {c, Blank} /\ UNCHANGED echoed /\ pc' = next
    BY <1>7, <2>1 DEF At
  <2> QED BY <1>0, <1>7, <2>1, <2>2
          DEF ScreenInv, Statements, TypeOK, CursorSteps, Settled, Controllers
<1>8. CASE LoadPos
  <2>1. screen = settled
    BY <1>8 DEF LoadPos, At, ScreenInv, Statements
  <2> QED BY <1>0, <1>7, <1>8, <2>1 DEF LoadPos, CursorSteps
<1>9. ASSUME NEW here \in CursorSteps, NEW next \in {"idle"} \cup CursorSteps, NEW result,
             Port(here, next, result), result \in Controllers
      PROVE  ScreenInv'
  <2>1. pos' \in 0..WIDTH * HEIGHT
    BY <1>0, <1>9 DEF Port, TypeOK
  <2> QED BY <1>7, <1>9, <2>1 DEF Port
<1>10. CASE SelectLow
  <2>1. Select(crtc, 15) \in Controllers
    BY <1>0, PortFields
  <2> QED BY <1>9, <1>10, <2>1 DEF SelectLow, CursorSteps
<1>11. CASE PutLow
  <2>1. Put(crtc, pos % BYTE) \in Controllers
    BY <1>0, Bytes, PortFields DEF Low
  <2> QED BY <1>9, <1>11, <2>1 DEF PutLow, CursorSteps
<1>12. CASE SelectHigh
  <2>1. Select(crtc, 14) \in Controllers
    BY <1>0, PortFields
  <2> QED BY <1>9, <1>12, <2>1 DEF SelectHigh, CursorSteps
<1>13. CASE PutHigh
  <2>1. Put(crtc, pos \div BYTE) \in Controllers
    BY <1>0, Bytes, PortFields DEF High
  <2> QED BY <1>9, <1>13, <2>1 DEF PutHigh, CursorSteps
<1>14. ASSUME NEW ch \in Echoed, Echo(ch) PROVE ScreenInv'
  <2>1. pc \in {"idle"} \cup CursorSteps /\ ch \in Output
    BY <1>14, TerminalAssumption DEF Echo, KeysBetween
  <2>2. screen = settled /\ screen' = term_putchar(settled, ch) /\ settled' = screen'
    BY <1>14, <2>1 DEF Echo, ScreenInv, Statements, CursorSteps
  <2>3. Settled(screen')
    BY <1>0, <2>1, <2>2, PutcharSettled
  <2>4. Pos(screen') \in Nat
    BY <1>0, <2>3, PosRange
  <2>5. crtc' \in Controllers
    BY <1>0, <1>14, <2>4, UpdateCursor DEF Echo
  <2> QED BY <1>0, <1>14, <2>1, <2>2, <2>3, <2>5
          DEF Echo, ScreenInv, Statements, TypeOK, CursorSteps, Settled, Controllers
<1>15. CASE UNCHANGED vars
  BY <1>15 DEF vars, ScreenInv, TypeOK
<1> QED BY <1>1, <1>3, <1>4, <1>5, <1>6, <1>8, <1>10, <1>11, <1>12, <1>13, <1>14, <1>15
       DEF Next

(***************************************************************************)
(* TypeOK, for every screen: the row is never below the screen when a      *)
(* statement ends that does not move it there, and the column never beyond *)
(* its edge.                                                               *)
(***************************************************************************)
THEOREM TypeCorrect == KeysBetween => (Spec => []TypeOK)
<1> SUFFICES ASSUME KeysBetween PROVE Spec => []TypeOK
  OBVIOUS
<1>1. ScreenInv /\ [Next]_vars => ScreenInv'
  BY ScreenStep
<1>2. ScreenInv => TypeOK
  BY DEF ScreenInv
<1> QED BY <1>1, <1>2, ScreenInit, PTL DEF Spec

(***************************************************************************)
(* WrittenOnScreen, while keys keep away from the statements that change   *)
(* the screen: no character is stored outside the VGA memory.              *)
(***************************************************************************)
THEOREM StoresOnScreen == KeysBetween => (Spec => []WrittenOnScreen)
<1> SUFFICES ASSUME KeysBetween PROVE Spec => []WrittenOnScreen
  OBVIOUS
<1>1. ScreenInv /\ [Next]_vars => ScreenInv'
  BY ScreenStep
<1>2. ScreenInv => WrittenOnScreen
  <2> SUFFICES ASSUME ScreenInv, pc = "write", c # NL PROVE Pos(screen) \in Cells
    BY DEF WrittenOnScreen
  <2>1. c \in Printable \cup {NL} /\ Settled(settled) /\ screen = Scroll(Wrap(Control(settled, c)))
    BY DEF ScreenInv, Statements
  <2>2. Settled(screen) /\ screen.col < WIDTH
    BY <2>1, PutcharTypes
  <2> QED BY <2>1, <2>2, PutSettled
<1> QED BY <1>1, <1>2, ScreenInit, PTL DEF Spec
-----------------------------------------------------------------------------
(***************************************************************************)
(* The cursor.  echoed tells whether what term_update_cursor has done so   *)
(* far was disturbed; if not, the registers are filled step by step.       *)
(***************************************************************************)
CursorInv ==
    /\ ScreenInv
    /\ crtc.reg[10] = 13
    /\ ~echoed =>
          /\ pc = "idle" => Cursor(crtc) = Pos(screen)
          /\ pc \in {"select15", "put15", "select14", "put14"} => pos = Pos(screen)
          /\ pc = "put15" => crtc.index = 15
          /\ pc \in {"select14", "put14"} => crtc.reg[15] = Low(pos)
          /\ pc = "put14" => crtc.index = 14

THEOREM CursorInit == Init => CursorInv
<1> SUFFICES ASSUME Init PROVE CursorInv
  OBVIOUS
<1>1. ScreenInv
  BY ScreenInit
<1>2. Pos(screen) = 0 /\ pc = "idle"
  <2>1. screen.row = 0 /\ screen.col = 0
    BY DEF Init, term_clear
  <2> QED BY <2>1, TerminalAssumption DEF Pos, Init
<1>3. Cursor(crtc) = 0 /\ crtc.reg[10] = 13
  BY <1>2, EnableCursor DEF Init
<1> QED BY <1>1, <1>2, <1>3 DEF CursorInv

THEOREM CursorStep == KeysBetween /\ CursorInv /\ [Next]_vars => CursorInv'
<1> SUFFICES ASSUME KeysBetween, CursorInv, [Next]_vars PROVE CursorInv'
  OBVIOUS
<1>0. ScreenInv' /\ Settled(settled) /\ Settled(settled')
  BY ScreenStep DEF CursorInv, ScreenInv
<1>a. /\ crtc \in Controllers /\ pos \in Nat /\ crtc.reg \in [Registers -> Nat]
      /\ crtc.index \in {14, 15} /\ WIDTH * HEIGHT \in Nat
      /\ Pos(settled') \in Nat
  BY <1>0, TerminalAssumption, PosRange
     DEF CursorInv, ScreenInv, TypeOK, Controllers
<1>1. ASSUME UNCHANGED crtc, pc' \in Statements \cup {"cursor"} PROVE CursorInv'
  BY <1>0, <1>1 DEF CursorInv, Statements
<1>2. ASSUME NEW ch \in Output, kwrite(ch) PROVE CursorInv'
  BY <1>1, <1>2 DEF kwrite, Statements
<1>3. CASE WrapIfNeeded \/ ScrollIfNeeded \/ WriteCharacter \/ AdvanceColumn
  BY <1>1, <1>3 DEF WrapIfNeeded, ScrollIfNeeded, WriteCharacter, AdvanceColumn,
                    Statement, At, Statements
<1>4. CASE LoadPos
  <2>1. pos' = Pos(screen') /\ pc' = "select15" /\ UNCHANGED crtc
    BY <1>4 DEF LoadPos, At, Pos
  <2> QED BY <1>0, <2>1 DEF CursorInv
<1>5. CASE SelectLow
  <2>1. /\ pc = "select15" /\ pc' = "put15" /\ UNCHANGED <<screen, pos, echoed>>
        /\ crtc' = [index |-> 15, reg |-> crtc.reg]
    BY <1>5, <1>a, PortFields DEF SelectLow, Port, At
  <2>2. crtc'.index = 15 /\ crtc'.reg = crtc.reg
    BY <2>1
  <2> QED BY <1>0, <2>1, <2>2 DEF CursorInv, Pos
<1>6. CASE PutLow
  <2>1. /\ pc = "put15" /\ pc' = "select14" /\ UNCHANGED <<screen, pos, echoed>>
        /\ crtc' = [index |-> crtc.index, reg |-> [crtc.reg EXCEPT ![crtc.index] = Low(pos)]]
    BY <1>6, <1>a, Bytes, PortFields DEF PutLow, Port, At, Low
  <2>2. crtc'.reg[10] = crtc.reg[10] /\ (crtc.index = 15 => crtc'.reg[15] = Low(pos))
    BY <1>a, <2>1 DEF Registers
  <2>3. Low(pos') = Low(pos) /\ Pos(screen') = Pos(screen)
    BY <2>1
  <2> QED BY <1>0, <2>1, <2>2, <2>3 DEF CursorInv
<1>7. CASE SelectHigh
  <2>1. /\ pc = "select14" /\ pc' = "put14" /\ UNCHANGED <<screen, pos, echoed>>
        /\ crtc' = [index |-> 14, reg |-> crtc.reg]
    BY <1>7, <1>a, PortFields DEF SelectHigh, Port, At
  <2>2. crtc'.index = 14 /\ crtc'.reg = crtc.reg
    BY <2>1
  <2>3. Low(pos') = Low(pos) /\ Pos(screen') = Pos(screen)
    BY <2>1
  <2> QED BY <1>0, <2>1, <2>2, <2>3 DEF CursorInv
<1>8. CASE PutHigh
  <2>1. /\ pc = "put14" /\ pc' = "idle" /\ UNCHANGED <<screen, echoed>>
        /\ crtc' = [index |-> crtc.index, reg |-> [crtc.reg EXCEPT ![crtc.index] = High(pos)]]
    BY <1>8, <1>a, Bytes, PortFields DEF PutHigh, Port, At, High
  <2>2. crtc'.reg[10] = crtc.reg[10]
    BY <1>a, <2>1 DEF Registers
  <2>3. ASSUME ~echoed PROVE Cursor(crtc') = Pos(screen')
    <3>1. crtc.index = 14 /\ crtc.reg[15] = Low(pos) /\ pos = Pos(screen)
      BY <2>1, <2>3 DEF CursorInv
    <3>2. crtc'.reg[14] = High(pos) /\ crtc'.reg[15] = Low(pos)
      BY <1>a, <2>1, <3>1 DEF Registers
    <3>3. Cursor(crtc') = pos
      BY <1>a, <3>2, Bytes DEF Cursor
    <3>4. Pos(screen') = Pos(screen)
      BY <2>1
    <3> QED BY <3>1, <3>3, <3>4
  <2> QED BY <1>0, <2>1, <2>2, <2>3 DEF CursorInv
<1>9. ASSUME NEW ch \in Echoed, Echo(ch) PROVE CursorInv'
  <2>1. settled' = screen'
    BY <1>9 DEF Echo, KeysBetween
  <2>2. Cursor(crtc') = Pos(screen') /\ crtc'.reg[10] = crtc.reg[10]
    BY <1>9, <1>a, <2>1, UpdateCursor DEF Echo
  <2>3. echoed' = (pc # "idle") /\ pc' = pc
    BY <1>9 DEF Echo
  <2> QED BY <1>0, <2>2, <2>3 DEF CursorInv
<1>10. CASE UNCHANGED vars
  <2>1. Pos(screen') = Pos(screen) /\ Cursor(crtc') = Cursor(crtc) /\ Low(pos') = Low(pos)
    BY <1>10 DEF vars
  <2> QED BY <1>0, <1>10, <2>1 DEF vars, CursorInv
<1> QED BY <1>2, <1>3, <1>4, <1>5, <1>6, <1>7, <1>8, <1>9, <1>10 DEF Next

(***************************************************************************)
(* CursorRecovers, for every screen and every size of the registers: after *)
(* a character that no key interrupted, the cursor is on and where the     *)
(* next character will go, whatever earlier interrupts did to the          *)
(* controller.                                                             *)
(***************************************************************************)
THEOREM CursorCorrect == KeysBetween => (Spec => []CursorRecovers)
<1> SUFFICES ASSUME KeysBetween PROVE Spec => []CursorRecovers
  OBVIOUS
<1>1. CursorInv /\ [Next]_vars => CursorInv'
  BY CursorStep
<1>2. CursorInv => CursorRecovers
  <2>1. (13 \div 32) % 2 = 0
    OBVIOUS
  <2> QED BY <2>1 DEF CursorInv, CursorRecovers
<1> QED BY <1>1, <1>2, CursorInit, PTL DEF Spec
-----------------------------------------------------------------------------
(***************************************************************************)
(* The refinement of Teletype: the cells as lines.                         *)
(***************************************************************************)
LineType == [0..WIDTH - 1 -> Output \cup {Blank}]

\* A line of the screen, the first being number 1.
Line(s, r) == [k \in 0..WIDTH - 1 |-> s.term[(r - 1) * WIDTH + k]]

\* Lines are equal if their cells are.
LEMMA LineEqual ==
  ASSUME NEW s, NEW q, NEW t, NEW r, NEW a, NEW b, a = (q - 1) * WIDTH, b = (r - 1) * WIDTH,
         \A k \in 0..WIDTH - 1 : s.term[a + k] = t.term[b + k]
  PROVE  Line(s, q) = Line(t, r)
BY DEF Line

\* ... and blank if their cells are.
LEMMA LineBlank ==
  ASSUME NEW s, NEW r, NEW a, a = (r - 1) * WIDTH,
         \A k \in 0..WIDTH - 1 : s.term[a + k] = Blank
  PROVE  Line(s, r) = TT!BlankLine
BY DEF Line, TT!BlankLine

\* The lines of a screen.
LEMMA LinesSeq ==
  ASSUME NEW s, Settled(s)
  PROVE  /\ Lines(s) \in Seq(LineType)
         /\ Len(Lines(s)) = s.row + 1
         /\ \A r \in 1..s.row + 1 : Lines(s)[r] = Line(s, r)
<1>1. /\ s.row \in 0..HEIGHT - 1 /\ HEIGHT \in Nat
      /\ s.term \in [Cells -> Output \cup {Blank}]
  BY ScreenFields, TerminalAssumption DEF Settled
<1> DEFINE n == s.row + 1
<1>2. n \in Nat
  BY <1>1
<1>3. Lines(s) = [r \in 1..n |-> Line(s, r)]
  BY DEF Lines, Line
<1>4. ASSUME NEW r \in 1..n PROVE Line(s, r) \in LineType
  <2>1. r - 1 \in 0..HEIGHT - 1
    BY <1>1
  <2>2. \A k \in 0..WIDTH - 1 : (r - 1) * WIDTH + k \in Cells
    BY <2>1, CellInRange
  <2> QED BY <1>1, <2>2 DEF Line, LineType
<1> HIDE DEF n
<1>5. Lines(s) \in Seq(LineType) /\ Len(Lines(s)) = n
  BY <1>2, <1>3, <1>4
<1> QED BY <1>3, <1>5 DEF n

\* Writing a character in the last line.
LEMMA StoreLines ==
  ASSUME NEW s, Settled(s), NEW t, Settled(t), NEW k \in 0..WIDTH - 1,
         NEW ch \in Output \cup {Blank},
         t.row = s.row, t.term = [s.term EXCEPT ![s.row * WIDTH + k] = ch]
  PROVE  Lines(t) = [Lines(s) EXCEPT ![Len(Lines(s))] = [@ EXCEPT ![k] = ch]]
<1> DEFINE n == s.row + 1
           new == [Lines(s)[n] EXCEPT ![k] = ch]
<1>1. /\ s.row \in 0..HEIGHT - 1 /\ HEIGHT \in Nat /\ n \in Nat
      /\ s.term \in [Cells -> Output \cup {Blank}]
  BY ScreenFields, TerminalAssumption DEF Settled
<1>2. /\ Lines(s) \in Seq(LineType) /\ Lines(t) \in Seq(LineType)
      /\ Len(Lines(s)) = n /\ Len(Lines(t)) = n /\ n \in 1..n
  BY <1>1, LinesSeq
<1>3. \A r \in 1..n : Lines(s)[r] = Line(s, r) /\ Lines(t)[r] = Line(t, r)
  BY LinesSeq
<1>4. new \in LineType
  <2>1. Lines(s)[n] \in LineType
    BY <1>2, ElementOfSeq
  <2> QED BY <2>1 DEF LineType
<1>5. ASSUME NEW r \in 1..n, r # n PROVE Lines(t)[r] = Lines(s)[r]
  <2>1. ASSUME NEW j \in 0..WIDTH - 1
        PROVE  t.term[(r - 1) * WIDTH + j] = s.term[(r - 1) * WIDTH + j]
    <3>1. r - 1 \in Nat /\ s.row \in Nat /\ r - 1 # s.row
      BY <1>1, <1>5
    <3>2. (r - 1) * WIDTH + j # s.row * WIDTH + k
      BY <3>1, CellUnique
    <3> QED BY <1>1, <3>2
  <2>2. Line(t, r) = Line(s, r)
    <3> DEFINE a == (r - 1) * WIDTH
    <3>1. \A j \in 0..WIDTH - 1 : t.term[a + j] = s.term[a + j]
      BY <2>1
    <3>2. a = (r - 1) * WIDTH
      OBVIOUS
    <3> HIDE DEF a
    <3>3. [j \in 0..WIDTH - 1 |-> t.term[a + j]] = [j \in 0..WIDTH - 1 |-> s.term[a + j]]
      BY <3>1
    <3> QED BY <3>2, <3>3, Zenon DEF Line
  <2> QED BY <1>3, <2>2
<1>6. Lines(t)[n] = new
  <2>1. ASSUME NEW j \in 0..WIDTH - 1
        PROVE  t.term[(n - 1) * WIDTH + j] = IF j = k THEN ch ELSE s.term[(n - 1) * WIDTH + j]
    <3>1. n - 1 = s.row /\ s.row \in Nat /\ s.row * WIDTH + k \in Cells
      BY <1>1, CellInRange
    <3>2. j # k => s.row * WIDTH + j # s.row * WIDTH + k
      BY <3>1, CellUnique
    <3> QED BY <1>1, <3>1, <3>2
  <2>2. Lines(s)[n] = [j \in 0..WIDTH - 1 |-> s.term[(n - 1) * WIDTH + j]]
    BY <1>2, <1>3 DEF Line
  <2>3. Lines(t)[n] = [j \in 0..WIDTH - 1 |-> t.term[(n - 1) * WIDTH + j]]
    BY <1>2, <1>3 DEF Line
  <2>4. new = [j \in 0..WIDTH - 1 |-> IF j = k THEN ch ELSE s.term[(n - 1) * WIDTH + j]]
    BY <2>2
  <2> QED BY <2>1, <2>3, <2>4
<1> HIDE DEF n, new
<1> DEFINE u == [Lines(s) EXCEPT ![n] = new]
<1>7. u \in Seq(LineType) /\ Len(u) = n /\ \A r \in 1..n : u[r] = IF r = n THEN new ELSE Lines(s)[r]
  BY <1>2, <1>4, ExceptSeq
<1>8. \A r \in 1..n : Lines(t)[r] = u[r]
  BY <1>5, <1>6, <1>7
<1>9. Lines(t) = u
  <2> HIDE DEF u
  <2> QED BY <1>2, <1>7, <1>8, SeqEqual
<1> QED BY <1>2, <1>9 DEF new

\* A new line appends a blank line, and pushes out the oldest from a full screen.
LEMMA FeedLines ==
  ASSUME NEW s, Settled(s)
  PROVE  Lines(NextLine(s)) =
            Append(IF Len(Lines(s)) < HEIGHT THEN Lines(s) ELSE Tail(Lines(s)), TT!BlankLine)
<1> DEFINE n == s.row + 1
           t == NextLine(s)
<1>1. /\ s.row \in 0..HEIGHT - 1 /\ HEIGHT \in Nat /\ n \in Nat /\ WIDTH \in Nat
      /\ s.term \in [Cells -> Output \cup {Blank}]
  BY ScreenFields, TerminalAssumption DEF Settled
<1>2. /\ Lines(s) \in Seq(LineType) /\ Len(Lines(s)) = n
      /\ \A r \in 1..n : Lines(s)[r] = Line(s, r)
  BY LinesSeq
<1>3. /\ Lines(t) \in Seq(LineType) /\ Len(Lines(t)) = t.row + 1
      /\ \A r \in 1..t.row + 1 : Lines(t)[r] = Line(t, r)
  BY NextLineSettled, LinesSeq
<1>4. TT!BlankLine \in LineType /\ TT!BlankLine = [k \in 0..WIDTH - 1 |-> Blank]
  BY DEF TT!BlankLine, LineType
<1>5. CASE n = HEIGHT
  <2> DEFINE f == [k \in Cells |-> IF k + WIDTH \in Cells THEN s.term[k + WIDTH] ELSE Blank]
             u == Tail(Lines(s))
  <2>1. t.row = s.row /\ t.term = f
    BY <1>5 DEF NextLine
  <2>2. /\ u \in Seq(LineType) /\ Len(u) = s.row
        /\ \A r \in 1..s.row : u[r] = Lines(s)[r + 1]
    <3>1. Lines(s) # <<>>
      BY <1>1, <1>2
    <3> QED BY <1>1, <1>2, <3>1, HeadTailProperties
  <2>3. ASSUME NEW r \in 1..s.row PROVE Line(t, r) = Line(s, r + 1)
    <3>1. ASSUME NEW k \in 0..WIDTH - 1
          PROVE  f[(r - 1) * WIDTH + k] = s.term[(r + 1 - 1) * WIDTH + k]
      <4>1. r - 1 \in 0..HEIGHT - 1 /\ r \in 0..HEIGHT - 1 /\ r + 1 - 1 = r
        BY <1>1, <2>3
      <4>2. (r - 1) * WIDTH + k \in Cells /\ r * WIDTH + k \in Cells
        BY <4>1, CellInRange
      <4>3. (r - 1) * WIDTH + k + WIDTH = r * WIDTH + k
        BY <1>1, <4>1
      <4> QED BY <4>1, <4>2, <4>3
    <3> DEFINE a == (r - 1) * WIDTH  b == (r + 1 - 1) * WIDTH
    <3>2. \A k \in 0..WIDTH - 1 : t.term[a + k] = s.term[b + k]
      BY <2>1, <3>1
    <3>3. a = (r - 1) * WIDTH /\ b = (r + 1 - 1) * WIDTH
      OBVIOUS
    <3> HIDE DEF a, b
    <3> QED BY <3>2, <3>3, LineEqual
  <2>4. Line(t, n) = TT!BlankLine
    <3>1. ASSUME NEW k \in 0..WIDTH - 1 PROVE f[(n - 1) * WIDTH + k] = Blank
      <4>1. n - 1 \in 0..HEIGHT - 1
        BY <1>1, <1>5
      <4>2. (n - 1) * WIDTH + k \in Cells
        BY <4>1, CellInRange
      <4>3. (n - 1) * WIDTH + k + WIDTH = WIDTH * HEIGHT + k
        <5>1. \A m \in Nat : (m - 1) * WIDTH + WIDTH = WIDTH * m
          BY <1>1
        <5>2. (n - 1) * WIDTH \in Int /\ (n - 1) * WIDTH + WIDTH = WIDTH * HEIGHT
          BY <1>1, <1>5, <5>1
        <5>3. \A m \in Int : m + WIDTH = WIDTH * HEIGHT => m + k + WIDTH = WIDTH * HEIGHT + k
          BY <1>1
        <5> HIDE DEF n
        <5> QED BY <5>2, <5>3
      <4>4. (n - 1) * WIDTH + k + WIDTH \notin Cells
        BY <1>1, <4>3 DEF Cells
      <4> QED BY <4>2, <4>4
    <3> DEFINE a == (n - 1) * WIDTH
    <3>2. \A k \in 0..WIDTH - 1 : t.term[a + k] = Blank
      BY <2>1, <3>1
    <3>3. a = (n - 1) * WIDTH
      OBVIOUS
    <3> HIDE DEF a
    <3> QED BY <3>2, <3>3, LineBlank
  <2> DEFINE v == Append(u, TT!BlankLine)
  <2> HIDE DEF u
  <2>5. /\ v \in Seq(LineType) /\ Len(v) = n
        /\ \A r \in 1..s.row : v[r] = u[r]
        /\ v[n] = TT!BlankLine
    BY <1>4, <2>2, AppendProperties
  <2>6. \A r \in 1..n : Lines(t)[r] = v[r]
    <3>1. ASSUME NEW r \in 1..n PROVE Lines(t)[r] = v[r]
      <4>1. Lines(t)[r] = Line(t, r)
        BY <1>3, <2>1
      <4>2. CASE r = n
        BY <2>4, <2>5, <4>1, <4>2
      <4>3. CASE r # n
        <5>1. r \in 1..s.row /\ r + 1 \in 1..n
          BY <1>1, <4>3
        <5> QED BY <1>2, <2>2, <2>3, <2>5, <4>1, <5>1
      <4> QED BY <4>2, <4>3
    <3> QED BY <3>1
  <2>7. Lines(t) = v
    <3> HIDE DEF v, t
    <3>1. Len(Lines(t)) = Len(v) /\ Len(v) = n
      BY <1>3, <2>1, <2>5
    <3> QED BY <1>3, <2>5, <2>6, <3>1, SeqEqual
  <2> QED BY <1>1, <1>2, <1>5, <2>7 DEF u
<1>6. CASE n # HEIGHT
  <2> DEFINE v == Append(Lines(s), TT!BlankLine)
  <2>1. t.row = n /\ t.term = s.term
    BY <1>6 DEF NextLine
  <2>2. Line(t, n + 1) = TT!BlankLine
    <3>1. ASSUME NEW k \in 0..WIDTH - 1 PROVE s.term[(n + 1 - 1) * WIDTH + k] = Blank
      <4>1. n \in 0..HEIGHT - 1 /\ n + 1 - 1 = n
        BY <1>1, <1>6
      <4>2. n * WIDTH + k \in Cells
        BY <4>1, CellInRange
      <4>3. n * WIDTH + k >= (s.row + 1) * WIDTH
        BY <1>1
      <4> QED BY <4>1, <4>2, <4>3 DEF Settled
    <3> DEFINE m == n + 1  a == (m - 1) * WIDTH
    <3>2. \A k \in 0..WIDTH - 1 : t.term[a + k] = Blank
      BY <1>1, <2>1, <3>1
    <3>3. a = (m - 1) * WIDTH
      OBVIOUS
    <3>4. Line(t, m) = TT!BlankLine
      <4> HIDE DEF a, m, t
      <4> QED BY <3>2, <3>3, LineBlank
    <3> QED BY <3>4
  <2>3. \A r \in 1..n : Line(t, r) = Line(s, r)
    BY <2>1 DEF Line
  <2>4. /\ v \in Seq(LineType) /\ Len(v) = n + 1
        /\ \A r \in 1..n : v[r] = Lines(s)[r]
        /\ v[n + 1] = TT!BlankLine
    BY <1>2, <1>4, AppendProperties
  <2>5. ASSUME NEW r \in 1..n + 1 PROVE Lines(t)[r] = v[r]
    <3>1. Lines(t)[r] = Line(t, r)
      BY <1>3, <2>1
    <3>2. CASE r = n + 1
      BY <2>2, <2>4, <3>1, <3>2
    <3>3. CASE r # n + 1
      <4>1. r \in 1..n
        BY <1>1, <3>3
      <4> QED BY <1>2, <2>3, <2>4, <3>1, <4>1
    <3> QED BY <3>2, <3>3
  <2>6. Lines(t) = v
    <3> HIDE DEF v, t
    <3>1. Len(Lines(t)) = Len(v) /\ Len(v) = n + 1
      BY <1>3, <2>1, <2>4
    <3> QED BY <1>3, <2>4, <2>5, <3>1, SeqEqual
  <2>7. Len(Lines(s)) < HEIGHT
    BY <1>1, <1>2, <1>6
  <2> QED BY <2>6, <2>7
<1> QED BY <1>5, <1>6

\* A call of term_putchar is a step of the teletype, or none.
LEMMA PutcharRefines ==
  ASSUME NEW ch \in Output, Settled(settled), settled' = term_putchar(settled, ch)
  PROVE  [TT!Next]_TT!vars
<1> DEFINE s == settled
<1>1. /\ s.row \in 0..HEIGHT - 1 /\ s.col \in 0..WIDTH /\ WIDTH \in Nat /\ WIDTH # 0
      /\ s.term \in [Cells -> Output \cup {Blank}]
  BY ScreenFields, TerminalAssumption DEF Settled
<1>2. CASE ch = CR
  <2>1. settled' = [term |-> s.term, row |-> s.row, col |-> 0]
    BY <1>2, ControlSettled DEF term_putchar
  <2>2. settled'.col = 0 /\ settled'.row = s.row /\ settled'.term = s.term
    BY <2>1
  <2>3. Lines(settled') = Lines(settled)
    BY <2>2 DEF Lines
  <2>4. TT!Return
    BY <2>2, <2>3 DEF TT!Return
  <2> QED BY <2>4 DEF TT!Next
<1>3. CASE ch = BS /\ s.col = 0
  <2>1. settled' = settled
    BY <1>3, ControlSettled DEF term_putchar
  <2> QED BY <2>1 DEF TT!vars
<1>4. CASE ch = BS /\ s.col > 0
  <2>1. /\ settled' = [term |-> [s.term EXCEPT ![Pos(s) - 1] = Blank],
                       row |-> s.row, col |-> s.col - 1]
        /\ Settled(settled')
    BY <1>4, ControlSettled DEF term_putchar
  <2>2. s.col - 1 \in 0..WIDTH - 1 /\ Pos(s) - 1 = s.row * WIDTH + (s.col - 1)
    BY <1>1, <1>4 DEF Pos
  <2>3. /\ settled'.col = s.col - 1 /\ settled'.row = s.row
        /\ settled'.term = [s.term EXCEPT ![s.row * WIDTH + (s.col - 1)] = Blank]
    BY <2>1, <2>2
  <2>4. Lines(settled') = [Lines(settled) EXCEPT ![Len(Lines(settled))]
                                                   = [@ EXCEPT ![settled.col - 1] = Blank]]
    <3> DEFINE j == settled.col - 1
    <3>1. j \in 0..WIDTH - 1 /\ settled'.term = [s.term EXCEPT ![s.row * WIDTH + j] = Blank]
      BY <2>2, <2>3
    <3>2. Blank \in Output \cup {Blank}
      OBVIOUS
    <3> HIDE DEF j
    <3>3. Lines(settled') = [Lines(settled) EXCEPT ![Len(Lines(settled))]
                                                    = [@ EXCEPT ![j] = Blank]]
      <4>1. Settled(settled') /\ settled'.row = settled.row
        BY <2>1, <2>3
      <4> QED BY <3>1, <3>2, <4>1, StoreLines
    <3> QED BY <3>3 DEF j
  <2>5. TT!Erase
    BY <1>4, <2>3, <2>4 DEF TT!Erase
  <2> QED BY <2>5 DEF TT!Next
<1>5. CASE ch = NL
  <2>1. ch \notin {CR, BS}
    BY <1>5, TerminalAssumption
  <2>2. settled' = NextLine(settled)
    BY <1>5, <2>1, ScrollAfterNewline DEF term_putchar, Advance, Write
  <2>3. TT!Feed
    BY <2>2, FeedLines, NextLineSettled DEF TT!Feed, TT!NewLine
  <2> QED BY <2>3 DEF TT!Next
<1>6. CASE ch \in Printable
  <2> DEFINE full == s.col = WIDTH
             w == IF full THEN NextLine(s) ELSE s
             ls == IF full THEN TT!NewLine ELSE Lines(settled)
             k == IF full THEN 0 ELSE settled.col
  <2>1. ch \notin {CR, BS}
    BY <1>6, TerminalAssumption
  <2>2. settled' = Advance(Write(w, ch), ch)
    BY <1>6, <2>1, ScrollBeforePrintable DEF term_putchar
  <2>3. Settled(w) /\ w.col = k /\ k \in 0..WIDTH - 1 /\ w.col < WIDTH
    BY <1>1, NextLineSettled
  <2>4. Lines(w) = ls
    BY FeedLines DEF TT!NewLine
  <2> HIDE DEF w, ls, k
  <2>5. /\ settled' = [term |-> [w.term EXCEPT ![Pos(w)] = ch], row |-> w.row, col |-> w.col + 1]
        /\ Settled(settled')
    BY <1>6, <2>2, <2>3, PutSettled
  <2>6. /\ settled'.col = k + 1 /\ settled'.row = w.row
        /\ settled'.term = [w.term EXCEPT ![w.row * WIDTH + k] = ch]
    BY <2>3, <2>5 DEF Pos
  <2>7. ch \in Output \cup {Blank}
    OBVIOUS
  <2>8. Lines(settled') = [ls EXCEPT ![Len(ls)] = [@ EXCEPT ![k] = ch]]
    BY <2>3, <2>4, <2>5, <2>6, <2>7, StoreLines
  <2>9. TT!Put(ch)
    BY <2>6, <2>8 DEF TT!Put, ls, k
  <2> QED BY <1>6, <2>9 DEF TT!Next
<1> QED BY <1>1, <1>2, <1>3, <1>4, <1>5, <1>6 DEF Output

\* Every step of kwrite and of the interrupt is a step of the teletype or none.
LEMMA RefinementStep ==
  ASSUME KeysBetween, ScreenInv, [Next]_vars
  PROVE  [TT!Next]_TT!vars
<1>0. Settled(settled) /\ (pc \notin Statements => screen = settled)
  BY DEF ScreenInv
<1>1. ASSUME UNCHANGED settled PROVE [TT!Next]_TT!vars
  BY <1>1 DEF TT!vars
<1>2. ASSUME NEW ch \in Output, kwrite(ch) PROVE [TT!Next]_TT!vars
  <2>1. screen = settled
    BY <1>0, <1>2 DEF kwrite, Statements
  <2>2. CASE ch \in {CR, BS}
    <3>1. settled' = term_putchar(settled, ch)
      BY <1>2, <2>1, <2>2 DEF kwrite, term_putchar
    <3> QED BY <1>0, <3>1, PutcharRefines
  <2>3. CASE ch \notin {CR, BS}
    BY <1>1, <1>2, <2>1, <2>3 DEF kwrite
  <2> QED BY <2>2, <2>3
<1>3. CASE WrapIfNeeded \/ ScrollIfNeeded \/ WriteCharacter
  BY <1>1, <1>3 DEF WrapIfNeeded, ScrollIfNeeded, WriteCharacter, Statement, At, CursorSteps
<1>4. CASE AdvanceColumn
  <2>1. /\ c \in Printable \cup {NL} /\ screen = Write(Scroll(Wrap(Control(settled, c))), c)
        /\ settled' = Advance(screen, c)
    BY <1>4 DEF AdvanceColumn, Statement, At, CursorSteps, ScreenInv, Statements
  <2>2. settled' = term_putchar(settled, c) /\ c \in Output
    BY <1>0, <2>1, PutcharTypes DEF Output
  <2> QED BY <1>0, <2>2, PutcharRefines
<1>5. CASE LoadPos \/ SelectLow \/ PutLow \/ SelectHigh \/ PutHigh
  <2>1. screen = settled /\ settled' \in {screen', settled} /\ screen' = screen
    BY <1>0, <1>5 DEF LoadPos, SelectLow, PutLow, SelectHigh, PutHigh, Port, At, Statements
  <2> QED BY <1>1, <2>1
<1>6. ASSUME NEW ch \in Echoed, Echo(ch) PROVE [TT!Next]_TT!vars
  <2>1. pc \in {"idle"} \cup CursorSteps /\ ch \in Output
    BY <1>6, TerminalAssumption DEF Echo, KeysBetween
  <2>2. screen = settled /\ settled' = term_putchar(settled, ch)
    BY <1>0, <1>6, <2>1 DEF Echo, Statements, CursorSteps
  <2> QED BY <1>0, <2>1, <2>2, PutcharRefines
<1>7. CASE UNCHANGED vars
  BY <1>1, <1>7 DEF vars
<1> QED BY <1>2, <1>3, <1>4, <1>5, <1>6, <1>7 DEF Next

(***************************************************************************)
(* ImplementsTeletype, for every screen: the cells, the row and the column *)
(* implement the scrolling lines of Teletype.tla.                          *)
(***************************************************************************)
THEOREM Refinement == KeysBetween => (Spec => ImplementsTeletype)
<1> SUFFICES ASSUME KeysBetween PROVE Spec => ImplementsTeletype
  OBVIOUS
<1>1. Init => TT!Init
  <2> SUFFICES ASSUME Init PROVE TT!Init
    OBVIOUS
  <2>1. settled = [term |-> [k \in Cells |-> Blank], row |-> 0, col |-> 0]
    BY DEF Init, term_clear
  <2>2. /\ settled.row = 0 /\ settled.col = 0
        /\ \A k \in Cells : settled.term[k] = Blank
    BY <2>1
  <2>3. /\ Lines(settled) \in Seq(LineType) /\ Len(Lines(settled)) = 1
        /\ Lines(settled)[1] = Line(settled, 1)
    <3>1. Settled(settled)
      BY ScreenInit DEF ScreenInv
    <3>2. settled.row + 1 = 1 /\ 1 \in 1..settled.row + 1
      BY <2>2
    <3> QED BY <3>1, <3>2, LinesSeq
  <2>4. Line(settled, 1) = TT!BlankLine
    <3>1. ASSUME NEW k \in 0..WIDTH - 1 PROVE settled.term[0 + k] = Blank
      <4>1. 0 \in 0..HEIGHT - 1 /\ 0 * WIDTH + k = 0 + k
        BY TerminalAssumption
      <4>2. 0 + k \in Cells
        BY <4>1, CellInRange
      <4> QED BY <2>2, <4>2
    <3>2. 0 = (1 - 1) * WIDTH
      BY TerminalAssumption
    <3> QED BY <3>1, <3>2, LineBlank
  <2>5. Lines(settled) = <<TT!BlankLine>>
    BY <2>3, <2>4
  <2> QED BY <2>2, <2>5 DEF TT!Init
<1>2. ScreenInv /\ [Next]_vars => ScreenInv'
  BY ScreenStep
<1>3. ScreenInv /\ [Next]_vars => [TT!Next]_TT!vars
  BY RefinementStep
<1> QED BY <1>1, <1>2, <1>3, ScreenInit, PTL DEF Spec, ImplementsTeletype, TT!Spec
=============================================================================
