------------------------------ MODULE Keyboard ------------------------------
(***************************************************************************)
(* Keyboard input: kernel/systemcalls.c and the interrupt handler of       *)
(* kernel/boot.c.                                                          *)
(*                                                                         *)
(* Two contexts share the circular buffer.  keyboard_interrupt runs to     *)
(* completion (its gate leaves interrupts enabled, but the PIC delivers no *)
(* second IRQ 1 before the EOI, the handler's last action), so it is one   *)
(* action.  kread runs with interrupts enabled and can be preempted        *)
(* between any two of its accesses to the buffer, so each access is an     *)
(* action.  Which accesses there are is what the build does with the C     *)
(* code: reading_index is loaded once and tested in a register (it is not  *)
(* volatile), and buffer_length is changed by a single instruction.        *)
(*                                                                         *)
(* The echo (kprintf in char_write) changes the terminal, not this state.  *)
(***************************************************************************)
EXTENDS Integers, Sequences

CONSTANTS
    Char,        \* the characters that keys[] holds, '\0' excepted
    NUL,         \* '\0'
    keys,        \* the scan code table
    Codes,       \* the scan codes the keyboard sends
    BUFSIZE,     \* slots of buffer[] (100 in the code)
    INT8,        \* an int8_t holds -INT8 .. INT8 - 1 (128 in the code)
    Sizes,       \* the numchars that programs pass to read
    TypeAhead    \* bound: how many characters a typist gets ahead of the reader

\* The scan codes that getkey treats by name.
BackspaceCode == 14
SilentCodes == {1, 29, 42, 54, 56, 58}
FirstKeyUp == 129

\* 128 would be the release of a key 0, which no keyboard has.
ASSUME KeyboardAssumption ==
    /\ NUL \notin Char
    /\ Codes \subseteq 0..255 \ {128}
    /\ keys \in [0..127 -> Char \cup {NUL}]
    /\ BUFSIZE \in Nat \ {0}
    /\ INT8 \in Nat
    /\ BUFSIZE < INT8
    /\ Sizes \subseteq Nat
    /\ TypeAhead \in Nat

VARIABLES
    buffer,         \* the circular buffer
    buffer_length,  \* int8_t, shared
    reading_index,  \* int8_t, shared
    writing_index,  \* int8_t, used by the interrupt handler only
    pc,             \* where kread is
    ri,             \* kread's register copy of reading_index
    returned,       \* the character kgetc is about to return
    numchars,       \* kread's argument
    buff,           \* what kread has stored in the caller's buffer
    pending         \* auxiliary: characters typed and not yet delivered

globals == <<buffer, buffer_length, reading_index, writing_index>>
frame == <<pc, ri, returned, numchars, buff>>
vars == <<globals, frame, pending>>

Slots == 0..BUFSIZE - 1
Int8Range == -INT8..INT8 - 1

\* The value an int8_t keeps of a result that is at most one step out of range.
ToInt8(x) ==
    IF x > INT8 - 1 THEN x - 2 * INT8
    ELSE IF x < -INT8 THEN x + 2 * INT8
    ELSE x
-----------------------------------------------------------------------------
Init ==
    /\ buffer = [s \in Slots |-> NUL]
    /\ buffer_length = 0
    /\ reading_index = 0
    /\ writing_index = 0
    /\ pc = "idle"
    /\ ri = 0
    /\ returned = NUL
    /\ numchars = 0
    /\ buff = <<>>
    /\ pending = <<>>
-----------------------------------------------------------------------------
(***************************************************************************)
(* The interrupt handler.                                                  *)
(***************************************************************************)

\* The character a scan code stands for; '\0' when there is none.
getkey(code) ==
    IF code \in SilentCodes \cup {BackspaceCode} \/ code >= FirstKeyUp
    THEN NUL
    ELSE keys[code]

\* Mutant: the index is not taken back to the end of the array.
backspaceNoWrap ==
    /\ buffer_length' = ToInt8(buffer_length - 1)
    /\ reading_index' = reading_index - 1
    /\ UNCHANGED <<buffer, writing_index>>

\* getkey's side effect for the backspace key, on whatever the buffer holds.
backspace ==
    /\ buffer_length' = ToInt8(buffer_length - 1)
    /\ reading_index' = IF reading_index - 1 < 0 THEN BUFSIZE - 1
                        ELSE reading_index - 1
    /\ UNCHANGED <<buffer, writing_index>>

\* Mutant: > for >= in the test for the end of the array.
char_writeOffByOne(key) ==
    /\ buffer' = [buffer EXCEPT ![writing_index] = key]
    /\ writing_index' = IF writing_index + 1 > BUFSIZE THEN 0
                        ELSE writing_index + 1
    /\ buffer_length' = ToInt8(buffer_length + 1)
    /\ UNCHANGED reading_index

\* Mutant: the new character is not counted.
char_writeUncounted(key) ==
    /\ buffer' = [buffer EXCEPT ![writing_index] = key]
    /\ writing_index' = IF writing_index + 1 >= BUFSIZE THEN 0
                        ELSE writing_index + 1
    /\ UNCHANGED <<reading_index, buffer_length>>

\* Append to the circular buffer, full or not.
char_write(key) ==
    /\ buffer' = [buffer EXCEPT ![writing_index] = key]
    /\ writing_index' = IF writing_index + 1 >= BUFSIZE THEN 0
                        ELSE writing_index + 1
    /\ buffer_length' = ToInt8(buffer_length + 1)
    /\ UNCHANGED reading_index

\* pending follows the typist: a key adds a character, backspace erases the last.
keyboard_interrupt(code) ==
    /\ \/ /\ code = BackspaceCode
          /\ backspace
          /\ pending' = IF pending = <<>> THEN <<>>
                        ELSE SubSeq(pending, 1, Len(pending) - 1)
       \/ /\ code # BackspaceCode
          /\ getkey(code) # NUL
          /\ Len(pending) < TypeAhead
          /\ char_write(getkey(code))
          /\ pending' = Append(pending, getkey(code))
       \/ /\ code # BackspaceCode
          /\ getkey(code) = NUL
          /\ UNCHANGED <<globals, pending>>
    /\ UNCHANGED frame
-----------------------------------------------------------------------------
(***************************************************************************)
(* SYS_READ: kread(n), with kgetc inlined in its loop.                     *)
(***************************************************************************)
kread(n) ==
    /\ pc = "idle"
    /\ pc' = IF n > 0 THEN "spin" ELSE "idle"
    /\ numchars' = n
    /\ buff' = <<>>
    /\ UNCHANGED <<globals, ri, returned, pending>>

\* while (buffer_length == 0) {}: the only way on is a non-zero length.
Spin ==
    /\ pc = "spin"
    /\ buffer_length # 0
    /\ pc' = "load"
    /\ UNCHANGED <<globals, ri, returned, numchars, buff, pending>>

LoadIndex ==
    /\ pc = "load"
    /\ ri' = reading_index
    /\ pc' = "fetch"
    /\ UNCHANGED <<globals, returned, numchars, buff, pending>>

\* Mutant: buffer[++reading_index] for buffer[reading_index].
FetchCharLate ==
    /\ pc = "fetch"
    /\ returned' = buffer[IF ri + 1 >= BUFSIZE THEN 0 ELSE ri + 1]
    /\ pc' = "bump"
    /\ UNCHANGED <<globals, ri, numchars, buff, pending>>

FetchChar ==
    /\ pc = "fetch"
    /\ returned' = buffer[ri]
    /\ pc' = "bump"
    /\ UNCHANGED <<globals, ri, numchars, buff, pending>>

BumpIndex ==
    /\ pc = "bump"
    /\ reading_index' = ri + 1
    /\ pc' = "take"
    /\ UNCHANGED <<buffer, buffer_length, writing_index>>
    /\ UNCHANGED <<ri, returned, numchars, buff, pending>>

\* Mutant: the character taken is still counted.
TakeLengthForgotten ==
    /\ pc = "take"
    /\ pc' = "wrap"
    /\ UNCHANGED <<globals, ri, returned, numchars, buff, pending>>

TakeLength ==
    /\ pc = "take"
    /\ buffer_length' = ToInt8(buffer_length - 1)
    /\ pc' = "wrap"
    /\ UNCHANGED <<buffer, reading_index, writing_index>>
    /\ UNCHANGED <<ri, returned, numchars, buff, pending>>

\* The test is on the register; memory is written only when it wraps.
WrapIndex ==
    /\ pc = "wrap"
    /\ reading_index' = IF ri + 1 >= BUFSIZE THEN 0 ELSE reading_index
    /\ pc' = "store"
    /\ UNCHANGED <<buffer, buffer_length, writing_index>>
    /\ UNCHANGED <<ri, returned, numchars, buff, pending>>

\* kread's buff[i] = ret and loop test; the delivered character leaves pending.
StoreChar ==
    /\ pc = "store"
    /\ buff' = Append(buff, returned)
    /\ pc' = IF Len(buff) + 1 < numchars THEN "spin" ELSE "idle"
    /\ pending' = IF pending = <<>> THEN <<>> ELSE Tail(pending)
    /\ UNCHANGED <<globals, ri, returned, numchars>>

KernelStep ==
    \/ Spin
    \/ LoadIndex
    \/ FetchChar
    \/ BumpIndex
    \/ TakeLength
    \/ WrapIndex
    \/ StoreChar

Next ==
    \/ \E code \in Codes : keyboard_interrupt(code)
    \/ \E n \in Sizes : kread(n)
    \/ KernelStep

Spec == Init /\ [][Next]_vars

(***************************************************************************)
(* The processor keeps executing kread; nobody has to type or to read.     *)
(***************************************************************************)
FairSpec == Spec /\ WF_vars(KernelStep)
-----------------------------------------------------------------------------
(***************************************************************************)
(* Properties.                                                             *)
(***************************************************************************)

\* Every shared index and length stays within its int8_t, whatever is typed.
TypeOK ==
    /\ buffer \in [Slots -> Char \cup {NUL}]
    /\ buffer_length \in Int8Range
    /\ reading_index \in 0..BUFSIZE
    /\ writing_index \in Slots
    /\ pc \in {"idle", "spin", "load", "fetch", "bump", "take", "wrap", "store"}
    /\ ri \in Slots
    /\ returned \in Char \cup {NUL}
    /\ numchars \in Nat
    /\ buff \in Seq(Char \cup {NUL})
    /\ pending \in Seq(Char)

(***************************************************************************)
(* No access to buffer[] falls outside its slots, whatever keys are typed, *)
(* however far ahead of the reader, and wherever they preempt kgetc.  The  *)
(* index may be one past the end only between kgetc's increment and its    *)
(* wrap-around test, which a backspace can also interrupt.                 *)
(***************************************************************************)
RingAccessInBounds ==
    /\ writing_index \in Slots
    /\ pc = "fetch" => ri \in Slots
    /\ reading_index \notin Slots =>
          pc \in {"take", "wrap"} /\ reading_index = ri + 1

\* The slot k places after slot s.
Slot(s, k) == IF s + k >= BUFSIZE THEN s + k - BUFSIZE ELSE s + k

\* The slots of buf from s up to w hold the characters of p, in order.
Ring(buf, w, s, p) ==
    /\ Len(p) <= BUFSIZE
    /\ s \in Slots
    /\ w = Slot(s, Len(p))
    /\ \A k \in 1..Len(p) : buf[Slot(s, k - 1)] = p[k]

\* The slot of the oldest undelivered character; kgetc bumps the index early.
Oldest == IF pc \in {"take", "wrap", "store"} THEN ri ELSE reading_index

\* A typist who never erases and never gets more than a buffer ahead.
CalmTypist == BackspaceCode \notin Codes /\ TypeAhead <= BUFSIZE

\* How far kgetc has got, at each of the places where it can be preempted.
KgetcProgress ==
    /\ buffer_length = Len(pending) - (IF pc \in {"wrap", "store"} THEN 1 ELSE 0)
    /\ pc \notin {"idle", "spin"} => pending # <<>>
    /\ pc \in {"fetch", "bump"} => ri = reading_index
    /\ pc \in {"bump", "take", "wrap", "store"} => returned = Head(pending)
    /\ pc \in {"take", "wrap"} => reading_index = ri + 1
    /\ pc = "store" => reading_index = Slot(ri, 1)

(***************************************************************************)
(* While nobody types backspace or more than a buffer ahead, the ring      *)
(* holds exactly the undelivered characters, in order, and buffer_length   *)
(* counts them (less the one kgetc has already taken), at every point      *)
(* where the interrupt can preempt kgetc.                                  *)
(***************************************************************************)
RingHoldsPending ==
    Ring(buffer, writing_index, Oldest, pending) /\ KgetcProgress

KQ == INSTANCE KeyQueue WITH
        queue <- pending, reading <- (pc # "idle"), wanted <- numchars, got <- buff

(***************************************************************************)
(* kread and the interrupt handler together implement the queue: read      *)
(* returns the characters typed, in order, each once.                      *)
(***************************************************************************)
ImplementsKeyQueue == KQ!Spec

(***************************************************************************)
(* kgetc's wait loop is left: a read in progress gets the character that   *)
(* has been typed.                                                         *)
(***************************************************************************)
KeyReachesReader == (pc # "idle" /\ pending # <<>>) ~> (pc = "store")

(***************************************************************************)
(* kgetc's comment: "If the keyboard buffer is empty this function will    *)
(* block until a key is pressed."                                          *)
(***************************************************************************)
KgetcBlocksOnEmpty ==
    [][pc = "spin" /\ pc' = "load" => pending # <<>>]_vars
=============================================================================
