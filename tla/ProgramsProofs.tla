--------------------------- MODULE ProgramsProofs ---------------------------
(***************************************************************************)
(* Proofs about Programs.tla: for every alphabet, length of the names and  *)
(* number of rounds, a read stores no more than it was asked for, and the  *)
(* shell execs what was typed.                                             *)
(*                                                                         *)
(* What has been read is a prefix of what was typed, and modname holds its *)
(* last i characters.  ProgramsInv says this at every step of kread.       *)
(***************************************************************************)
EXTENDS Programs, SequenceTheorems, NaturalsInduction, WellFoundedInduction, TLAPS

\* The characters that kread was asked for, and the number that were read in all.
Limit == IF program = "init" THEN NAME ELSE COUNT
Taken == Len(keys) - Len(typed)

Positions ==
    /\ program \in {"init", "echo", "wait"}
    /\ program = "init" => pc \in {"_start", "kread", "returned", "check", "exec_setup"}
    /\ program = "echo" => pc \in {"_start", "loop", "kread", "returned", "exit", "exec_setup",
                                   "halted"}
    /\ program = "wait" => pc \in {"_start", "forever"}

Loops ==
    /\ i \in 0..Limit
    /\ pc = "_start" => i = 0
    /\ pc = "kread" => i < Limit
    /\ round \in 0..COUNT
    /\ pc \in {"kread", "returned"} /\ program = "echo" => round < COUNT

\* What is still to be read is the end of what was typed.
Queue ==
    /\ keys \in Seq(Chars) /\ typed \in Seq(Chars)
    /\ Taken \in Nat
    /\ \A k \in 1..Len(typed) : typed[k] = keys[Taken + k]

\* modname, its characters, and the terminator behind its end.
Name ==
    program = "init" =>
        /\ DOMAIN buf = {"modname"}
        /\ buf.modname \in [1..NAME + 2 -> Chars \cup {NUL}]
        /\ buf.modname[NAME + 2] = NUL
        /\ pc # "_start" => to = "modname"
        /\ pc \in {"returned", "check", "exec_setup"} => i = NAME
        /\ i <= Taken /\ \E q \in Nat : Taken - i = NAME * q
        /\ pc # "_start" => \A k \in 1..i : buf.modname[k] = keys[Taken - i + k]
        /\ pc = "exec_setup" => String(buf.modname) \in Commands

ProgramsInv == Positions /\ Loops /\ Queue /\ Name
-----------------------------------------------------------------------------
(***************************************************************************)
(* Lemmas about numbers, strings and the queue.                            *)
(***************************************************************************)
LEMMA Multiples ==
    ASSUME NEW n \in Nat \ {0}
    PROVE  n * 0 = 0 /\ \A q \in Nat : n * q + n = n * (q + 1) /\ (n * q) % n = 0
<1>1. ASSUME NEW q \in Nat PROVE n * q + n = n * (q + 1)
  OBVIOUS
<1>2. ASSUME NEW q \in Nat PROVE (n * q) % n = 0
  OBVIOUS
<1> QED
  BY <1>1, <1>2

\* A string that ends at its first NUL: its characters are the buffer's.
LEMMA StringIs ==
    ASSUME NEW b, NEW n \in Nat, b \in [1..n -> Chars \cup {NUL}], NEW m \in Nat \ {0},
           String(b) \in [1..m -> Chars]
    PROVE  \A k \in 1..m : String(b)[k] = b[k]
<1> DEFINE I == {k \in 1..Len(b) : b[k] = NUL}
<1>0. b \in Seq(Chars \cup {NUL}) /\ Len(b) = n
  OBVIOUS
<1>1. PICK e : e = IF I # {} THEN Min(I) ELSE 0
  OBVIOUS
<1>2. String(b) = SubSeq(b, 1, e - 1)
  BY <1>1 DEF String, SelectInSeq
<1>3. e \in 0..n
  <2> SUFFICES ASSUME I # {} PROVE Min(I) \in I
    BY <1>0, <1>1
  <2>1. I \subseteq Nat
    BY <1>0
  <2>2. \E x \in I : \A y \in I : ~(<<y, x>> \in OpToRel(<, Nat))
    BY <2>1, WFMin, NatLessThanWellFounded
  <2>3. PICK x \in I : \A y \in I : ~(<<y, x>> \in OpToRel(<, Nat))
    BY <2>2
  <2>4. ASSUME NEW y \in I PROVE x <= y
    <3>1. x \in Nat /\ y \in Nat /\ <<y, x>> \notin OpToRel(<, Nat)
      BY <2>1, <2>3
    <3>2. <<y, x>> \in {s \in Nat \X Nat : s[1] < s[2]} <=> y < x
      BY <3>1
    <3>3. ~(y < x)
      BY <3>1, <3>2 DEF OpToRel
    <3>4. \A u, v \in Nat : ~(u < v) => v <= u
      OBVIOUS
    <3> QED BY <3>1, <3>3, <3>4
  <2> QED BY <2>4 DEF Min
<1>4. /\ Len(SubSeq(b, 1, e - 1)) = IF 1 <= e - 1 THEN e - 1 ELSE 0
      /\ \A k \in 1..(e - 1) : SubSeq(b, 1, e - 1)[k] = b[k]
      /\ DOMAIN SubSeq(b, 1, e - 1) = 1..(e - 1)
  <2>1. e - 1 \in Int /\ \A k \in 1..(e - 1) : b[k] \in Chars \cup {NUL}
    BY <1>3
  <2>2. /\ SubSeq(b, 1, e - 1) \in Seq(Chars \cup {NUL})
        /\ Len(SubSeq(b, 1, e - 1)) = IF 1 <= e - 1 THEN e - 1 - 1 + 1 ELSE 0
        /\ \A k \in 1..(e - 1 - 1 + 1) : SubSeq(b, 1, e - 1)[k] = b[1 + k - 1]
    BY <2>1, SubSeqProperties
  <2>3. DOMAIN SubSeq(b, 1, e - 1) = 1..Len(SubSeq(b, 1, e - 1))
    BY <2>2, LenProperties
  <2> QED BY <1>3, <2>2, <2>3
<1>5. DOMAIN String(b) = 1..m
  OBVIOUS
<1>6. 1..(e - 1) = 1..m
  BY <1>2, <1>4, <1>5
<1> QED
  BY <1>2, <1>4, <1>6

\* What a read takes from the queue, and what a key adds to it.
LEMMA TakeQueue ==
    ASSUME Queue, typed # <<>>, typed' = Tail(typed), keys' = keys
    PROVE  Queue' /\ Taken' = Taken + 1 /\ Head(typed) = keys[Taken + 1] /\ Head(typed) \in Chars
<1>1. /\ Len(keys) \in Nat /\ Len(typed) \in Nat /\ Len(typed) # 0
      /\ typed \in Seq(Chars) /\ keys \in Seq(Chars)
  BY EmptySeq DEF Queue
<1>2. /\ typed' \in Seq(Chars)
      /\ Len(typed') = Len(typed) - 1
      /\ \A k \in 1..Len(typed') : typed'[k] = typed[k + 1]
      /\ Head(typed) = typed[1] /\ Head(typed) \in Chars
  BY <1>1, HeadTailProperties
<1>3. Taken \in Nat /\ \A k \in 1..Len(typed) : typed[k] = keys[Taken + k]
  BY DEF Queue
<1>4. Taken' = Taken + 1
  BY <1>1, <1>2 DEF Taken
<1>5. Head(typed) = keys[Taken + 1]
  <2>1. 1 \in 1..Len(typed)
    BY <1>1
  <2> QED BY <2>1, <1>2, <1>3
<1>6. ASSUME NEW k \in 1..Len(typed') PROVE typed'[k] = keys'[Taken' + k]
  <2>1. k + 1 \in 1..Len(typed)
    BY <1>1, <1>2
  <2>2. typed'[k] = keys[Taken + (k + 1)]
    BY <2>1, <1>2, <1>3
  <2>3. Taken + (k + 1) = Taken' + k
    BY <1>3, <1>4
  <2> QED BY <2>2, <2>3
<1> QED
  BY <1>1, <1>2, <1>3, <1>4, <1>5, <1>6 DEF Queue

LEMMA TypeQueue ==
    ASSUME Queue, NEW ch \in Chars, typed' = Append(typed, ch), keys' = Append(keys, ch)
    PROVE  Queue' /\ Taken' = Taken /\ \A k \in 1..Taken : keys'[k] = keys[k]
<1>1. /\ Len(keys) \in Nat /\ Len(typed) \in Nat
      /\ typed \in Seq(Chars) /\ keys \in Seq(Chars)
  BY DEF Queue
<1>2. /\ typed' \in Seq(Chars) /\ Len(typed') = Len(typed) + 1
      /\ \A k \in 1..Len(typed) : typed'[k] = typed[k]
      /\ typed'[Len(typed) + 1] = ch
  BY <1>1, AppendProperties
<1>3. /\ keys' \in Seq(Chars) /\ Len(keys') = Len(keys) + 1
      /\ \A k \in 1..Len(keys) : keys'[k] = keys[k]
      /\ keys'[Len(keys) + 1] = ch
  BY <1>1, AppendProperties
<1>4. Taken \in Nat /\ \A k \in 1..Len(typed) : typed[k] = keys[Taken + k]
  BY DEF Queue
<1>5. Taken' = Taken /\ Taken + Len(typed) = Len(keys)
  BY <1>1, <1>2, <1>3 DEF Taken
<1>6. ASSUME NEW k \in 1..Len(typed') PROVE typed'[k] = keys'[Taken' + k]
  <2>1. CASE k \in 1..Len(typed)
    <3>1. Taken + k \in 1..Len(keys)
      BY <2>1, <1>1, <1>4, <1>5
    <3> QED BY <2>1, <3>1, <1>2, <1>3, <1>4, <1>5
  <2>2. CASE k = Len(typed) + 1
    <3>1. Taken + k = Len(keys) + 1
      BY <2>2, <1>1, <1>4, <1>5
    <3> QED BY <2>2, <3>1, <1>2, <1>3, <1>5
  <2>3. \A l \in Nat : \A m \in 1..(l + 1) : m \in 1..l \/ m = l + 1
    OBVIOUS
  <2> QED BY <2>1, <2>2, <2>3, <1>1, <1>2
<1>7. \A k \in 1..Taken : keys'[k] = keys[k]
  <2>1. \A k \in 1..Taken : k \in 1..Len(keys)
    BY <1>1, <1>4, <1>5
  <2> QED BY <2>1, <1>3
<1> QED
  BY <1>2, <1>3, <1>4, <1>5, <1>6, <1>7 DEF Queue
-----------------------------------------------------------------------------
(***************************************************************************)
(* ProgramsInv is inductive.                                               *)
(***************************************************************************)
LEMMA InitPrograms == Init => ProgramsInv
<1> SUFFICES ASSUME Init PROVE ProgramsInv
  OBVIOUS
<1>0. NAME \in Nat \ {0} /\ COUNT \in Nat \ {0}
  BY ProgramsAssumption
<1>1. /\ program \in {"init", "echo", "wait"} /\ pc = "_start" /\ i = 0 /\ round = 0
      /\ typed = <<>> /\ keys = <<>>
  BY DEF Init
<1>2. Positions /\ Loops
  BY <1>0, <1>1 DEF Positions, Loops, Limit
<1>3. Queue /\ Taken = 0
  <2>1. typed \in Seq(Chars) /\ keys \in Seq(Chars) /\ Len(typed) = 0 /\ Len(keys) = 0
    BY <1>1, EmptySeq
  <2>2. Taken = 0
    BY <2>1 DEF Taken
  <2> QED BY <2>1, <2>2 DEF Queue
<1>4. Name
  <2> SUFFICES ASSUME program = "init" PROVE Name
    BY DEF Name
  <2>1. buf \in [{"modname"} -> Block(NAME + 1)]
    BY DEF Init
  <2>2. PICK b \in [1..NAME + 1 -> Chars \cup {NUL}] : buf.modname = Append(b, NUL)
    BY <2>1 DEF Block
  <2>3. b \in Seq(Chars \cup {NUL}) /\ Len(b) = NAME + 1
    BY <1>0
  <2>4. PICK name : name = buf.modname
    OBVIOUS
  <2>5. /\ name \in Seq(Chars \cup {NUL}) /\ Len(name) = NAME + 2
        /\ name[NAME + 2] = NUL
    <3>1. Append(b, NUL) \in Seq(Chars \cup {NUL}) /\ Len(Append(b, NUL)) = Len(b) + 1
          /\ Append(b, NUL)[Len(b) + 1] = NUL
      BY <2>3, AppendProperties
    <3>2. Len(b) + 1 = NAME + 2
      BY <2>3, <1>0
    <3> QED BY <2>2, <2>4, <3>1, <3>2
  <2>6. name \in [1..NAME + 2 -> Chars \cup {NUL}]
    BY <2>5, LenProperties
  <2>7. Taken - i = NAME * 0 /\ i <= Taken
    BY <1>0, <1>1, <1>3, Multiples
  <2> QED BY <1>1, <2>1, <2>4, <2>5, <2>6, <2>7 DEF Name
<1> QED
  BY <1>2, <1>3, <1>4 DEF ProgramsInv

\* What the steps that neither read nor type keep.
LEMMA SameQueue ==
    ASSUME Queue, UNCHANGED kernel
    PROVE  Queue' /\ Taken' = Taken /\ keys' = keys
<1>1. typed' = typed /\ keys' = keys
  BY DEF kernel
<1> QED
  BY <1>1 DEF Queue, Taken

LEMMA kreadPrograms == ProgramsInv /\ kread => ProgramsInv'
<1> SUFFICES ASSUME ProgramsInv, kread PROVE ProgramsInv'
  OBVIOUS
<1>0. NAME \in Nat \ {0} /\ COUNT \in Nat \ {0} /\ Limit \in Nat
  BY ProgramsAssumption DEF Limit
<1>1. /\ pc = "kread" /\ typed # <<>> /\ typed' = Tail(typed) /\ i' = i + 1
      /\ pc' = IF i + 1 < Limit THEN "kread" ELSE "returned"
      /\ program' = program /\ to' = to /\ round' = round /\ keys' = keys
      /\ buf' = [buf EXCEPT ![to] = [@ EXCEPT ![i + 1] = Head(typed)]]
  BY DEF kread, Limit
<1>2. /\ Queue' /\ Taken' = Taken + 1 /\ Head(typed) = keys[Taken + 1] /\ Head(typed) \in Chars
      /\ Taken \in Nat
  BY <1>1, TakeQueue DEF ProgramsInv, Queue
<1>3. Limit' = Limit
  BY <1>1 DEF Limit
<1>4. i \in Nat /\ i < Limit
  BY <1>0, <1>1 DEF ProgramsInv, Loops
<1>5. Positions'
  BY <1>1 DEF ProgramsInv, Positions
<1>6. Loops'
  BY <1>0, <1>1, <1>3, <1>4 DEF ProgramsInv, Loops
<1>7. Name'
  <2> SUFFICES ASSUME program = "init" PROVE Name'
    BY <1>1 DEF Name
  <2>1. /\ DOMAIN buf = {"modname"}
        /\ buf.modname \in [1..NAME + 2 -> Chars \cup {NUL}]
        /\ buf.modname[NAME + 2] = NUL
        /\ to = "modname"
        /\ i <= Taken /\ \E q \in Nat : Taken - i = NAME * q
        /\ \A k \in 1..i : buf.modname[k] = keys[Taken - i + k]
    <3>1. Name /\ pc # "_start"
      BY <1>1 DEF ProgramsInv
    <3> QED BY <3>1, Zenon DEF Name
  <2>2. Limit = NAME
    BY DEF Limit
  <2>3. PICK b : b = buf.modname
    OBVIOUS
  <2>4. PICK c : c = [b EXCEPT ![i + 1] = Head(typed)]
    OBVIOUS
  <2>5. DOMAIN buf' = {"modname"} /\ buf'.modname = c
    BY <1>1, <2>1, <2>3, <2>4
  <2>6. i + 1 \in 1..NAME + 2 /\ i + 1 # NAME + 2
    BY <1>0, <1>4, <2>2
  <2>7. /\ c \in [1..NAME + 2 -> Chars \cup {NUL}]
        /\ c[NAME + 2] = NUL
        /\ c[i + 1] = Head(typed)
        /\ \A k \in 1..i : c[k] = b[k]
    <3>1. b \in [1..NAME + 2 -> Chars \cup {NUL}] /\ b[NAME + 2] = NUL
      BY <2>1, <2>3
    <3>2. NAME + 2 \in 1..NAME + 2 /\ \A k \in 1..i : k \in 1..NAME + 2 /\ k # i + 1
      BY <1>0, <1>4, <2>2
    <3> QED BY <1>2, <2>4, <2>6, <3>1, <3>2
  <2>8. Taken' - i' = Taken - i /\ i' <= Taken'
    BY <1>1, <1>2, <1>4, <2>1
  <2>9. ASSUME NEW k \in 1..i' PROVE c[k] = keys'[Taken' - i' + k]
    <3>1. Taken' - i' + k = Taken - i + k
      BY <2>8
    <3>2. CASE k \in 1..i
      BY <3>1, <3>2, <1>1, <2>1, <2>3, <2>7
    <3>3. CASE k = i + 1
      <4>1. Taken - i + k = Taken + 1
        BY <3>3, <1>2, <1>4
      <4> QED BY <3>1, <3>3, <4>1, <1>1, <1>2, <2>7
    <3> QED BY <3>2, <3>3, <1>1, <1>4
  <2>10. pc' \in {"returned", "check", "exec_setup"} => i' = NAME
    BY <1>0, <1>1, <1>4, <2>2
  <2>11. pc' # "exec_setup" /\ to' = "modname"
    BY <1>1, <2>1
  <2>12. \E q \in Nat : Taken' - i' = NAME * q
    BY <2>1, <2>8
  <2> QED BY <2>5, <2>7, <2>8, <2>9, <2>10, <2>11, <2>12 DEF Name
<1> QED
  BY <1>2, <1>5, <1>6, <1>7 DEF ProgramsInv

LEMMA TypePrograms == ProgramsInv /\ (\E ch \in Chars : Type(ch)) => ProgramsInv'
<1> SUFFICES ASSUME ProgramsInv, NEW ch \in Chars, Type(ch) PROVE ProgramsInv'
  OBVIOUS
<1>1. /\ typed' = Append(typed, ch) /\ keys' = Append(keys, ch)
      /\ program' = program /\ pc' = pc /\ buf' = buf /\ to' = to /\ i' = i /\ round' = round
  BY DEF Type
<1>2. /\ Queue' /\ Taken' = Taken /\ \A k \in 1..Taken : keys'[k] = keys[k]
      /\ Taken \in Nat
  BY <1>1, TypeQueue DEF ProgramsInv, Queue
<1>3. Positions' /\ Loops'
  BY <1>1 DEF ProgramsInv, Positions, Loops, Limit
<1>4. Name'
  <2> SUFFICES ASSUME program = "init" PROVE Name'
    BY <1>1 DEF Name
  <2>1. /\ i <= Taken /\ i \in Int
        /\ pc # "_start" => \A k \in 1..i : buf.modname[k] = keys[Taken - i + k]
    <3>1. Name
      BY DEF ProgramsInv
    <3>2. i \in Int
      BY DEF ProgramsInv, Loops
    <3> QED BY <3>1, <3>2, Zenon DEF Name
  <2>2. ASSUME pc # "_start", NEW k \in 1..i PROVE buf.modname[k] = keys'[Taken - i + k]
    <3>1. Taken - i + k \in 1..Taken
      BY <2>1, <1>2
    <3> QED BY <2>2, <3>1, <2>1, <1>2
  <2>3. pc' = "exec_setup" => String(buf'.modname) \in Commands
    BY <1>1 DEF ProgramsInv, Name
  <2> QED BY <1>1, <1>2, <2>2, <2>3 DEF ProgramsInv, Name
<1> QED
  BY <1>2, <1>3, <1>4 DEF ProgramsInv

LEMMA SyscallIs == syscall_handler(SYS_READ) = "kread" /\ syscall_handler(SYS_EXEC) = "exec_setup"
  BY DEF syscall_handler, SYS_READ, SYS_WRITE, SYS_EXEC

\* The shell's reads start a new group.
LEMMA ShellReads == ProgramsInv /\ (InitStart \/ InitInvalid) => ProgramsInv'
<1> SUFFICES ASSUME ProgramsInv, InitStart \/ InitInvalid PROVE ProgramsInv'
  OBVIOUS
<1>0. NAME \in Nat \ {0} /\ COUNT \in Nat \ {0}
  BY ProgramsAssumption
<1>1. /\ program = "init" /\ program' = program /\ pc \in {"_start", "check"} /\ pc' = "kread"
      /\ to' = "modname" /\ i' = 0 /\ buf' = buf /\ round' = round /\ UNCHANGED kernel
  BY SyscallIs DEF InitStart, InitInvalid, read
<1>2. Queue' /\ Taken' = Taken /\ Taken \in Nat
  BY <1>1, SameQueue DEF ProgramsInv, Queue
<1>3. Positions'
  BY <1>1 DEF Positions
<1>4. Loops'
  BY <1>0, <1>1 DEF ProgramsInv, Loops, Limit
<1>5. /\ DOMAIN buf = {"modname"}
      /\ buf.modname \in [1..NAME + 2 -> Chars \cup {NUL}]
      /\ buf.modname[NAME + 2] = NUL
      /\ pc = "check" => i = NAME
      /\ \E q \in Nat : Taken - i = NAME * q
  <2>1. Name
    BY DEF ProgramsInv
  <2> QED BY <1>1, <2>1, Zenon DEF Name
<1>6. \E q \in Nat : Taken = NAME * q
  <2>1. PICK q \in Nat : Taken - i = NAME * q
    BY <1>5
  <2>2. CASE pc = "_start"
    <3>1. i = 0
      BY <2>2, <1>1 DEF ProgramsInv, Loops
    <3> QED BY <2>1, <3>1, <1>2
  <2>3. CASE pc = "check"
    <3>1. Taken = NAME * q + NAME
      <4>1. NAME * q \in Int
        BY <1>0
      <4> QED BY <2>1, <2>3, <4>1, <1>0, <1>2, <1>5
    <3>2. NAME * q + NAME = NAME * (q + 1)
      BY <1>0, Multiples
    <3>3. q + 1 \in Nat
      OBVIOUS
    <3> QED BY <3>1, <3>2, <3>3
  <2> QED BY <2>2, <2>3, <1>1
<1>7. i' <= Taken' /\ \E q \in Nat : Taken' - i' = NAME * q
  BY <1>1, <1>2, <1>6
<1>8. Name'
  BY <1>1, <1>5, <1>7 DEF Name
<1> QED
  BY <1>2, <1>3, <1>4, <1>8 DEF ProgramsInv

\* The terminator goes behind modname; the characters stay.
LEMMA ShellTerminates == ProgramsInv /\ InitTerminate => ProgramsInv'
<1> SUFFICES ASSUME ProgramsInv, InitTerminate PROVE ProgramsInv'
  OBVIOUS
<1>0. NAME \in Nat \ {0} /\ COUNT \in Nat \ {0}
  BY ProgramsAssumption
<1>1. /\ program = "init" /\ program' = program /\ pc = "returned" /\ pc' = "check"
      /\ to' = to /\ i' = i /\ round' = round /\ UNCHANGED kernel
      /\ buf' = [buf EXCEPT !.modname = [@ EXCEPT ![NAME + 2] = NUL]]
  BY DEF InitTerminate, Goto
<1>2. Queue' /\ Taken' = Taken /\ keys' = keys
  BY <1>1, SameQueue DEF ProgramsInv
<1>3. Positions' /\ Loops'
  BY <1>1 DEF ProgramsInv, Positions, Loops, Limit
<1>4. /\ DOMAIN buf = {"modname"}
      /\ buf.modname \in [1..NAME + 2 -> Chars \cup {NUL}]
      /\ buf.modname[NAME + 2] = NUL
      /\ to = "modname" /\ i = NAME
      /\ i <= Taken /\ \E q \in Nat : Taken - i = NAME * q
      /\ \A k \in 1..i : buf.modname[k] = keys[Taken - i + k]
  <2>1. Name /\ pc # "_start"
    BY <1>1 DEF ProgramsInv
  <2> QED BY <1>1, <2>1, Zenon DEF Name
<1>5. PICK b : b = buf.modname
  OBVIOUS
<1>6. PICK c : c = [b EXCEPT ![NAME + 2] = NUL]
  OBVIOUS
<1>7. c = b
  <2>1. b \in [1..NAME + 2 -> Chars \cup {NUL}] /\ b[NAME + 2] = NUL
    BY <1>4, <1>5
  <2> QED BY <2>1, <1>6
<1>8. DOMAIN buf' = {"modname"} /\ buf'.modname = c
  BY <1>1, <1>4, <1>5, <1>6
<1>9. buf'.modname = buf.modname
  BY <1>5, <1>7, <1>8
<1>10. Name'
  BY <1>1, <1>2, <1>4, <1>8, <1>9 DEF Name
<1> QED
  BY <1>2, <1>3, <1>10 DEF ProgramsInv

\* exec is called only with a command.
LEMMA ShellExecs == ProgramsInv /\ InitCheck => ProgramsInv'
<1> SUFFICES ASSUME ProgramsInv, InitCheck PROVE ProgramsInv'
  OBVIOUS
<1>1. /\ program = "init" /\ program' = program /\ pc = "check" /\ pc' = "exec_setup"
      /\ to' = to /\ i' = i /\ round' = round /\ buf' = buf /\ UNCHANGED kernel
      /\ String(buf.modname) \in Commands
  BY SyscallIs DEF InitCheck, Goto
<1>2. Queue' /\ Taken' = Taken /\ keys' = keys
  BY <1>1, SameQueue DEF ProgramsInv
<1>3. Positions' /\ Loops'
  BY <1>1 DEF ProgramsInv, Positions, Loops, Limit
<1>4. /\ DOMAIN buf = {"modname"}
      /\ buf.modname \in [1..NAME + 2 -> Chars \cup {NUL}]
      /\ buf.modname[NAME + 2] = NUL
      /\ to = "modname" /\ i = NAME
      /\ i <= Taken /\ \E q \in Nat : Taken - i = NAME * q
      /\ \A k \in 1..i : buf.modname[k] = keys[Taken - i + k]
  <2>1. Name /\ pc # "_start"
    BY <1>1 DEF ProgramsInv
  <2> QED BY <1>1, <2>1, Zenon DEF Name
<1>5. String(buf'.modname) \in Commands
  BY <1>1
<1>6. Name'
  BY <1>1, <1>2, <1>4, <1>5 DEF Name
<1> QED
  BY <1>2, <1>3, <1>6 DEF ProgramsInv

\* echo and wait.
LEMMA OthersStep ==
    ProgramsInv /\ (EchoStart \/ EchoNext \/ EchoExit \/ WaitStart
                    \/ \E place \in Places : EchoRead(place) \/ EchoWrite(place)) => ProgramsInv'
<1> SUFFICES ASSUME ProgramsInv,
                    EchoStart \/ EchoNext \/ EchoExit \/ WaitStart
                    \/ \E place \in Places : EchoRead(place) \/ EchoWrite(place)
             PROVE  ProgramsInv'
  OBVIOUS
<1>0. NAME \in Nat \ {0} /\ COUNT \in Nat \ {0}
  BY ProgramsAssumption
<1>1. /\ program \in {"echo", "wait"} /\ program' = program /\ UNCHANGED kernel
      /\ \/ i' = i /\ round' = round
            /\ pc' \in IF program = "echo" THEN {"loop", "exit", "exec_setup", "halted"}
                       ELSE {"forever"}
         \/ program = "echo" /\ i' = 0 /\ round' = round /\ round < COUNT /\ pc' = "kread"
         \/ /\ program = "echo" /\ i' = i /\ pc = "returned" /\ pc' = "loop"
            /\ round' = round + 1
  BY SyscallIs DEF EchoStart, EchoNext, EchoExit, WaitStart, EchoRead, EchoWrite, Goto, read
<1>2. Queue'
  BY <1>1, SameQueue DEF ProgramsInv
<1>3. Positions'
  BY <1>1 DEF Positions
<1>4. Loops'
  BY <1>0, <1>1 DEF ProgramsInv, Loops, Limit
<1>5. Name'
  BY <1>1 DEF Name
<1> QED
  BY <1>2, <1>3, <1>4, <1>5 DEF ProgramsInv

LEMMA NextPrograms == ProgramsInv /\ [Next]_vars => ProgramsInv'
<1> SUFFICES ASSUME ProgramsInv, [Next]_vars PROVE ProgramsInv'
  OBVIOUS
<1>1. CASE Step
  BY <1>1, kreadPrograms, ShellReads, ShellTerminates, ShellExecs, OthersStep DEF Step
<1>2. CASE \E ch \in Chars : Type(ch)
  BY <1>2, TypePrograms
<1>3. CASE UNCHANGED vars
  BY <1>3 DEF vars, ProgramsInv, Positions, Loops, Limit, Queue, Taken, Name
<1> QED
  BY <1>1, <1>2, <1>3 DEF Next
-----------------------------------------------------------------------------
(***************************************************************************)
(* The theorems.                                                           *)
(***************************************************************************)

(***************************************************************************)
(* What was read is a prefix of what was typed, and while the shell reads, *)
(* modname holds the characters since the last whole group.                *)
(***************************************************************************)
THEOREM ProgramsAlways == Spec => []ProgramsInv
  BY InitPrograms, NextPrograms, PTL DEF Spec

(***************************************************************************)
(* Types; kread's loop stores no more than the caller's count, and echo    *)
(* makes no more than its COUNT reads.                                     *)
(***************************************************************************)
THEOREM TypeCorrect == Spec => []TypeOK
<1>1. ProgramsInv => TypeOK
  <2> SUFFICES ASSUME ProgramsInv PROVE TypeOK
    OBVIOUS
  <2>1. /\ program \in {"init", "echo", "wait"}
        /\ pc \in {"_start", "kread", "returned", "check", "loop", "exit", "exec_setup",
                   "halted", "forever"}
    BY DEF ProgramsInv, Positions
  <2>2. i \in 0..(IF program = "init" THEN NAME ELSE COUNT) /\ round \in 0..COUNT
    BY DEF ProgramsInv, Loops, Limit
  <2>3. typed \in Seq(Chars) /\ Len(typed) <= Len(keys)
    BY DEF ProgramsInv, Queue, Taken
  <2> QED BY <2>1, <2>2, <2>3 DEF TypeOK
<1> QED
  BY <1>1, ProgramsAlways, PTL

(***************************************************************************)
(* The shell's exec is called with a module's name, and the name is one    *)
(* group of NAME characters as they were typed, whatever modname's         *)
(* uninitialised byte holds and however many attempts came before.         *)
(***************************************************************************)
THEOREM ShellExecsTyped == Spec => []ExecsWhatWasTyped
<1>1. ProgramsInv => ExecsWhatWasTyped
  <2> SUFFICES ASSUME ProgramsInv, program = "init", pc = "exec_setup"
               PROVE  /\ String(buf.modname) \in Commands
                      /\ Taken % NAME = 0
                      /\ String(buf.modname) = SubSeq(keys, Taken - NAME + 1, Taken)
    BY DEF ExecsWhatWasTyped, Taken
  <2>0. NAME \in Nat \ {0} /\ NAME + 2 \in Nat /\ Taken \in Nat
    BY ProgramsAssumption DEF ProgramsInv, Queue
  <2>1. /\ buf.modname \in [1..NAME + 2 -> Chars \cup {NUL}]
        /\ i = NAME
        /\ i <= Taken /\ \E q \in Nat : Taken - i = NAME * q
        /\ \A k \in 1..i : buf.modname[k] = keys[Taken - i + k]
        /\ String(buf.modname) \in Commands
    <3>1. Name /\ pc # "_start"
      BY DEF ProgramsInv
    <3> QED BY <3>1, Zenon DEF Name
  <2>2. Taken % NAME = 0
    <3>1. PICK q \in Nat : Taken - NAME = NAME * q
      BY <2>1
    <3>2. Taken = NAME * q + NAME
      <4>1. NAME * q \in Int
        BY <2>0
      <4> QED BY <3>1, <4>1, <2>0
    <3>3. q + 1 \in Nat /\ NAME * q + NAME = NAME * (q + 1)
      BY <2>0, Multiples
    <3> QED BY <3>2, <3>3, <2>0, Multiples
  <2>3. PICK s : s = String(buf.modname)
    OBVIOUS
  <2>4. s \in [1..NAME -> Chars]
    BY <2>1, <2>3, ProgramsAssumption
  <2>5. \A k \in 1..NAME : s[k] = keys[Taken - NAME + k]
    <3>1. \A k \in 1..NAME : s[k] = buf.modname[k]
      BY <2>0, <2>1, <2>3, <2>4, StringIs
    <3> QED BY <3>1, <2>1
  <2>6. PICK t : t = SubSeq(keys, Taken - NAME + 1, Taken)
    OBVIOUS
  <2>7. /\ t \in Seq(Chars) /\ Len(t) = NAME
        /\ \A k \in 1..NAME : t[k] = keys[Taken - NAME + k]
    <3>1. Taken - NAME + 1 \in Int /\ Taken \in Int /\ NAME <= Taken
      BY <2>0, <2>1
    <3>2. ASSUME NEW k \in (Taken - NAME + 1)..Taken PROVE keys[k] \in Chars
      <4>1. keys \in Seq(Chars) /\ Len(keys) \in Nat /\ Len(typed) \in Nat
        BY DEF ProgramsInv, Queue
      <4>2. Taken <= Len(keys)
        BY <4>1 DEF Taken
      <4>3. k \in 1..Len(keys)
        BY <4>1, <4>2, <3>1, <2>0
      <4> QED BY <4>1, <4>3, ElementOfSeq
    <3>3. /\ t \in Seq(Chars)
          /\ Len(t) = IF Taken - NAME + 1 <= Taken THEN Taken - (Taken - NAME + 1) + 1 ELSE 0
          /\ \A k \in 1..(Taken - (Taken - NAME + 1) + 1) : t[k] = keys[Taken - NAME + 1 + k - 1]
      BY <3>1, <3>2, <2>6, SubSeqProperties
    <3>4. Taken - (Taken - NAME + 1) + 1 = NAME /\ Taken - NAME + 1 <= Taken
      BY <2>0
    <3>5. \A k \in 1..NAME : Taken - NAME + 1 + k - 1 = Taken - NAME + k
      BY <2>0
    <3> QED BY <3>3, <3>4, <3>5
  <2>8. s = t
    <3>1. s \in Seq(Chars) /\ Len(s) = NAME
      BY <2>0, <2>4
    <3> QED BY <3>1, <2>5, <2>7, SeqEqual
  <2> QED BY <2>1, <2>2, <2>3, <2>6, <2>8
<1> QED
  BY <1>1, ProgramsAlways, PTL
=============================================================================
