--------------------------- MODULE KeyboardProofs ---------------------------
(***************************************************************************)
(* Proofs about Keyboard.tla, for every size of the circular buffer that   *)
(* an int8_t can index and every set of scan codes.                        *)
(***************************************************************************)
EXTENDS Keyboard, SequenceTheorems, TLAPS


\* An int8_t holds the result of adding or subtracting one.
LEMMA ToInt8Type ==
  ASSUME NEW x \in Int8Range
  PROVE  ToInt8(x - 1) \in Int8Range /\ ToInt8(x + 1) \in Int8Range
BY KeyboardAssumption DEF ToInt8, Int8Range

\* A value that fits an int8_t is kept.
LEMMA ToInt8Fits ==
  ASSUME NEW x \in Int8Range
  PROVE  ToInt8(x) = x
BY KeyboardAssumption DEF ToInt8, Int8Range

\* getkey returns an entry of keys[] or '\0'.
LEMMA GetkeyType ==
  ASSUME NEW code \in Codes
  PROVE  getkey(code) \in Char \cup {NUL}
BY KeyboardAssumption DEF getkey, FirstKeyUp

(***************************************************************************)
(* The inductive form of RingAccessInBounds: TypeOK alone does not bound   *)
(* the register copy that kgetc fetches with.                              *)
(***************************************************************************)
BoundsInv == TypeOK /\ RingAccessInBounds

THEOREM BoundsInit == Init => BoundsInv
BY KeyboardAssumption, EmptySeq
   DEF Init, BoundsInv, TypeOK, RingAccessInBounds, Slots, Int8Range

THEOREM BoundsStep == BoundsInv /\ [Next]_vars => BoundsInv'
<1> SUFFICES ASSUME BoundsInv, [Next]_vars PROVE BoundsInv'
  OBVIOUS
<1> USE KeyboardAssumption DEF BoundsInv, TypeOK, RingAccessInBounds, Slots
<1>1. ASSUME NEW code \in Codes, keyboard_interrupt(code) PROVE BoundsInv'
  <2>1. CASE code = BackspaceCode /\ backspace
    <3>1. pending' \in Seq(Char)
      <4>1. pending # <<>> => SubSeq(pending, 1, Len(pending) - 1) \in Seq(Char)
        OBVIOUS
      <4> QED BY <1>1, <2>1, <4>1, ToInt8Type DEF keyboard_interrupt
    <3> QED BY <1>1, <2>1, <3>1, ToInt8Type DEF keyboard_interrupt, backspace, frame
  <2>2. CASE /\ getkey(code) # NUL
             /\ char_write(getkey(code))
             /\ pending' = Append(pending, getkey(code))
    BY <1>1, <2>2, ToInt8Type, GetkeyType DEF keyboard_interrupt, char_write, frame
  <2>3. CASE UNCHANGED <<globals, pending>>
    BY <1>1, <2>3 DEF keyboard_interrupt, globals, frame
  <2> QED BY <1>1, <2>1, <2>2, <2>3 DEF keyboard_interrupt
<1>2. ASSUME NEW n \in Sizes, kread(n) PROVE BoundsInv'
  BY <1>2, EmptySeq DEF kread, globals
<1>3. CASE Spin
  BY <1>3 DEF Spin, globals
<1>4. CASE LoadIndex
  BY <1>4 DEF LoadIndex, globals
<1>5. CASE FetchChar
  BY <1>5 DEF FetchChar, globals
<1>6. CASE BumpIndex
  BY <1>6 DEF BumpIndex
<1>7. CASE TakeLength
  BY <1>7, ToInt8Type DEF TakeLength
<1>8. CASE WrapIndex
  BY <1>8 DEF WrapIndex
<1>9. CASE StoreChar
  BY <1>9 DEF StoreChar, globals
<1>10. CASE UNCHANGED vars
  BY <1>10 DEF vars, globals, frame
<1> HIDE DEF BoundsInv
<1> QED BY <1>1, <1>2, <1>3, <1>4, <1>5, <1>6, <1>7, <1>8, <1>9, <1>10
       DEF Next, KernelStep

(***************************************************************************)
(* TypeOK holds for every buffer size and every set of scan codes: no      *)
(* interleaving of keys with kgetc drives an index out of its range.       *)
(***************************************************************************)
THEOREM TypeCorrect == Spec => []TypeOK
<1>1. BoundsInv => TypeOK
  BY DEF BoundsInv
<1> QED BY <1>1, BoundsInit, BoundsStep, PTL DEF Spec

(***************************************************************************)
(* RingAccessInBounds: buffer[] is never accessed outside its slots, even  *)
(* when the typist overruns the buffer or erases an empty one, and even    *)
(* when a backspace preempts kgetc.                                        *)
(***************************************************************************)
THEOREM RingSafety == Spec => []RingAccessInBounds
<1>1. BoundsInv => RingAccessInBounds
  BY DEF BoundsInv
<1> QED BY <1>1, BoundsInit, BoundsStep, PTL DEF Spec
-----------------------------------------------------------------------------
(***************************************************************************)
(* First in, first out.  RingHoldsPending is inductive together with the   *)
(* type invariant: it says for each point of kgetc how far the shared      *)
(* variables have been updated.                                            *)
(***************************************************************************)
FifoInv == TypeOK /\ RingHoldsPending

\* A full turn apart, slots are different; a step on is one place more.
LEMMA SlotFacts ==
  ASSUME NEW s \in Slots, NEW j \in 0..BUFSIZE - 1, NEW k \in 0..BUFSIZE - 1
  PROVE  /\ Slot(s, k) \in Slots
         /\ Slot(s, 0) = s
         /\ Slot(Slot(s, 1), k) = Slot(s, k + 1)
         /\ Slot(Slot(s, k), 1) = Slot(s, k + 1)
         /\ Slot(s, j) = Slot(s, k) => j = k
BY KeyboardAssumption DEF Slot, Slots

\* Writing the slot after the last character of a ring that is not full appends.
LEMMA RingAppend ==
  ASSUME NEW buf \in [Slots -> Char \cup {NUL}], NEW w, NEW s, NEW p \in Seq(Char),
         NEW c \in Char, Ring(buf, w, s, p), Len(p) < BUFSIZE
  PROVE  Ring([buf EXCEPT ![w] = c], Slot(w, 1), s, Append(p, c))
<1> DEFINE n == Len(p)  q == Append(p, c)  new == [buf EXCEPT ![w] = c]
<1>1. n \in Nat /\ n < BUFSIZE /\ s \in Slots /\ w = Slot(s, n) /\ BUFSIZE \in Nat
  BY KeyboardAssumption DEF Ring
<1>2. Len(q) = n + 1 /\ q[n + 1] = c /\ \A k \in 1..n : q[k] = p[k]
  OBVIOUS
<1>3. w \in Slots /\ Slot(w, 1) = Slot(s, n + 1)
  <2>1. n \in 0..BUFSIZE - 1
    BY <1>1
  <2> QED BY <1>1, <2>1, SlotFacts
<1>4. ASSUME NEW k \in 1..n + 1 PROVE new[Slot(s, k - 1)] = q[k]
  <2>1. k - 1 \in 0..BUFSIZE - 1 /\ n \in 0..BUFSIZE - 1
    BY <1>1, <1>4
  <2>2. Slot(s, k - 1) \in Slots /\ (Slot(s, k - 1) = w => k - 1 = n)
    BY <1>1, <2>1, SlotFacts
  <2>3. CASE k = n + 1
    <3>1. k - 1 = n
      BY <1>1, <2>3
    <3> QED BY <1>1, <1>2, <1>3, <2>3, <3>1
  <2>4. CASE k # n + 1
    <3>1. k \in 1..n /\ k - 1 # n
      BY <1>1, <1>4, <2>4
    <3>2. buf[Slot(s, k - 1)] = p[k]
      BY <3>1 DEF Ring
    <3> QED BY <1>2, <2>2, <3>1, <3>2
  <2> QED BY <2>3, <2>4
<1>5. \A k \in 1..Len(q) : new[Slot(s, k - 1)] = q[k]
  BY <1>2, <1>4
<1>6. Len(q) <= BUFSIZE
  BY <1>1, <1>2
<1> HIDE DEF n, q, new
<1>7. Ring(new, Slot(w, 1), s, q)
  BY <1>1, <1>2, <1>3, <1>5, <1>6 DEF Ring
<1> QED BY <1>7 DEF q, new

\* The slot at the start of a ring holds its first character; without it ...
LEMMA RingTail ==
  ASSUME NEW buf, NEW w, NEW s, NEW p \in Seq(Char), Ring(buf, w, s, p), p # <<>>
  PROVE  buf[s] = Head(p) /\ Ring(buf, w, Slot(s, 1), Tail(p))
<1> DEFINE n == Len(p)  t == Tail(p)
<1>1. /\ n \in Nat /\ n >= 1 /\ n <= BUFSIZE /\ s \in Slots /\ w = Slot(s, n)
      /\ BUFSIZE \in Nat
  <2>1. n \in Nat /\ n # 0
    OBVIOUS
  <2> QED BY <2>1, KeyboardAssumption DEF Ring
<1>2. Len(t) = n - 1 /\ Head(p) = p[1] /\ \A k \in 1..n - 1 : t[k] = p[k + 1]
  <2>1. Len(t) = n - 1 /\ \A k \in 1..Len(t) : t[k] = p[k + 1]
    BY HeadTailProperties
  <2>2. Head(p) = p[1]
    OBVIOUS
  <2> QED BY <2>1, <2>2
<1>3. buf[s] = p[1]
  <2>1. 1 \in 1..n /\ 1 - 1 = 0 /\ 0 \in 0..BUFSIZE - 1
    BY <1>1
  <2>2. buf[Slot(s, 1 - 1)] = p[1]
    BY <2>1 DEF Ring
  <2> QED BY <1>1, <2>1, <2>2, SlotFacts
<1>4. Slot(s, 1) \in Slots
  BY <1>1, KeyboardAssumption DEF Slot, Slots
<1>5. w = Slot(Slot(s, 1), n - 1)
  <2>1. n - 1 \in 0..BUFSIZE - 1 /\ (n - 1) + 1 = n
    BY <1>1
  <2> QED BY <1>1, <2>1, SlotFacts
<1>6. ASSUME NEW k \in 1..n - 1 PROVE buf[Slot(Slot(s, 1), k - 1)] = t[k]
  <2>1. k - 1 \in 0..BUFSIZE - 1 /\ (k - 1) + 1 = k
    BY <1>1, <1>6
  <2>2. Slot(Slot(s, 1), k - 1) = Slot(s, k)
    BY <1>1, <2>1, SlotFacts
  <2>3. k + 1 \in 1..n /\ (k + 1) - 1 = k
    BY <1>1, <1>6
  <2>4. buf[Slot(s, k)] = p[k + 1]
    BY <2>3 DEF Ring
  <2> QED BY <1>2, <2>2, <2>4
<1>7. \A k \in 1..Len(t) : buf[Slot(Slot(s, 1), k - 1)] = t[k]
  BY <1>2, <1>6
<1>8. Len(t) <= BUFSIZE
  BY <1>1, <1>2
<1> HIDE DEF n, t
<1>9. Ring(buf, w, Slot(s, 1), t)
  BY <1>2, <1>4, <1>5, <1>7, <1>8 DEF Ring
<1> QED BY <1>2, <1>3, <1>9 DEF t

THEOREM FifoInit == Init => FifoInv
<1> SUFFICES ASSUME Init PROVE FifoInv
  OBVIOUS
<1>1. TypeOK
  BY BoundsInit DEF BoundsInv
<1>2. RingHoldsPending
  BY KeyboardAssumption, EmptySeq
     DEF Init, RingHoldsPending, Ring, KgetcProgress, Oldest, Slot, Slots
<1> QED BY <1>1, <1>2 DEF FifoInv

\* A key's character goes to the free slot after the ring's last one.
LEMMA FifoInterrupt ==
  ASSUME CalmTypist, FifoInv, NEW code \in Codes, keyboard_interrupt(code)
  PROVE  RingHoldsPending'
<1>0. UNCHANGED <<pc, ri, returned>>
  BY DEF keyboard_interrupt, frame
<1>1. CASE UNCHANGED <<globals, pending>>
  BY <1>0, <1>1
     DEF FifoInv, RingHoldsPending, Ring, KgetcProgress, Oldest, globals
<1>2. CASE /\ getkey(code) # NUL
           /\ Len(pending) < TypeAhead
           /\ char_write(getkey(code))
           /\ pending' = Append(pending, getkey(code))
  <2> DEFINE c == getkey(code)
  <2>1. c \in Char /\ UNCHANGED reading_index
    BY <1>2, GetkeyType DEF char_write
  <2>2. /\ buffer' = [buffer EXCEPT ![writing_index] = c]
        /\ writing_index' = Slot(writing_index, 1)
    BY <1>2, KeyboardAssumption DEF char_write, FifoInv, TypeOK, Slot, Slots
  <2>3. Oldest' = Oldest
    BY <1>0, <2>1 DEF Oldest
  <2>4. Len(pending) < BUFSIZE /\ Len(pending) \in Nat
    <3>1. Len(pending) \in Nat /\ TypeAhead <= BUFSIZE
      BY DEF CalmTypist, FifoInv, TypeOK
    <3> QED BY <1>2, <3>1, KeyboardAssumption
  <2>5. Ring(buffer', writing_index', Oldest', pending')
    BY <1>2, <2>1, <2>2, <2>3, <2>4, RingAppend DEF FifoInv, TypeOK, RingHoldsPending
  <2>6. buffer_length' = buffer_length + 1
    <3>1. /\ buffer_length = Len(pending) - (IF pc \in {"wrap", "store"} THEN 1 ELSE 0)
          /\ buffer_length' = ToInt8(buffer_length + 1)
      BY <1>2 DEF char_write, FifoInv, RingHoldsPending, KgetcProgress
    <3>2. BUFSIZE \in Nat /\ INT8 \in Nat /\ BUFSIZE < INT8
      BY KeyboardAssumption
    <3>3. buffer_length + 1 \in Int8Range
      BY <2>4, <3>1, <3>2 DEF Int8Range
    <3> QED BY <3>1, <3>3, ToInt8Fits
  <2>7. /\ Len(pending') = Len(pending) + 1
        /\ pending' # <<>>
        /\ pending # <<>> => Head(pending') = Head(pending)
    BY <1>2, <2>1 DEF FifoInv, TypeOK
  <2>8. KgetcProgress'
    BY <1>0, <2>1, <2>4, <2>6, <2>7 DEF FifoInv, RingHoldsPending, KgetcProgress, Slot
  <2> QED BY <2>5, <2>8 DEF RingHoldsPending, Ring
<1> QED BY <1>1, <1>2 DEF keyboard_interrupt, CalmTypist

\* The last step of kgetc's caller drops the oldest character from pending.
LEMMA FifoStore ==
  ASSUME FifoInv, StoreChar
  PROVE  RingHoldsPending'
<1>1. /\ pc = "store" /\ pc' \in {"spin", "idle"}
      /\ pending \in Seq(Char) /\ pending # <<>>
      /\ pending' = Tail(pending)
      /\ UNCHANGED <<buffer, buffer_length, reading_index, writing_index, ri>>
  BY DEF StoreChar, FifoInv, TypeOK, RingHoldsPending, KgetcProgress, globals
<1>2. Oldest = ri /\ Oldest' = Slot(ri, 1)
  BY <1>1 DEF Oldest, FifoInv, RingHoldsPending, KgetcProgress
<1>3. Ring(buffer', writing_index', Oldest', pending')
  BY <1>1, <1>2, RingTail DEF FifoInv, RingHoldsPending
<1>4. Len(pending') = Len(pending) - 1
  BY <1>1
<1>5. KgetcProgress'
  BY <1>1, <1>4 DEF FifoInv, RingHoldsPending, KgetcProgress
<1> QED BY <1>3, <1>5 DEF RingHoldsPending, Ring

THEOREM FifoStep == CalmTypist /\ FifoInv /\ [Next]_vars => FifoInv'
<1> SUFFICES ASSUME CalmTypist, FifoInv, [Next]_vars PROVE FifoInv'
  OBVIOUS
<1>0. BoundsInv
  <2>1. TypeOK /\ KgetcProgress /\ Oldest \in Slots
    BY DEF FifoInv, RingHoldsPending, Ring
  <2>2. writing_index \in Slots /\ (pc = "fetch" => ri \in Slots)
    BY <2>1 DEF TypeOK
  <2>3. pc = "store" => reading_index \in Slots
    <3>1. ri \in Slots /\ (pc = "store" => reading_index = Slot(ri, 1))
      BY <2>1 DEF TypeOK, KgetcProgress
    <3> QED BY <3>1, KeyboardAssumption DEF Slot, Slots
  <2>4. pc \notin {"take", "wrap", "store"} => reading_index \in Slots
    BY <2>1 DEF Oldest
  <2>5. pc \in {"take", "wrap"} => reading_index = ri + 1
    BY <2>1 DEF KgetcProgress
  <2> QED BY <2>1, <2>2, <2>3, <2>4, <2>5 DEF BoundsInv, RingAccessInBounds
<1>1. TypeOK'
  BY <1>0, BoundsStep DEF BoundsInv
<1> SUFFICES RingHoldsPending'
  BY <1>1 DEF FifoInv
<1>2. ASSUME NEW code \in Codes, keyboard_interrupt(code) PROVE RingHoldsPending'
  BY <1>2, FifoInterrupt
<1>3. ASSUME UNCHANGED <<buffer, writing_index, pending>>, Oldest' = Oldest,
             KgetcProgress'
      PROVE  RingHoldsPending'
  BY <1>3 DEF FifoInv, RingHoldsPending, Ring, Slot
<1>4. ASSUME NEW n \in Sizes, kread(n) PROVE RingHoldsPending'
  <2>1. KgetcProgress' /\ Oldest' = Oldest
    BY <1>4 DEF kread, globals, FifoInv, RingHoldsPending, KgetcProgress, Oldest
  <2> QED BY <1>3, <1>4, <2>1 DEF kread, globals
<1>5. CASE Spin
  <2>1. pending # <<>>
    BY <1>5 DEF Spin, FifoInv, TypeOK, RingHoldsPending, KgetcProgress
  <2>2. KgetcProgress' /\ Oldest' = Oldest
    BY <1>5, <2>1 DEF Spin, globals, FifoInv, RingHoldsPending, KgetcProgress, Oldest
  <2> QED BY <1>3, <1>5, <2>2 DEF Spin, globals
<1>6. CASE LoadIndex
  <2>1. KgetcProgress' /\ Oldest' = Oldest
    BY <1>6 DEF LoadIndex, globals, FifoInv, RingHoldsPending, KgetcProgress, Oldest
  <2> QED BY <1>3, <1>6, <2>1 DEF LoadIndex, globals
<1>7. CASE FetchChar
  <2>1. buffer[ri] = Head(pending)
    <3>1. ri = Oldest /\ pending # <<>>
      BY <1>7 DEF FetchChar, FifoInv, RingHoldsPending, KgetcProgress, Oldest
    <3> QED BY <3>1, RingTail DEF FifoInv, TypeOK, RingHoldsPending
  <2>2. KgetcProgress' /\ Oldest' = Oldest
    BY <1>7, <2>1 DEF FetchChar, globals, FifoInv, RingHoldsPending, KgetcProgress, Oldest
  <2> QED BY <1>3, <1>7, <2>2 DEF FetchChar, globals
<1>8. CASE BumpIndex
  <2>1. KgetcProgress' /\ Oldest' = Oldest
    BY <1>8 DEF BumpIndex, FifoInv, RingHoldsPending, KgetcProgress, Oldest
  <2> QED BY <1>3, <1>8, <2>1 DEF BumpIndex
<1>9. CASE TakeLength
  <2>1. buffer_length' = buffer_length - 1
    BY <1>9, KeyboardAssumption
       DEF TakeLength, FifoInv, TypeOK, RingHoldsPending, KgetcProgress, ToInt8, Int8Range
  <2>2. Len(pending) \in Nat
    BY DEF FifoInv, TypeOK
  <2>3. KgetcProgress' /\ Oldest' = Oldest
    BY <1>9, <2>1, <2>2 DEF TakeLength, FifoInv, RingHoldsPending, KgetcProgress, Oldest
  <2> QED BY <1>3, <1>9, <2>3 DEF TakeLength
<1>10. CASE WrapIndex
  <2>1. reading_index' = Slot(ri, 1)
    BY <1>10, KeyboardAssumption
       DEF WrapIndex, FifoInv, TypeOK, RingHoldsPending, KgetcProgress, Slot, Slots
  <2>2. KgetcProgress' /\ Oldest' = Oldest
    BY <1>10, <2>1 DEF WrapIndex, FifoInv, RingHoldsPending, KgetcProgress, Oldest, Slot
  <2> QED BY <1>3, <1>10, <2>2 DEF WrapIndex
<1>11. CASE StoreChar
  BY <1>11, FifoStore
<1>12. CASE UNCHANGED vars
  <2>1. KgetcProgress' /\ Oldest' = Oldest
    BY <1>12 DEF vars, globals, frame, FifoInv, RingHoldsPending, KgetcProgress, Oldest, Slot
  <2> QED BY <1>3, <1>12, <2>1 DEF vars, globals
<1> QED BY <1>2, <1>4, <1>5, <1>6, <1>7, <1>8, <1>9, <1>10, <1>11, <1>12
       DEF Next, KernelStep

(***************************************************************************)
(* RingHoldsPending, for every buffer size and every calm typist.          *)
(***************************************************************************)
THEOREM FirstInFirstOut == CalmTypist => (Spec => []RingHoldsPending)
<1> SUFFICES ASSUME CalmTypist PROVE Spec => []RingHoldsPending
  OBVIOUS
<1>1. FifoInv /\ [Next]_vars => FifoInv'
  BY FifoStep
<1>2. FifoInv => RingHoldsPending
  BY DEF FifoInv
<1> QED BY <1>1, <1>2, FifoInit, PTL DEF Spec
-----------------------------------------------------------------------------
\* Every step of the kernel and of the typist is a step of the queue or none.
LEMMA RefinementStep ==
  ASSUME CalmTypist, FifoInv, [Next]_vars
  PROVE  [KQ!Next]_KQ!vars
<1> USE DEF KQ!vars
<1>1. ASSUME NEW code \in Codes, keyboard_interrupt(code)
      PROVE  [KQ!Next]_KQ!vars
  <2>1. CASE UNCHANGED pending
    BY <1>1, <2>1 DEF keyboard_interrupt, frame
  <2>2. CASE getkey(code) # NUL /\ pending' = Append(pending, getkey(code))
    <3>1. getkey(code) \in Char
      BY <2>2, GetkeyType
    <3>2. KQ!Press(getkey(code))
      BY <1>1, <2>2 DEF keyboard_interrupt, frame, KQ!Press
    <3> QED BY <3>1, <3>2 DEF KQ!Next
  <2> QED BY <1>1, <2>1, <2>2 DEF keyboard_interrupt, CalmTypist
<1>2. ASSUME NEW n \in Sizes, kread(n) PROVE [KQ!Next]_KQ!vars
  <2>1. KQ!Request(n)
    BY <1>2, KeyboardAssumption DEF kread, KQ!Request
  <2> QED BY <2>1 DEF KQ!Next
<1>3. CASE StoreChar
  <2>1. pending # <<>> /\ returned = Head(pending)
    BY <1>3 DEF StoreChar, FifoInv, RingHoldsPending, KgetcProgress
  <2>2. KQ!Deliver
    BY <1>3, <2>1 DEF StoreChar, KQ!Deliver
  <2> QED BY <2>2 DEF KQ!Next
<1>4. CASE Spin \/ LoadIndex \/ FetchChar \/ BumpIndex \/ TakeLength \/ WrapIndex
  BY <1>4 DEF Spin, LoadIndex, FetchChar, BumpIndex, TakeLength, WrapIndex
<1>5. CASE UNCHANGED vars
  BY <1>5 DEF vars, frame
<1> QED BY <1>1, <1>2, <1>3, <1>4, <1>5 DEF Next, KernelStep

(***************************************************************************)
(* ImplementsKeyQueue, for every buffer size and every calm typist: the    *)
(* interrupt handler and kread implement the queue of KeyQueue.tla.        *)
(***************************************************************************)
THEOREM Refinement == CalmTypist => (Spec => ImplementsKeyQueue)
<1> SUFFICES ASSUME CalmTypist PROVE Spec => ImplementsKeyQueue
  OBVIOUS
<1>1. Init => KQ!Init
  BY DEF Init, KQ!Init
<1>2. FifoInv /\ [Next]_vars => FifoInv'
  BY FifoStep
<1>3. FifoInv /\ [Next]_vars => [KQ!Next]_KQ!vars
  BY RefinementStep
<1> QED BY <1>1, <1>2, <1>3, FifoInit, PTL DEF Spec, ImplementsKeyQueue, KQ!Spec
=============================================================================
