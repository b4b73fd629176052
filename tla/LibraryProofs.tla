---------------------------- MODULE LibraryProofs ---------------------------
(***************************************************************************)
(* Proofs about Library.tla.  StringInv is the invariant of the loops of   *)
(* the string and memory functions: for every memory and every block,      *)
(* memset, memcpy and strcpy change their block only, memcpy moves it down *)
(* onto one that overlaps it, and strcmp is an order.  KprintInv is the    *)
(* invariant of kprintf's loop and of the loops of a number: for every     *)
(* call and every integer, what was meant is printed.                      *)
(*                                                                         *)
(* What the recursive functions of the model (Rank, Weight, FlattenSeq)    *)
(* compute is shown by induction with a set for the hypothesis, UpTo.      *)
(***************************************************************************)
EXTENDS Library, SequenceTheorems, NaturalsInduction, WellFoundedInduction, TLAPS

Names == {"memset", "memcpy", "strcmp", "strcpy", "strcat", "none"}
Copies == {"memcpy", "strcpy"}

StringTypes ==
    /\ mem \in [S!Addresses -> 0..BYTE - 1]
    /\ op \in [name : Names, dest : Nat, src : Nat, arg : Nat, rounds : Nat]
    /\ i \in 0..op.rounds
    /\ state \in {"loop", "done"}
    /\ result \in -1..MEMORY + 1

\* The caller's blocks lie in the memory.
Blocks ==
    /\ op.name \in Copies \cup {"memset"} => op.dest + op.rounds <= MEMORY
    /\ op.name \in Copies => op.src + op.rounds <= MEMORY
    /\ op.name = "none" => op.rounds = 0

\* The part of the block that the loop has written; with an overlap, anything.
Done(a) == a - op.dest \in 0..i - 1
Overlap == op.dest \in op.src + 1..op.src + op.rounds - 1

Written ==
    \A a \in S!Addresses :
        /\ op.name \notin Copies \cup {"memset"} \/ ~Done(a) => mem[a] = original[a]
        /\ op.name = "memset" /\ Done(a) => mem[a] = op.arg % BYTE
        /\ op.name \in Copies /\ Done(a) => mem[a] = original[op.src + (a - op.dest)] \/ Overlap

Ended == state = "done" /\ op.name \in Copies \cup {"memset"} => i = op.rounds

\* The strings, and what strcmp has compared of them.
Equal ==
    /\ S!strlen(op.dest) = S!strlen(op.src)
    /\ \A k \in 0..S!strlen(op.dest) - 1 : mem[op.dest + k] = mem[op.src + k]

\* What strcmp is to return.
Order ==
    IF S!strlen(op.dest) # S!strlen(op.src)
    THEN S!Sign(S!strlen(op.dest) - S!strlen(op.src))
    ELSE S!Sign(S!Rank(op.dest) - S!Rank(op.src))

Compared ==
    op.name = "strcmp" =>
        /\ op.dest \in S!Addresses /\ S!IsString(op.dest)
        /\ op.src \in S!Addresses /\ S!IsString(op.src)
        /\ op.rounds = S!strlen(op.dest)
        /\ \A k \in 0..i - 1 : mem[op.dest + k] = mem[op.src + k]
        /\ state = "done" => (result = 0 <=> Equal) /\ result = Order

StringInv == StringTypes /\ Blocks /\ Written /\ Ended /\ Compared
-----------------------------------------------------------------------------
(***************************************************************************)
(* Lemmas.                                                                 *)
(***************************************************************************)
\* Induction, with a set for the hypothesis.
LEMMA UpTo ==
    ASSUME NEW n \in Nat, NEW T, 0 \in T, \A k \in 0..n - 1 : k \in T => k + 1 \in T
    PROVE  0..n \subseteq T
<1> DEFINE F == {k \in 0..n : k \notin T}
<1> SUFFICES ASSUME F # {} PROVE FALSE
  OBVIOUS
<1>1. F \subseteq Nat
  OBVIOUS
<1> HIDE DEF F
<1>2. \E x \in F : \A y \in F : ~(<<y, x>> \in OpToRel(<, Nat))
  BY <1>1, WFMin, NatLessThanWellFounded
<1>3. PICK x \in F : \A y \in F : ~(<<y, x>> \in OpToRel(<, Nat))
  BY <1>2
<1>4. x \in 1..n
  BY DEF F
<1>5. x - 1 \in F
  <2>1. x - 1 \in 0..n - 1 /\ (x - 1) + 1 = x
    BY <1>4
  <2>2. x - 1 \notin T
    BY <2>1 DEF F
  <2>3. x - 1 \in 0..n
    BY <2>1
  <2> QED BY <2>2, <2>3 DEF F
<1>6. <<x - 1, x>> \in {s \in Nat \X Nat : s[1] < s[2]}
  BY <1>4
<1> QED
  BY <1>3, <1>5, <1>6 DEF OpToRel

\* A non-empty set of naturals has a least element.
LEMMA Least ==
    ASSUME NEW I, I \subseteq Nat, I # {}
    PROVE  \E x \in I : \A y \in I : x <= y
<1>1. \E x \in I : \A y \in I : ~(<<y, x>> \in OpToRel(<, Nat))
  BY WFMin, NatLessThanWellFounded
<1>2. PICK x \in I : \A y \in I : ~(<<y, x>> \in OpToRel(<, Nat))
  BY <1>1
<1>3. ASSUME NEW y \in I PROVE x <= y
  <2>1. x \in Nat /\ y \in Nat /\ <<y, x>> \notin OpToRel(<, Nat)
    BY <1>2
  <2>2. <<y, x>> \in {s \in Nat \X Nat : s[1] < s[2]} <=> y < x
    BY <2>1
  <2>3. ~(y < x)
    BY <2>1, <2>2 DEF OpToRel
  <2>4. \A u, v \in Nat : ~(u < v) => v <= u
    OBVIOUS
  <2> QED BY <2>1, <2>3, <2>4
<1> QED
  BY <1>3

\* Min finds one in Strings.tla.
LEMMA MinIs ==
    ASSUME NEW I, I \subseteq Nat, I # {}
    PROVE  S!Min(I) \in I
BY Least DEF S!Min

\* A string's length leaves room for its terminator.
LEMMA StrlenIs ==
    ASSUME NEW p \in S!Addresses, S!IsString(p)
    PROVE  S!strlen(p) \in 0..MEMORY - 1 - p
<1> DEFINE I == {k \in 0..MEMORY - 1 - p : mem[p + k] = 0}
<1>0. MEMORY \in Nat \ {0} /\ p \in Nat
  BY StringsAssumption DEF S!Addresses
<1>1. PICK a \in p..MEMORY - 1 : mem[a] = 0
  BY DEF S!IsString
<1>2. a - p \in 0..MEMORY - 1 - p /\ p + (a - p) = a
  BY <1>0, <1>1
<1>3. a - p \in I
  BY <1>1, <1>2
<1>4. S!Min(I) \in I
  <2>1. I \subseteq Nat
    BY <1>0
  <2> QED BY <2>1, <1>3, MinIs
<1> QED
  BY <1>4 DEF S!strlen

\* Characters that differ as bytes differ as signed characters.
LEMMA SignedDiffer ==
    ASSUME NEW a \in 0..BYTE - 1, NEW b \in 0..BYTE - 1, a # b
    PROVE  S!Sign(S!Signed(a) - S!Signed(b)) # 0
<1>1. BYTE \in Nat \ {0} /\ BYTE \div 2 \in Nat
  BY StringsAssumption
<1>2. S!Signed(a) \in Int /\ S!Signed(b) \in Int /\ S!Signed(a) # S!Signed(b)
  BY <1>1 DEF S!Signed
<1> QED
  BY <1>2 DEF S!Sign
-----------------------------------------------------------------------------
(***************************************************************************)
(* The rank of a string, digit by digit.                                   *)
(***************************************************************************)
Ranks(r, d, n) ==
    r = [k \in 0..n |-> IF k = 0 THEN 0 ELSE r[k - 1] * BYTE + d[k - 1]]

\* Rank's recursion has a solution, of integers.
LEMMA RankExists ==
    ASSUME NEW n \in Nat, NEW d \in [0..n - 1 -> Int]
    PROVE  \E r \in [0..n -> Int] : Ranks(r, d, n)
<1> DEFINE T == {m \in 0..n : \E r \in [0..m -> Int] : Ranks(r, d, m)}
<1>0. BYTE \in Nat
  BY StringsAssumption
<1>1. 0 \in T
  <2> DEFINE r == [k \in 0..0 |-> 0]
  <2>1. r \in [0..0 -> Int] /\ r = [k \in 0..0 |-> IF k = 0 THEN 0 ELSE r[k - 1] * BYTE + d[k - 1]]
    OBVIOUS
  <2> HIDE DEF r
  <2>2. Ranks(r, d, 0)
    BY <2>1 DEF Ranks
  <2> QED BY <2>1, <2>2
<1>2. ASSUME NEW m \in 0..n - 1, m \in T PROVE m + 1 \in T
  <2>1. PICK r \in [0..m -> Int] : Ranks(r, d, m)
    BY <1>2
  <2>2. r = [k \in 0..m |-> IF k = 0 THEN 0 ELSE r[k - 1] * BYTE + d[k - 1]]
    BY <2>1 DEF Ranks
  <2> DEFINE e == r[m] * BYTE + d[m]
             u == [k \in 0..m + 1 |-> IF k = m + 1 THEN e ELSE r[k]]
  <2>3. e \in Int
    BY <1>0, <1>2
  <2>4. ASSUME NEW k \in 0..m + 1 PROVE u[k] = IF k = 0 THEN 0 ELSE u[k - 1] * BYTE + d[k - 1]
    <3>1. CASE k = m + 1
      <4>1. k # 0 /\ k - 1 = m /\ k - 1 \in 0..m + 1 /\ k - 1 # m + 1
        BY <3>1, <1>2
      <4>2. u[k] = e /\ u[k - 1] = r[m]
        BY <3>1, <4>1
      <4> QED BY <4>1, <4>2
    <3>2. CASE k # m + 1
      <4>1. k \in 0..m /\ (k # 0 => k - 1 \in 0..m + 1 /\ k - 1 # m + 1)
        BY <3>2, <1>2
      <4>2. r[k] = IF k = 0 THEN 0 ELSE r[k - 1] * BYTE + d[k - 1]
        BY <2>2, <4>1
      <4>3. u[k] = r[k] /\ (k # 0 => u[k - 1] = r[k - 1])
        BY <3>2, <4>1
      <4> QED BY <4>2, <4>3
    <3> QED BY <3>1, <3>2
  <2>5. u = [k \in 0..m + 1 |-> IF k = 0 THEN 0 ELSE u[k - 1] * BYTE + d[k - 1]]
    BY <2>4
  <2>6. u \in [0..m + 1 -> Int]
    BY <2>3, <1>2
  <2> HIDE DEF u
  <2>7. Ranks(u, d, m + 1)
    BY <2>5 DEF Ranks
  <2>8. m + 1 \in 0..n
    BY <1>2
  <2> QED BY <2>6, <2>7, <2>8
<1>3. n \in T
  <2> HIDE DEF T
  <2>1. 0..n \subseteq T
    BY <1>1, <1>2, UpTo
  <2> QED BY <2>1
<1> QED
  BY <1>3

\* Of its steps: the first weight is 0, and the others follow.
LEMMA RankSteps ==
    ASSUME NEW n \in Nat, NEW d \in [0..n - 1 -> Int], NEW r, Ranks(r, d, n)
    PROVE  /\ r[0] = 0
           /\ \A k \in 0..n - 1 : r[k + 1] = r[k] * BYTE + d[k]
           /\ \A k \in 0..n : r[k] \in Int
<1>0. BYTE \in Nat
  BY StringsAssumption
<1>1. r = [k \in 0..n |-> IF k = 0 THEN 0 ELSE r[k - 1] * BYTE + d[k - 1]]
  BY DEF Ranks
<1>2. r[0] = 0
  BY <1>1
<1>3. ASSUME NEW k \in 0..n - 1 PROVE r[k + 1] = r[k] * BYTE + d[k]
  <2>1. PICK m : m = k + 1
    OBVIOUS
  <2>2. m \in 0..n /\ m # 0 /\ m - 1 = k
    BY <2>1
  <2>3. r[m] = r[m - 1] * BYTE + d[m - 1]
    BY <1>1, <2>2
  <2> QED BY <2>1, <2>2, <2>3
<1>4. \A k \in 0..n : r[k] \in Int
  <2> DEFINE T == {k \in 0..n : r[k] \in Int}
  <2>1. 0 \in T
    BY <1>2
  <2>2. ASSUME NEW k \in 0..n - 1, k \in T PROVE k + 1 \in T
    <3>1. r[k] \in Int /\ d[k] \in Int /\ k + 1 \in 0..n
      BY <2>2
    <3> QED BY <1>0, <1>3, <3>1
  <2>3. 0..n \subseteq T
    <3> HIDE DEF T
    <3> QED BY <2>1, <2>2, UpTo
  <2> QED BY <2>3
<1> QED
  BY <1>2, <1>3, <1>4

\* The first digits in which two numbers differ decide.
LEMMA RankCompare ==
    ASSUME NEW n \in Nat, NEW d \in [0..n - 1 -> Int], NEW e \in [0..n - 1 -> Int],
           \A k \in 0..n - 1 : d[k] - e[k] > -BYTE,
           NEW r, Ranks(r, d, n), NEW q, Ranks(q, e, n),
           NEW m \in 0..n, \A k \in 0..m - 1 : d[k] = e[k]
    PROVE  /\ m = n => r[n] = q[n]
           /\ m < n /\ d[m] > e[m] => r[n] > q[n]
<1>0. BYTE \in Nat
  BY StringsAssumption
<1>1. /\ r[0] = 0
      /\ \A k \in 0..n - 1 : r[k + 1] = r[k] * BYTE + d[k]
      /\ \A k \in 0..n : r[k] \in Int
  BY RankSteps
<1>2. /\ q[0] = 0
      /\ \A k \in 0..n - 1 : q[k + 1] = q[k] * BYTE + e[k]
      /\ \A k \in 0..n : q[k] \in Int
  BY RankSteps
<1>3. r[m] = q[m]
  <2> DEFINE T == {k \in 0..m : r[k] = q[k]}
  <2>1. 0 \in T
    BY <1>1, <1>2
  <2>2. ASSUME NEW k \in 0..m - 1, k \in T PROVE k + 1 \in T
    <3>1. k \in 0..n - 1 /\ k + 1 \in 0..m /\ r[k] = q[k] /\ d[k] = e[k]
      BY <2>2
    <3> QED BY <1>1, <1>2, <3>1
  <2>3. m \in T
    <3> HIDE DEF T
    <3>1. m \in Nat
      OBVIOUS
    <3>2. 0..m \subseteq T
      BY <2>1, <2>2, <3>1, UpTo
    <3> QED BY <3>1, <3>2
  <2> QED BY <2>3
<1>4. ASSUME m < n, d[m] > e[m] PROVE r[n] > q[n]
  <2> DEFINE U == {k \in 0..n - (m + 1) : r[(m + 1) + k] > q[(m + 1) + k]}
  <2>0. m \in 0..n - 1 /\ m + 1 \in 0..n /\ n - (m + 1) \in Nat
    BY <1>4
  <2>1. 0 \in U
    <3>1. (m + 1) + 0 = m + 1 /\ 0 \in 0..n - (m + 1)
      BY <2>0
    <3>2. r[m + 1] = r[m] * BYTE + d[m] /\ q[m + 1] = q[m] * BYTE + e[m]
          /\ r[m] \in Int /\ d[m] \in Int /\ e[m] \in Int
      BY <1>1, <1>2, <2>0
    <3>3. r[m + 1] > q[m + 1]
      <4>1. r[m] * BYTE \in Int
        BY <1>0, <3>2
      <4> QED BY <1>3, <1>4, <3>2, <4>1
    <3> QED BY <3>1, <3>3
  <2>2. ASSUME NEW k \in 0..(n - (m + 1)) - 1, k \in U PROVE k + 1 \in U
    <3>1. PICK j : j = (m + 1) + k
      OBVIOUS
    <3>2. j \in 0..n - 1 /\ (m + 1) + (k + 1) = j + 1 /\ k + 1 \in 0..n - (m + 1) /\ j \in 0..n
      BY <2>0, <3>1
    <3>3. r[j] > q[j]
      BY <2>2, <3>1
    <3>4. PICK x, y, a, b : x = r[j] /\ y = q[j] /\ a = d[j] /\ b = e[j]
      OBVIOUS
    <3>5. x \in Int /\ y \in Int /\ a \in Int /\ b \in Int /\ a - b > -BYTE /\ x >= y + 1
      BY <1>1, <1>2, <3>2, <3>3, <3>4
    <3>6. x * BYTE >= y * BYTE + BYTE
      <4>1. PICK z \in Nat : x = y + 1 + z
        <5>1. x - y - 1 \in Nat /\ x = y + 1 + (x - y - 1)
          BY <3>5
        <5> QED BY <5>1
      <4>2. x * BYTE = y * BYTE + BYTE + z * BYTE
        BY <1>0, <3>5, <4>1
      <4>3. z * BYTE \in Nat /\ y * BYTE \in Int
        BY <1>0, <3>5
      <4> QED BY <1>0, <4>2, <4>3
    <3>7. r[j + 1] = x * BYTE + a /\ q[j + 1] = y * BYTE + b
      BY <1>1, <1>2, <3>2, <3>4
    <3>8. x * BYTE \in Int /\ y * BYTE \in Int
      BY <1>0, <3>5
    <3>9. r[j + 1] > q[j + 1]
      <4>1. PICK v, w : v = x * BYTE /\ w = y * BYTE
        OBVIOUS
      <4>2. v \in Int /\ w \in Int /\ v >= w + BYTE
        BY <3>6, <3>8, <4>1
      <4>3. v + a > w + b
        BY <1>0, <3>5, <4>2
      <4> QED BY <3>7, <4>1, <4>3
    <3> QED BY <3>2, <3>9
  <2>3. n - (m + 1) \in U
    <3> HIDE DEF U
    <3>1. 0..n - (m + 1) \subseteq U
      BY <2>0, <2>1, <2>2, UpTo
    <3> QED BY <2>0, <3>1
  <2>4. (m + 1) + (n - (m + 1)) = n
    BY <2>0
  <2> QED BY <2>3, <2>4
<1> QED
  BY <1>3, <1>4

\* S!Rank is that solution, for the signed characters of a string.
LEMMA RankIs ==
    ASSUME NEW p \in S!Addresses, S!IsString(p), mem \in [S!Addresses -> 0..BYTE - 1],
           NEW d, d = [k \in 0..S!strlen(p) - 1 |-> S!Signed(mem[p + k])]
    PROVE  /\ d \in [0..S!strlen(p) - 1 -> Int]
           /\ \E r : Ranks(r, d, S!strlen(p)) /\ S!Rank(p) = r[S!strlen(p)]
<1> DEFINE n == S!strlen(p)
           r == CHOOSE rank : rank = [k \in 0..n |-> IF k = 0 THEN 0
                                        ELSE rank[k - 1] * BYTE + S!Signed(mem[p + k - 1])]
<1>0. MEMORY \in Nat /\ BYTE \in Nat /\ p \in Nat
  BY StringsAssumption DEF S!Addresses
<1>1. n \in 0..MEMORY - 1 - p
  BY StrlenIs
<1>2. S!Rank(p) = r[n]
  BY DEF S!Rank
<1> HIDE DEF n
<1>3. ASSUME NEW k \in 0..n - 1 PROVE mem[p + k] \in 0..BYTE - 1
  <2>1. p + k \in S!Addresses
    BY <1>0, <1>1 DEF S!Addresses
  <2> QED BY <2>1
<1>4. \A b \in 0..BYTE - 1 : S!Signed(b) \in Int
  BY <1>0 DEF S!Signed
<1>5. d = [k \in 0..n - 1 |-> S!Signed(mem[p + k])]
  BY DEF n
<1>6. d \in [0..n - 1 -> Int]
  BY <1>3, <1>4, <1>5
<1>7. \A k \in 0..n : k # 0 => d[k - 1] = S!Signed(mem[p + k - 1])
  <2> SUFFICES ASSUME NEW k \in 0..n, k # 0 PROVE d[k - 1] = S!Signed(mem[p + k - 1])
    OBVIOUS
  <2>1. k - 1 \in 0..n - 1 /\ p + (k - 1) = p + k - 1
    BY <1>0, <1>1
  <2> QED BY <1>5, <2>1
<1>8. \E rank : rank = [k \in 0..n |-> IF k = 0 THEN 0
                                       ELSE rank[k - 1] * BYTE + S!Signed(mem[p + k - 1])]
  <2>1. n \in Nat
    BY <1>0, <1>1
  <2>a. PICK q \in [0..n -> Int] : Ranks(q, d, n)
    BY <1>6, <2>1, RankExists
  <2>2. q = [k \in 0..n |-> IF k = 0 THEN 0 ELSE q[k - 1] * BYTE + d[k - 1]]
    BY <2>a DEF Ranks
  <2>3. q = [k \in 0..n |-> IF k = 0 THEN 0 ELSE q[k - 1] * BYTE + S!Signed(mem[p + k - 1])]
    BY <1>7, <2>2
  <2> QED BY <2>3
<1>9. r = [k \in 0..n |-> IF k = 0 THEN 0 ELSE r[k - 1] * BYTE + S!Signed(mem[p + k - 1])]
  BY <1>8
<1> HIDE DEF r
<1>10. r = [k \in 0..n |-> IF k = 0 THEN 0 ELSE r[k - 1] * BYTE + d[k - 1]]
  BY <1>7, <1>9
<1>11. Ranks(r, d, n)
  BY <1>10 DEF Ranks
<1> QED
  BY <1>2, <1>6, <1>11 DEF n

\* The first characters in which two strings of a length differ order them.
LEMMA Decides ==
    ASSUME NEW p \in S!Addresses, S!IsString(p), NEW q \in S!Addresses, S!IsString(q),
           mem \in [S!Addresses -> 0..BYTE - 1],
           S!strlen(p) = S!strlen(q), NEW m \in 0..S!strlen(p),
           \A k \in 0..m - 1 : mem[p + k] = mem[q + k]
    PROVE  /\ m = S!strlen(p) => S!Sign(S!Rank(p) - S!Rank(q)) = 0
           /\ m < S!strlen(p) /\ mem[p + m] # mem[q + m] =>
                 S!Sign(S!Rank(p) - S!Rank(q))
                     = S!Sign(S!Signed(mem[p + m]) - S!Signed(mem[q + m]))
<1>0. MEMORY \in Nat /\ BYTE \in Nat \ {0} /\ p \in Nat /\ q \in Nat
  BY StringsAssumption DEF S!Addresses
<1>1. S!strlen(p) \in 0..MEMORY - 1 - p /\ S!strlen(q) \in 0..MEMORY - 1 - q
  BY StrlenIs
<1>2. PICK n : n = S!strlen(p)
  OBVIOUS
<1>3. n \in Nat /\ n \in 0..MEMORY - 1 - p /\ n \in 0..MEMORY - 1 - q /\ m \in 0..n
  BY <1>0, <1>1, <1>2
<1>4. PICK d : d = [k \in 0..n - 1 |-> S!Signed(mem[p + k])]
  OBVIOUS
<1>5. PICK e : e = [k \in 0..n - 1 |-> S!Signed(mem[q + k])]
  OBVIOUS
<1>6. d \in [0..n - 1 -> Int] /\ \E r : Ranks(r, d, n) /\ S!Rank(p) = r[n]
  BY <1>2, <1>4, RankIs
<1>7. e \in [0..n - 1 -> Int] /\ \E r : Ranks(r, e, n) /\ S!Rank(q) = r[n]
  BY <1>2, <1>5, RankIs
<1>8. PICK r, s : Ranks(r, d, n) /\ S!Rank(p) = r[n] /\ Ranks(s, e, n) /\ S!Rank(q) = s[n]
  BY <1>6, <1>7
<1>9. ASSUME NEW k \in 0..n - 1
      PROVE  /\ mem[p + k] \in 0..BYTE - 1 /\ mem[q + k] \in 0..BYTE - 1
             /\ d[k] = S!Signed(mem[p + k]) /\ e[k] = S!Signed(mem[q + k])
  <2>1. p + k \in S!Addresses /\ q + k \in S!Addresses
    BY <1>0, <1>3 DEF S!Addresses
  <2> QED BY <2>1, <1>4, <1>5
<1>10. \A a, b \in 0..BYTE - 1 :
          /\ S!Signed(a) \in Int /\ S!Signed(a) - S!Signed(b) > -BYTE
          /\ a # b => S!Signed(a) # S!Signed(b)
  BY <1>0 DEF S!Signed
<1>11. \A k \in 0..n - 1 : d[k] - e[k] > -BYTE /\ e[k] - d[k] > -BYTE
  BY <1>9, <1>10
<1>12. \A k \in 0..m - 1 : d[k] = e[k]
  <2> SUFFICES ASSUME NEW k \in 0..m - 1 PROVE d[k] = e[k]
    OBVIOUS
  <2>1. k \in 0..n - 1
    BY <1>3
  <2> QED BY <1>9, <2>1
<1>13. r[n] \in Int /\ s[n] \in Int
  <2>1. n \in 0..n
    BY <1>3
  <2> QED BY <2>1, <1>3, <1>6, <1>7, <1>8, RankSteps
<1>14. /\ m = n => r[n] = s[n]
       /\ m < n /\ d[m] > e[m] => r[n] > s[n]
  BY <1>3, <1>6, <1>7, <1>8, <1>11, <1>12, RankCompare
<1>15. \A k \in 0..m - 1 : e[k] = d[k]
  BY <1>12
<1>16. /\ m = n => s[n] = r[n]
       /\ m < n /\ e[m] > d[m] => s[n] > r[n]
  BY <1>3, <1>6, <1>7, <1>8, <1>11, <1>15, RankCompare
<1>17. m = n => S!Sign(S!Rank(p) - S!Rank(q)) = 0
  BY <1>8, <1>13, <1>14 DEF S!Sign
<1>18. ASSUME m < n, mem[p + m] # mem[q + m]
       PROVE  S!Sign(S!Rank(p) - S!Rank(q)) = S!Sign(S!Signed(mem[p + m]) - S!Signed(mem[q + m]))
  <2>1. m \in 0..n - 1
    BY <1>3, <1>18
  <2>2. d[m] = S!Signed(mem[p + m]) /\ e[m] = S!Signed(mem[q + m])
        /\ d[m] \in Int /\ e[m] \in Int /\ d[m] # e[m]
    BY <1>6, <1>7, <1>9, <1>10, <1>18, <2>1
  <2>3. S!Sign(r[n] - s[n]) = S!Sign(d[m] - e[m])
    BY <1>13, <1>14, <1>16, <1>18, <2>2 DEF S!Sign
  <2> QED BY <1>8, <2>2, <2>3
<1> QED
  BY <1>2, <1>17, <1>18
-----------------------------------------------------------------------------
(***************************************************************************)
(* StringInv is inductive.                                                 *)
(***************************************************************************)
LEMMA InitStrings == LibraryInit => StringInv
<1> SUFFICES ASSUME LibraryInit PROVE StringInv
  OBVIOUS
<1>0. MEMORY \in Nat \ {0} /\ BYTE \in Nat \ {0} /\ Contents \subseteq 0..BYTE - 1
  BY StringsAssumption
<1>1. CASE StringsIdle
  <2>1. /\ mem = [a \in S!Addresses |-> 0] /\ original = mem
        /\ op = [name |-> "none", dest |-> 0, src |-> 0, arg |-> 0, rounds |-> 0]
        /\ i = 0 /\ state = "done" /\ result = 0
    BY <1>1 DEF StringsIdle
  <2>2. StringTypes
    BY <1>0, <2>1 DEF StringTypes, Names
  <2>3. Blocks /\ Ended /\ Compared
    BY <2>1 DEF Blocks, Ended, Compared, Copies
  <2>4. Written
    BY <2>1 DEF Written, Copies
  <2> QED BY <2>2, <2>3, <2>4 DEF StringInv
<1>2. CASE S!Init
  <2>1. mem \in [S!Addresses -> Contents] /\ S!Called /\ i = 0 /\ state = "loop" /\ original = mem
        /\ result = 0
    BY <1>2 DEF S!Init
  <2>2. /\ op \in [name : Names, dest : S!Addresses, src : S!Addresses, arg : Nat, rounds : Nat]
        /\ Blocks
        /\ op.name = "strcmp" => /\ S!IsString(op.dest) /\ S!IsString(op.src)
                                 /\ op.rounds = S!strlen(op.dest)
    <3>0. S!Addresses \subseteq Nat /\ \A a \in S!Addresses : a <= MEMORY
      BY <1>0 DEF S!Addresses
    <3>1. CASE \E a \in S!Addresses, c \in 0..BYTE : \E n \in 0..MEMORY - a :
                  S!Call("memset", a, a, c, n)
      <4>0. PICK a \in S!Addresses, c \in 0..BYTE :
               \E n \in 0..MEMORY - a : S!Call("memset", a, a, c, n)
        BY <3>1
      <4>1. PICK n \in 0..MEMORY - a : S!Call("memset", a, a, c, n)
        BY <4>0
      <4>2. op = [name |-> "memset", dest |-> a, src |-> a, arg |-> c, rounds |-> n]
        BY <4>1 DEF S!Call
      <4>3. n \in Nat /\ c \in Nat /\ a + n <= MEMORY
        BY <1>0, <3>0
      <4> QED BY <4>2, <4>3 DEF Blocks, Names, Copies
    <3>2. CASE \E a, b \in S!Addresses : \E n \in 0..MEMORY - S!Max({a, b}) :
                  S!Call("memcpy", a, b, 0, n)
      <4>0. PICK a \in S!Addresses, b \in S!Addresses :
               \E n \in 0..MEMORY - S!Max({a, b}) : S!Call("memcpy", a, b, 0, n)
        BY <3>2
      <4>1. PICK n \in 0..MEMORY - S!Max({a, b}) : S!Call("memcpy", a, b, 0, n)
        BY <4>0
      <4>2. op = [name |-> "memcpy", dest |-> a, src |-> b, arg |-> 0, rounds |-> n]
        BY <4>1 DEF S!Call
      <4>3. a \in Nat /\ b \in Nat
        BY <3>0
      <4>4. S!Max({a, b}) \in Nat /\ S!Max({a, b}) >= a /\ S!Max({a, b}) >= b
        <5>1. \E x \in {a, b} : \A y \in {a, b} : x >= y
          BY <4>3
        <5>2. S!Max({a, b}) \in {a, b} /\ \A y \in {a, b} : S!Max({a, b}) >= y
          BY <5>1 DEF S!Max
        <5> QED BY <5>2, <4>3
      <4>5. n \in Nat /\ a + n <= MEMORY /\ b + n <= MEMORY
        BY <1>0, <4>3, <4>4
      <4> QED BY <4>2, <4>5 DEF Blocks, Names, Copies
    <3>3. CASE \E a, b \in S!Addresses : /\ S!IsString(a) /\ S!IsString(b)
                                         /\ S!Call("strcmp", a, b, 0, S!strlen(a))
      <4>1. PICK a \in S!Addresses, b \in S!Addresses :
               /\ S!IsString(a) /\ S!IsString(b)
               /\ S!Call("strcmp", a, b, 0, S!strlen(a))
        BY <3>3
      <4>2. op = [name |-> "strcmp", dest |-> a, src |-> b, arg |-> 0, rounds |-> S!strlen(a)]
        BY <4>1 DEF S!Call
      <4>3. S!strlen(a) \in Nat
        BY <4>1, StrlenIs, <1>0, <3>0
      <4> QED BY <4>1, <4>2, <4>3 DEF Blocks, Names, Copies
    <3>4. CASE \E a, b \in S!Addresses : /\ S!IsString(b) /\ a + S!strlen(b) < MEMORY
                                         /\ S!Call("strcpy", a, b, 0, S!strlen(b))
      <4>1. PICK a \in S!Addresses, b \in S!Addresses :
               /\ S!IsString(b) /\ a + S!strlen(b) < MEMORY
               /\ S!Call("strcpy", a, b, 0, S!strlen(b))
        BY <3>4
      <4>2. op = [name |-> "strcpy", dest |-> a, src |-> b, arg |-> 0, rounds |-> S!strlen(b)]
        BY <4>1 DEF S!Call
      <4>3. S!strlen(b) \in 0..MEMORY - 1 - b
        BY <4>1, StrlenIs
      <4>4. S!strlen(b) \in Nat /\ a + S!strlen(b) <= MEMORY /\ b + S!strlen(b) <= MEMORY
        BY <1>0, <3>0, <4>1, <4>3
      <4> QED BY <4>2, <4>4 DEF Blocks, Names, Copies
    <3>5. CASE \E a, b \in S!Addresses : /\ S!IsString(a)
                                         /\ \E n \in 0..MEMORY - b :
                                               S!Call("strcat", a, b, n, S!strlen(a) + n)
      <4>0. PICK a \in S!Addresses, b \in S!Addresses :
               S!IsString(a) /\ \E n \in 0..MEMORY - b : S!Call("strcat", a, b, n, S!strlen(a) + n)
        BY <3>5
      <4>1. PICK n \in 0..MEMORY - b : S!IsString(a) /\ S!Call("strcat", a, b, n, S!strlen(a) + n)
        BY <4>0
      <4>2. op = [name |-> "strcat", dest |-> a, src |-> b, arg |-> n, rounds |-> S!strlen(a) + n]
        BY <4>1 DEF S!Call
      <4>3. S!strlen(a) \in 0..MEMORY - 1 - a
        BY <4>1, StrlenIs
      <4>4. S!strlen(a) + n \in Nat /\ n \in Nat
        BY <1>0, <3>0, <4>3
      <4> QED BY <4>2, <4>4 DEF Blocks, Names, Copies
    <3> QED BY <2>1, <3>1, <3>2, <3>3, <3>4, <3>5 DEF S!Called
  <2>3. op.rounds \in Nat
    BY <2>2
  <2>4. StringTypes
    <3>1. S!Addresses \subseteq Nat
      BY <1>0 DEF S!Addresses
    <3>2. op \in [name : Names, dest : Nat, src : Nat, arg : Nat, rounds : Nat]
      BY <2>2, <3>1
    <3>3. mem \in [S!Addresses -> 0..BYTE - 1]
      BY <1>0, <2>1
    <3>4. result \in -1..MEMORY + 1 /\ i \in 0..op.rounds
      BY <1>0, <2>1, <2>3
    <3> QED BY <2>1, <3>2, <3>3, <3>4 DEF StringTypes
  <2>5. Written
    BY <2>1 DEF Written, Done
  <2>6. Ended /\ Compared
    BY <2>1, <2>2 DEF Ended, Compared
  <2> QED BY <2>2, <2>4, <2>5, <2>6 DEF StringInv
<1> QED
  BY <1>1, <1>2 DEF LibraryInit

\* A round of memset, memcpy or strcpy writes the next byte of the block.
LEMMA RoundStrings ==
    ASSUME StringInv, op.name \in Copies \cup {"memset"}, op' = op, original' = original,
           state = "loop", state' = state, result' = result, i < op.rounds, i' = i + 1,
           NEW x, mem' = [mem EXCEPT ![op.dest + i] = x],
           op.name = "memset" => x = op.arg % BYTE,
           op.name \in Copies => x = mem[op.src + i]
    PROVE  StringInv'
<1>0. MEMORY \in Nat \ {0} /\ BYTE \in Nat \ {0}
  BY StringsAssumption
<1>1. /\ mem \in [S!Addresses -> 0..BYTE - 1]
      /\ op.dest \in Nat /\ op.src \in Nat /\ op.rounds \in Nat /\ op.arg \in Nat
      /\ i \in Nat
      /\ op.dest + op.rounds <= MEMORY
      /\ op.name \in Copies => op.src + op.rounds <= MEMORY
  BY DEF StringInv, StringTypes, Blocks
<1>2. op.dest + i \in S!Addresses /\ (op.name \in Copies => op.src + i \in S!Addresses)
  <2>1. \A d, k, r \in Nat : k < r /\ d + r <= MEMORY => d + k \in S!Addresses
    BY <1>0 DEF S!Addresses
  <2> QED BY <1>1, <2>1
<1>3. op.name \in Copies => op.src + i \in S!Addresses
  BY <1>2
<1>4. x \in 0..BYTE - 1
  <2>1. op.arg % BYTE \in 0..BYTE - 1
    BY <1>0, <1>1
  <2> QED BY <2>1, <1>1, <1>3
<1>5. mem' \in [S!Addresses -> 0..BYTE - 1]
  BY <1>1, <1>2, <1>4
<1>6. StringTypes'
  <2>1. i' \in 0..op.rounds
    BY <1>1
  <2> QED BY <2>1, <1>5 DEF StringInv, StringTypes, S!Addresses
<1>7. Blocks' /\ Ended' /\ Compared'
  BY DEF StringInv, Blocks, Ended, Compared, Copies
<1>8. Written'
  <2> SUFFICES ASSUME NEW a \in S!Addresses
               PROVE  /\ ~Done(a)' => mem'[a] = original[a]
                      /\ op.name = "memset" /\ Done(a)' => mem'[a] = op.arg % BYTE
                      /\ op.name \in Copies /\ Done(a)' =>
                            mem'[a] = original[op.src + (a - op.dest)] \/ Overlap
    BY DEF Written, Overlap, S!Addresses
  <2>0. a \in Nat
    BY <1>0 DEF S!Addresses
  <2>1. Done(a)' <=> Done(a) \/ a = op.dest + i
    BY <1>1, <2>0 DEF Done
  <2>2. ~Done(op.dest + i)
    BY <1>1 DEF Done
  <2>3. /\ ~Done(a) => mem[a] = original[a]
        /\ op.name = "memset" /\ Done(a) => mem[a] = op.arg % BYTE
        /\ op.name \in Copies /\ Done(a) =>
              mem[a] = original[op.src + (a - op.dest)] \/ Overlap
    BY DEF StringInv, Written
  <2>4. CASE a # op.dest + i
    <3>1. mem'[a] = mem[a]
      BY <2>4, <1>1
    <3> QED BY <2>1, <2>3, <2>4, <3>1
  <2>5. CASE a = op.dest + i
    <3>1. mem'[a] = x /\ Done(a)'
      BY <2>1, <2>5, <1>1, <1>2
    <3>2. CASE op.name = "memset"
      BY <3>1, <3>2 DEF Copies
    <3>3. CASE op.name \in Copies
      <4>1. op.src + (a - op.dest) = op.src + i
        BY <2>5, <1>1
      <4>2. Done(op.src + i) => Overlap
        BY <1>1 DEF Done, Overlap
      <4>3. ~Done(op.src + i) => mem[op.src + i] = original[op.src + i]
        BY <3>3, <1>3 DEF StringInv, Written
      <4>4. op.name # "memset"
        BY <3>3 DEF Copies
      <4> QED BY <3>1, <3>3, <4>1, <4>2, <4>3, <4>4
    <3> QED BY <3>2, <3>3
  <2> QED BY <2>4, <2>5
<1> QED
  BY <1>6, <1>7, <1>8 DEF StringInv

\* A function returns: of the state, only state and result change.
LEMMA ReturnStrings ==
    ASSUME StringInv, op' = op, original' = original, mem' = mem, i' = i, state' = "done",
           op.name \in Copies \cup {"memset"} => i = op.rounds,
           op.name = "strcmp" => (result' = 0 <=> Equal) /\ result' = Order,
           result' \in -1..MEMORY + 1
    PROVE  StringInv'
<1>1. StringTypes' /\ Blocks' /\ Ended'
  BY DEF StringInv, StringTypes, Blocks, Ended, S!Addresses
<1>2. Written'
  BY DEF StringInv, Written, Done, Overlap, S!Addresses
<1>3. Compared'
  <2> SUFFICES ASSUME op.name = "strcmp" PROVE Compared'
    BY DEF Compared
  <2>1. \A p : S!strlen(p)' = S!strlen(p)
    BY DEF S!strlen
  <2>2. \A p : S!IsString(p)' <=> S!IsString(p)
    BY DEF S!IsString
  <2>3. \A p : S!Rank(p)' = S!Rank(p)
    BY <2>1 DEF S!Rank
  <2>4. Order' = Order
    BY <2>1, <2>3 DEF Order
  <2> QED BY <2>1, <2>2, <2>4 DEF StringInv, Compared, Equal, S!Addresses
<1> QED
  BY <1>1, <1>2, <1>3 DEF StringInv

\* A round of strcmp or strcat writes nothing.
LEMMA QuietStrings ==
    ASSUME StringInv, op.name \in {"strcmp", "strcat"}, op' = op, original' = original,
           mem' = mem, i < op.rounds, i' = i + 1, state = "loop", state' = state,
           result' = result,
           op.name = "strcmp" => mem[op.dest + i] = mem[op.src + i]
    PROVE  StringInv'
<1>0. i \in Nat /\ op.rounds \in Nat
  BY DEF StringInv, StringTypes
<1>1. StringTypes' /\ Blocks' /\ Ended'
  <2>1. i' \in 0..op.rounds
    BY <1>0
  <2> QED BY <2>1 DEF StringInv, StringTypes, Blocks, Ended, S!Addresses
<1>2. Written'
  BY DEF StringInv, Written, Copies, S!Addresses
<1>3. Compared'
  <2> SUFFICES ASSUME op.name = "strcmp" PROVE Compared'
    BY DEF Compared
  <2>1. \A p : S!strlen(p)' = S!strlen(p)
    BY DEF S!strlen
  <2>2. \A p : S!IsString(p)' <=> S!IsString(p)
    BY DEF S!IsString
  <2>3. \A k \in 0..i' - 1 : mem[op.dest + k] = mem[op.src + k]
    <3>1. \A k \in 0..i' - 1 : k \in 0..i - 1 \/ k = i
      BY <1>0
    <3> QED BY <3>1 DEF StringInv, Compared
  <2> QED BY <2>1, <2>2, <2>3 DEF StringInv, Compared, S!Addresses
<1> QED
  BY <1>1, <1>2, <1>3 DEF StringInv

\* A step of kprintf leaves the string functions alone.
LEMMA SameStrings ==
    ASSUME StringInv, UNCHANGED stringvars
    PROVE  StringInv'
<1>1. /\ mem' = mem /\ op' = op /\ i' = i /\ state' = state /\ result' = result
      /\ original' = original
  BY DEF stringvars
<1>2. StringTypes' /\ Blocks' /\ Ended'
  BY <1>1 DEF StringInv, StringTypes, Blocks, Ended, S!Addresses
<1>3. Written'
  BY <1>1 DEF StringInv, Written, Done, Overlap, S!Addresses
<1>4. Compared'
  <2>1. \A p : S!strlen(p)' = S!strlen(p)
    BY <1>1 DEF S!strlen
  <2>2. \A p : S!IsString(p)' <=> S!IsString(p)
    BY <1>1 DEF S!IsString
  <2>3. \A p : S!Rank(p)' = S!Rank(p)
    BY <1>1, <2>1 DEF S!Rank
  <2>4. Order' = Order
    BY <1>1, <2>1, <2>3 DEF Order
  <2> QED BY <1>1, <2>1, <2>2, <2>4 DEF StringInv, Compared, Equal, S!Addresses
<1> QED
  BY <1>2, <1>3, <1>4 DEF StringInv

\* The functions that write a block keep the invariant: a round or the return.
LEMMA BlockFunctions == StringInv /\ (S!memset \/ S!memcpy \/ S!strcpy) => StringInv'
<1> SUFFICES ASSUME StringInv, S!memset \/ S!memcpy \/ S!strcpy PROVE StringInv'
  OBVIOUS
<1>1. PICK name \in {"memset", "memcpy", "strcpy"} :
         /\ state = "loop" /\ op.name = name /\ op' = op /\ original' = original
         /\ \/ /\ i < op.rounds /\ i' = i + 1 /\ state' = state /\ result' = result
               /\ mem' = [mem EXCEPT ![op.dest + i] =
                            IF name = "memset" THEN op.arg % BYTE ELSE mem[op.src + i]]
            \/ /\ i = op.rounds /\ state' = "done" /\ mem' = mem /\ i' = i
               /\ result' = IF name = "strcpy" THEN op.dest + i ELSE 0
  BY DEF S!memset, S!memcpy, S!strcpy, S!In, S!Round, S!Set, S!Return
<1>2. op.name \in Copies \cup {"memset"} /\ (op.name \in Copies => op.name # "memset")
  BY <1>1 DEF Copies
<1>3. CASE i < op.rounds /\ i' = i + 1 /\ state' = state /\ result' = result
           /\ mem' = [mem EXCEPT ![op.dest + i] =
                        IF name = "memset" THEN op.arg % BYTE ELSE mem[op.src + i]]
  <2>1. PICK x : x = IF name = "memset" THEN op.arg % BYTE ELSE mem[op.src + i]
    OBVIOUS
  <2>2. mem' = [mem EXCEPT ![op.dest + i] = x]
    BY <1>3, <2>1
  <2>3. /\ op.name = "memset" => x = op.arg % BYTE
        /\ op.name \in Copies => x = mem[op.src + i]
    BY <1>1, <1>2, <2>1
  <2> QED BY <1>1, <1>2, <1>3, <2>2, <2>3, RoundStrings
<1>4. CASE /\ i = op.rounds /\ state' = "done" /\ mem' = mem /\ i' = i
           /\ result' = IF name = "strcpy" THEN op.dest + i ELSE 0
  <2>1. op.name # "strcmp"
    BY <1>1
  <2>2. result' \in -1..MEMORY + 1
    <3>1. op.dest \in Nat /\ op.rounds \in Nat /\ op.dest + op.rounds <= MEMORY /\ MEMORY \in Nat
      BY <1>2, StringsAssumption DEF StringInv, StringTypes, Blocks
    <3> QED BY <1>4, <3>1
  <2> QED BY <1>1, <1>4, <2>1, <2>2, ReturnStrings
<1> QED
  BY <1>1, <1>3, <1>4

\* strcmp keeps it: the lengths differ, two characters differ, equal so far, equal.
LEMMA strcmpStrings == StringInv /\ S!strcmp => StringInv'
<1> SUFFICES ASSUME StringInv, S!strcmp PROVE StringInv'
  OBVIOUS
<1> DEFINE longer == op.rounds - S!strlen(op.src)
           a == mem[op.dest + i]
           b == mem[op.src + i]
<1>0. MEMORY \in Nat \ {0} /\ BYTE \in Nat \ {0}
  BY StringsAssumption
<1>1. /\ state = "loop" /\ op.name = "strcmp" /\ op' = op /\ original' = original
      /\ \/ longer # 0 /\ S!Return(S!Sign(longer))
         \/ longer = 0 /\ i < op.rounds /\ a # b /\ S!Return(S!Sign(S!Signed(a) - S!Signed(b)))
         \/ longer = 0 /\ a = b /\ S!Round /\ UNCHANGED <<mem, buf>>
         \/ longer = 0 /\ i = op.rounds /\ S!Return(0)
  BY DEF S!strcmp, S!In
<1>2. /\ op.dest \in S!Addresses /\ S!IsString(op.dest)
      /\ op.src \in S!Addresses /\ S!IsString(op.src)
      /\ op.rounds = S!strlen(op.dest)
      /\ \A k \in 0..i - 1 : mem[op.dest + k] = mem[op.src + k]
      /\ op.rounds \in Nat /\ i \in Nat /\ mem \in [S!Addresses -> 0..BYTE - 1]
  BY <1>1 DEF StringInv, StringTypes, Compared
<1>3. S!strlen(op.dest) \in 0..MEMORY - 1 - op.dest /\ S!strlen(op.src) \in 0..MEMORY - 1 - op.src
  BY <1>2, StrlenIs
<1>4. longer \in Int /\ op.dest \in Nat /\ op.src \in Nat
  BY <1>0, <1>2, <1>3 DEF S!Addresses
<1>5. op.name \notin Copies \cup {"memset"}
  BY <1>1 DEF Copies
<1>6. CASE longer # 0 /\ S!Return(S!Sign(longer))
  <2>1. state' = "done" /\ result' = S!Sign(longer) /\ mem' = mem /\ i' = i
    BY <1>6 DEF S!Return
  <2>2. result' # 0
    BY <2>1, <1>4, <1>6 DEF S!Sign
  <2>3. ~Equal
    BY <1>2, <1>3, <1>4, <1>6 DEF Equal
  <2>4. result' = Order /\ result' \in -1..MEMORY + 1
    <3>1. S!Sign(longer) \in -1..MEMORY + 1
      BY <1>0, <1>4 DEF S!Sign
    <3>2. S!strlen(op.dest) # S!strlen(op.src)
      BY <1>2, <1>3, <1>4, <1>6
    <3> QED BY <1>2, <2>1, <3>1, <3>2 DEF Order
  <2> QED BY <1>1, <1>5, <2>1, <2>2, <2>3, <2>4, ReturnStrings
<1>7. CASE longer = 0 /\ i < op.rounds /\ a # b /\ S!Return(S!Sign(S!Signed(a) - S!Signed(b)))
  <2>1. state' = "done" /\ result' = S!Sign(S!Signed(a) - S!Signed(b)) /\ mem' = mem /\ i' = i
    BY <1>7 DEF S!Return
  <2>2. op.dest + i \in S!Addresses /\ op.src + i \in S!Addresses
    <3>1. S!strlen(op.src) = op.rounds
      BY <1>2, <1>3, <1>4, <1>7
    <3>2. \A d, k, r \in Nat : k < r /\ r \in 0..MEMORY - 1 - d => d + k \in 0..MEMORY - 1
      BY <1>0
    <3> QED BY <1>2, <1>3, <1>4, <1>7, <3>1, <3>2 DEF S!Addresses
  <2>3. a \in 0..BYTE - 1 /\ b \in 0..BYTE - 1
    BY <2>2, <1>2
  <2>4. result' # 0
    BY <2>1, <2>3, <1>7, SignedDiffer
  <2>5. ~Equal
    <3>1. i \in 0..S!strlen(op.dest) - 1
      BY <1>2, <1>7
    <3> QED BY <3>1, <1>7 DEF Equal
  <2>6. result' = Order /\ result' \in -1..MEMORY + 1
    <3>1. S!strlen(op.dest) = S!strlen(op.src) /\ i \in 0..S!strlen(op.dest) /\ i < S!strlen(op.dest)
      BY <1>2, <1>3, <1>4, <1>7
    <3>2. S!Sign(S!Rank(op.dest) - S!Rank(op.src)) = S!Sign(S!Signed(a) - S!Signed(b))
      BY <1>2, <1>7, <3>1, Decides
    <3>3. \A x : S!Sign(x) \in -1..MEMORY + 1
      BY <1>0 DEF S!Sign
    <3> QED BY <2>1, <3>1, <3>2, <3>3 DEF Order
  <2> QED BY <1>1, <1>5, <2>1, <2>4, <2>5, <2>6, ReturnStrings
<1>8. CASE longer = 0 /\ a = b /\ S!Round /\ UNCHANGED <<mem, buf>>
  <2>1. i < op.rounds /\ i' = i + 1 /\ state' = state /\ mem' = mem /\ result' = result
    BY <1>8 DEF S!Round
  <2> QED BY <1>1, <1>8, <2>1, QuietStrings
<1>9. CASE longer = 0 /\ i = op.rounds /\ S!Return(0)
  <2>1. state' = "done" /\ result' = 0 /\ mem' = mem /\ i' = i
    BY <1>9 DEF S!Return
  <2>2. S!strlen(op.dest) = S!strlen(op.src)
    BY <1>2, <1>3, <1>4, <1>9
  <2>3. Equal
    BY <2>2, <1>2, <1>9 DEF Equal
  <2>4. result' = Order /\ result' \in -1..MEMORY + 1
    <3>1. i \in 0..S!strlen(op.dest) /\ i = S!strlen(op.dest)
      BY <1>2, <1>9
    <3>2. S!Sign(S!Rank(op.dest) - S!Rank(op.src)) = 0
      BY <1>2, <2>2, <3>1, Decides
    <3> QED BY <1>0, <2>1, <2>2, <3>2 DEF Order
  <2> QED BY <1>1, <1>5, <2>1, <2>3, <2>4, ReturnStrings
<1> QED
  BY <1>1, <1>6, <1>7, <1>8, <1>9

\* strcat keeps it: it writes to its own buffer.
LEMMA strcatStrings == StringInv /\ S!strcat => StringInv'
<1> SUFFICES ASSUME StringInv, S!strcat PROVE StringInv'
  OBVIOUS
<1>1. /\ state = "loop" /\ op.name = "strcat" /\ op' = op /\ original' = original /\ mem' = mem
      /\ \/ i < op.rounds /\ i' = i + 1 /\ state' = state /\ result' = result
         \/ state' = "done" /\ i' = i /\ result' = S!Dangling
  BY DEF S!strcat, S!In, S!Round
<1>2. op.name \notin Copies \cup {"memset"} /\ op.name # "strcmp"
  BY <1>1 DEF Copies
<1>3. CASE i < op.rounds /\ i' = i + 1 /\ state' = state /\ result' = result
  BY <1>1, <1>2, <1>3, QuietStrings
<1>4. CASE state' = "done" /\ i' = i /\ result' = S!Dangling
  <2>1. result' \in -1..MEMORY + 1
    BY <1>4, StringsAssumption DEF S!Dangling
  <2> QED BY <1>1, <1>2, <1>4, <2>1, ReturnStrings
<1> QED
  BY <1>1, <1>3, <1>4

\* Every step keeps it.
LEMMA NextStrings == StringInv /\ [LibraryNext]_allvars => StringInv'
<1> SUFFICES ASSUME StringInv, [LibraryNext]_allvars PROVE StringInv'
  OBVIOUS
<1>1. CASE Next /\ UNCHANGED stringvars
  BY <1>1, SameStrings
<1>2. CASE S!Next
  BY <1>2, BlockFunctions, strcmpStrings, strcatStrings DEF S!Next
<1>3. CASE UNCHANGED allvars
  <2>1. UNCHANGED stringvars
    BY <1>3 DEF allvars
  <2> QED BY <2>1, SameStrings
<1> QED
  BY <1>1, <1>2, <1>3 DEF LibraryNext
-----------------------------------------------------------------------------
(***************************************************************************)
(* Weights.                                                                *)
(***************************************************************************)
LEMMA BaseIs == \A f : Base(f) \in {10, 16} /\ SIZE(f) \in Nat \ {0} /\ SIZE(f) < WORD
BY KprintAssumption DEF Base, SIZE

Weighs(w, f, n) ==
    w = [k \in 0..n |-> IF k = 0 THEN 1 ELSE w[k - 1] * Base(f)]

\* Weight's recursion has a solution.
LEMMA WeightExists ==
    ASSUME NEW f
    PROVE  \E w : Weighs(w, f, SIZE(f))
<1> DEFINE T == {n \in Nat : \E w \in [0..n -> Nat] : Weighs(w, f, n)}
<1>0. Base(f) \in Nat /\ SIZE(f) \in Nat
  BY BaseIs
<1>1. 0 \in T
  <2> DEFINE w == [k \in 0..0 |-> 1]
  <2>1. w \in [0..0 -> Nat] /\ w = [k \in 0..0 |-> IF k = 0 THEN 1 ELSE w[k - 1] * Base(f)]
    OBVIOUS
  <2> QED BY <2>1 DEF Weighs
<1>2. ASSUME NEW n \in Nat, n \in T PROVE n + 1 \in T
  <2>1. PICK w \in [0..n -> Nat] : w = [k \in 0..n |-> IF k = 0 THEN 1 ELSE w[k - 1] * Base(f)]
    BY <1>2 DEF Weighs
  <2> DEFINE u == [k \in 0..n + 1 |-> IF k = n + 1 THEN w[n] * Base(f) ELSE w[k]]
  <2>2. w[n] \in Nat /\ w[n] * Base(f) \in Nat
    BY <1>0, <1>2
  <2>3. u \in [0..n + 1 -> Nat]
    BY <2>2, <1>2
  <2>4. ASSUME NEW k \in 0..n + 1 PROVE u[k] = IF k = 0 THEN 1 ELSE u[k - 1] * Base(f)
    <3>1. CASE k = n + 1
      BY <3>1, <1>2
    <3>2. CASE k # n + 1
      <4>1. k \in 0..n /\ (k # 0 => k - 1 \in 0..n /\ k - 1 # n + 1)
        BY <3>2, <1>2
      <4>2. w[k] = IF k = 0 THEN 1 ELSE w[k - 1] * Base(f)
        BY <2>1, <4>1
      <4> QED BY <4>1, <4>2, <3>2, <1>2
    <3> QED BY <3>1, <3>2
  <2>5. u = [k \in 0..n + 1 |-> IF k = 0 THEN 1 ELSE u[k - 1] * Base(f)]
    BY <2>4
  <2> HIDE DEF u
  <2>6. Weighs(u, f, n + 1)
    BY <2>5 DEF Weighs
  <2>7. n + 1 \in Nat
    BY <1>2
  <2> QED BY <2>3, <2>6, <2>7
<1>3. 0..SIZE(f) \subseteq T
  <2> HIDE DEF T
  <2>1. \A k \in 0..SIZE(f) - 1 : k \in T => k + 1 \in T
    BY <1>0, <1>2
  <2> QED BY <1>0, <1>1, <2>1, UpTo
<1> QED
  BY <1>0, <1>3

\* Weight is that solution.
LEMMA WeightIs ==
    ASSUME NEW f
    PROVE  Weighs(Weight(f), f, SIZE(f))
<1>1. \E w : w = [k \in 0..SIZE(f) |-> IF k = 0 THEN 1 ELSE w[k - 1] * Base(f)]
  BY WeightExists DEF Weighs
<1> QED
  BY <1>1 DEF Weight, Weighs

\* Each is Base(f) times the one before, and none is 0.
LEMMA Weights ==
    ASSUME NEW f
    PROVE  /\ Weight(f)[0] = 1
           /\ \A k \in 0..SIZE(f) : Weight(f)[k] \in Nat \ {0}
           /\ \A k \in 0..SIZE(f) - 1 : Weight(f)[k + 1] = Weight(f)[k] * Base(f)
<1> DEFINE w == Weight(f)
           T == {n \in Nat : n <= SIZE(f) => w[n] \in Nat \ {0}}
<1>0. Base(f) \in Nat \ {0} /\ SIZE(f) \in Nat
  BY BaseIs
<1>1. w = [k \in 0..SIZE(f) |-> IF k = 0 THEN 1 ELSE w[k - 1] * Base(f)]
  BY WeightIs DEF Weighs
<1> HIDE DEF w
<1>2. w[0] = 1 /\ \A k \in 0..SIZE(f) - 1 : w[k + 1] = w[k] * Base(f)
  <2>1. w[0] = 1
    BY <1>0, <1>1
  <2>2. ASSUME NEW k \in 0..SIZE(f) - 1 PROVE w[k + 1] = w[k] * Base(f)
    <3>1. k + 1 \in 0..SIZE(f) /\ k + 1 # 0 /\ (k + 1) - 1 = k
      BY <1>0
    <3> QED BY <1>1, <3>1
  <2> QED BY <2>1, <2>2
<1>3. 0..SIZE(f) \subseteq T
  <2>1. 0 \in T
    BY <1>2
  <2>2. ASSUME NEW k \in 0..SIZE(f) - 1, k \in T PROVE k + 1 \in T
    <3>1. k + 1 \in Nat /\ k <= SIZE(f) /\ w[k + 1] = w[k] * Base(f) /\ w[k] \in Nat \ {0}
      BY <1>0, <1>2, <2>2
    <3>2. \A x, y \in Nat \ {0} : x * y \in Nat \ {0}
      OBVIOUS
    <3> QED BY <1>0, <3>1, <3>2
  <2> HIDE DEF T
  <2> QED BY <1>0, <2>1, <2>2, UpTo
<1> QED
  BY <1>0, <1>2, <1>3 DEF w
-----------------------------------------------------------------------------
(***************************************************************************)
(* What FlattenSeq computes: the sequences one after the other.            *)
(***************************************************************************)

\* Flat(s)[k] is made of the first k sequences of s.
IsFlat(F, s) ==
    /\ DOMAIN F = 0..Len(s)
    /\ F[0] = <<>>
    /\ \A k \in 1..Len(s) : F[k] = F[k - 1] \o s[k]
    /\ F[Len(s)] = FlattenSeq(s)

Flat(s) == CHOOSE F : IsFlat(F, s)

Flattens(g, s, n) ==
    g = [z \in 1..n |-> IF z = 1 THEN s[z] ELSE g[z - 1] \o s[z]]

\* FlattenSeq's recursion has a solution.
LEMMA FlattenExists ==
    ASSUME NEW s, Len(s) \in Nat
    PROVE  \E g : Flattens(g, s, Len(s))
<1> DEFINE T == {n \in Nat : \E g : Flattens(g, s, n)}
<1>1. 0 \in T
  <2> DEFINE g == [z \in 1..0 |-> s[z]]
  <2>1. g = [z \in 1..0 |-> IF z = 1 THEN s[z] ELSE g[z - 1] \o s[z]]
    OBVIOUS
  <2> HIDE DEF g
  <2>2. Flattens(g, s, 0)
    BY <2>1 DEF Flattens
  <2> QED BY <2>2
<1>2. ASSUME NEW n \in Nat, n \in T PROVE n + 1 \in T
  <2>1. PICK g : g = [z \in 1..n |-> IF z = 1 THEN s[z] ELSE g[z - 1] \o s[z]]
    BY <1>2 DEF Flattens
  <2> DEFINE e == IF n + 1 = 1 THEN s[n + 1] ELSE g[n] \o s[n + 1]
             h == [z \in 1..n + 1 |-> IF z = n + 1 THEN e ELSE g[z]]
  <2>2. ASSUME NEW z \in 1..n + 1 PROVE h[z] = IF z = 1 THEN s[z] ELSE h[z - 1] \o s[z]
    <3>1. CASE z = n + 1
      <4>1. h[z] = e /\ (z # 1 => z - 1 \in 1..n + 1 /\ z - 1 = n /\ n # n + 1)
        BY <3>1, <1>2
      <4>2. z # 1 => h[z - 1] = g[n]
        BY <4>1
      <4> QED BY <3>1, <4>1, <4>2
    <3>2. CASE z # n + 1
      <4>1. z \in 1..n /\ (z # 1 => z - 1 \in 1..n + 1 /\ z - 1 # n + 1)
        BY <3>2, <1>2
      <4>2. h[z] = g[z] /\ (z # 1 => h[z - 1] = g[z - 1])
        BY <4>1, <3>2
      <4>3. g[z] = IF z = 1 THEN s[z] ELSE g[z - 1] \o s[z]
        BY <2>1, <4>1
      <4> QED BY <4>2, <4>3
    <3> QED BY <3>1, <3>2
  <2>3. h = [z \in 1..n + 1 |-> IF z = 1 THEN s[z] ELSE h[z - 1] \o s[z]]
    BY <2>2
  <2> HIDE DEF h
  <2>4. Flattens(h, s, n + 1)
    BY <2>3 DEF Flattens
  <2>5. n + 1 \in Nat
    BY <1>2
  <2> QED BY <2>4, <2>5
<1>3. 0..Len(s) \subseteq T
  <2> HIDE DEF T
  <2>1. \A k \in 0..Len(s) - 1 : k \in T => k + 1 \in T
    BY <1>2
  <2> QED BY <1>1, <2>1, UpTo
<1> QED
  BY <1>3

\* Flat exists: the last of it is what FlattenSeq returns.
LEMMA FlatIs ==
    ASSUME NEW A, NEW s \in Seq(Seq(A))
    PROVE  IsFlat(Flat(s), s)
<1> DEFINE g == CHOOSE g : g = [z \in 1..Len(s) |-> IF z = 1 THEN s[z] ELSE g[z - 1] \o s[z]]
           F == [k \in 0..Len(s) |-> IF k = 0 THEN <<>> ELSE g[k]]
<1>0. Len(s) \in Nat /\ \A k \in 1..Len(s) : s[k] \in Seq(A)
  OBVIOUS
<1>1. g = [z \in 1..Len(s) |-> IF z = 1 THEN s[z] ELSE g[z - 1] \o s[z]]
  BY <1>0, FlattenExists DEF Flattens
<1>2. Len(s) # 0 => FlattenSeq(s) = g[Len(s)]
  BY DEF FlattenSeq
<1>3. Len(s) = 0 => FlattenSeq(s) = <<>>
  <2>1. Len(s) = 0 => s = <<>>
    BY EmptySeq
  <2> QED BY <2>1 DEF FlattenSeq
<1> HIDE DEF g
<1>4. F[Len(s)] = FlattenSeq(s)
  BY <1>0, <1>2, <1>3
<1>5. ASSUME NEW k \in 1..Len(s) PROVE F[k] = F[k - 1] \o s[k]
  <2>1. k \in 0..Len(s) /\ k # 0 /\ k - 1 \in 0..Len(s) /\ (k = 1 <=> k - 1 = 0)
    BY <1>0
  <2>2. F[k] = g[k] /\ (k # 1 => F[k - 1] = g[k - 1]) /\ (k = 1 => F[k - 1] = <<>>)
    BY <2>1
  <2>3. g[k] = IF k = 1 THEN s[k] ELSE g[k - 1] \o s[k]
    BY <1>1
  <2>4. <<>> \o s[k] = s[k]
    BY <1>0, ConcatEmptySeq
  <2> QED BY <2>2, <2>3, <2>4
<1>6. DOMAIN F = 0..Len(s) /\ F[0] = <<>>
  BY <1>0
<1> HIDE DEF F
<1>7. IsFlat(F, s)
  BY <1>4, <1>5, <1>6 DEF IsFlat
<1> QED
  BY <1>7 DEF Flat

\* Each of them begins those that follow.
Concats(F, s, n, A) ==
    /\ F[0] = <<>>
    /\ \A k \in 0..n - 1 : F[k + 1] = F[k] \o s[k + 1] /\ s[k + 1] \in Seq(A)

Begins(F, s, n, A) ==
    /\ \A k \in 0..n : F[k] \in Seq(A)
    /\ \A k \in 0..n - 1 : Len(F[k + 1]) = Len(F[k]) + Len(s[k + 1])
    /\ \A k \in 0..n : /\ Len(F[k]) <= Len(F[n])
                       /\ \A z \in 1..Len(F[k]) : F[n][z] = F[k][z]

\* Concatenations, one longer than the other, by induction over their number.
LEMMA FlatPrefixes ==
    ASSUME NEW A, NEW n \in Nat, NEW s, NEW F, Concats(F, s, n, A)
    PROVE  Begins(F, s, n, A)
<1>0. /\ F[0] = <<>>
      /\ \A k \in 0..n - 1 : F[k + 1] = F[k] \o s[k + 1]
      /\ \A k \in 0..n - 1 : s[k + 1] \in Seq(A)
  BY DEF Concats
<1> DEFINE T == {k \in 0..n : F[k] \in Seq(A)}
<1>1. 0..n \subseteq T
  <2>1. 0 \in T
    <3>1. F[0] \in Seq(A)
      BY <1>0
    <3>2. 0 \in 0..n
      OBVIOUS
    <3> QED BY <3>1, <3>2
  <2>2. ASSUME NEW k \in 0..n - 1, k \in T PROVE k + 1 \in T
    <3>1. F[k] \in Seq(A) /\ F[k + 1] = F[k] \o s[k + 1] /\ s[k + 1] \in Seq(A)
      BY <1>0, <2>2
    <3>2. F[k + 1] \in Seq(A)
      BY <3>1
    <3> QED BY <3>2
  <2> HIDE DEF T
  <2> QED BY <2>1, <2>2, UpTo
<1>2. \A k \in 0..n : F[k] \in Seq(A)
  BY <1>1
<1>3. ASSUME NEW k \in 0..n - 1
      PROVE  /\ Len(F[k + 1]) = Len(F[k]) + Len(s[k + 1])
             /\ \A z \in 1..Len(F[k]) : F[k + 1][z] = F[k][z]
  <2>1. k \in 0..n
    OBVIOUS
  <2>2. F[k] \in Seq(A)
    BY <1>2, <2>1
  <2>3. F[k + 1] = F[k] \o s[k + 1] /\ s[k + 1] \in Seq(A)
    BY <1>0
  <2>4. \A u, v \in Seq(A) : /\ Len(u \o v) = Len(u) + Len(v)
                            /\ \A z \in 1..Len(u) : (u \o v)[z] = u[z]
    OBVIOUS
  <2>5. PICK u, v : u = F[k] /\ v = s[k + 1]
    OBVIOUS
  <2>6. /\ Len(u \o v) = Len(u) + Len(v)
        /\ \A z \in 1..Len(u) : (u \o v)[z] = u[z]
    BY <2>2, <2>3, <2>4, <2>5
  <2> QED BY <2>3, <2>5, <2>6
<1>4. ASSUME NEW k \in 0..n
      PROVE  Len(F[k]) <= Len(F[n]) /\ \A z \in 1..Len(F[k]) : F[n][z] = F[k][z]
  <2> DEFINE Starts(m) == Len(F[k]) <= Len(F[m]) /\ \A z \in 1..Len(F[k]) : F[m][z] = F[k][z]
             U == {d \in 0..n - k : Starts(k + d)}
  <2>1. 0 \in U
    <3>1. Len(F[k]) \in Nat
      BY <1>2
    <3>2. k + 0 = k /\ 0 \in 0..n - k
      OBVIOUS
    <3>3. Starts(k)
      BY <3>1
    <3> QED BY <3>2, <3>3
  <2>2. ASSUME NEW d \in 0..(n - k) - 1, d \in U PROVE d + 1 \in U
    <3>1. PICK m : m = k + d
      OBVIOUS
    <3>2. m \in 0..n - 1 /\ k + (d + 1) = m + 1 /\ d + 1 \in 0..n - k /\ m \in 0..n /\ m + 1 \in 0..n
      BY <3>1
    <3>3. Starts(m)
      BY <2>2, <3>1
    <3>4. /\ Len(F[m + 1]) = Len(F[m]) + Len(s[m + 1])
          /\ \A z \in 1..Len(F[m]) : F[m + 1][z] = F[m][z]
      BY <1>3, <3>2
    <3>5. Len(F[k]) \in Nat /\ Len(F[m]) \in Nat /\ Len(s[m + 1]) \in Nat
      BY <1>2, <3>2
    <3>6. Starts(m + 1)
      <4>1. PICK x, y, t, r : x = Len(F[k]) /\ y = Len(F[m]) /\ t = Len(s[m + 1]) /\ r = Len(F[m + 1])
        OBVIOUS
      <4>2. x \in Nat /\ y \in Nat /\ t \in Nat /\ x <= y /\ r = y + t
        BY <3>3, <3>4, <3>5, <4>1
      <4>3. x <= r /\ 1..x \subseteq 1..y
        BY <4>2
      <4>4. \A z \in 1..x : F[m + 1][z] = F[k][z]
        BY <3>3, <3>4, <4>1, <4>3
      <4> QED BY <4>1, <4>3, <4>4
    <3> HIDE DEF Starts
    <3> QED BY <3>2, <3>6
  <2>3. n - k \in Nat /\ n - k \in 0..n - k /\ k + (n - k) = n
    OBVIOUS
  <2>4. n - k \in U
    <3> HIDE DEF U
    <3>1. 0..n - k \subseteq U
      BY <2>1, <2>2, <2>3, UpTo
    <3> QED BY <2>3, <3>1
  <2>5. Starts(n)
    BY <2>3, <2>4
  <2> QED BY <2>5
<1> QED
  BY <1>2, <1>3, <1>4 DEF Begins

\* The sequences keep their places.
LEMMA Flats ==
    ASSUME NEW A, NEW s \in Seq(Seq(A))
    PROVE  /\ \A k \in 0..Len(s) : Flat(s)[k] \in Seq(A)
           /\ Flat(s)[0] = <<>>
           /\ Flat(s)[Len(s)] = FlattenSeq(s)
           /\ \A k \in 0..Len(s) - 1 :
                 /\ Flat(s)[k + 1] = Flat(s)[k] \o s[k + 1]
                 /\ Len(Flat(s)[k + 1]) = Len(Flat(s)[k]) + Len(s[k + 1])
           /\ \A k \in 0..Len(s) : Len(Flat(s)[k]) <= Len(FlattenSeq(s))
           /\ \A k \in 0..Len(s) - 1 : \A j \in 1..Len(s[k + 1]) :
                 FlattenSeq(s)[Len(Flat(s)[k]) + j] = s[k + 1][j]
<1>0. PICK n : n = Len(s)
  OBVIOUS
<1>1. PICK F : F = Flat(s)
  OBVIOUS
<1>2. n \in Nat /\ \A k \in 1..n : s[k] \in Seq(A)
  BY <1>0
<1>3. /\ F[0] = <<>>
      /\ \A k \in 1..n : F[k] = F[k - 1] \o s[k]
      /\ F[n] = FlattenSeq(s)
  BY <1>0, <1>1, FlatIs DEF IsFlat
<1>4. ASSUME NEW k \in 0..n - 1
      PROVE  F[k + 1] = F[k] \o s[k + 1] /\ s[k + 1] \in Seq(A)
  <2>1. PICK m : m = k + 1
    OBVIOUS
  <2>2. m \in 1..n /\ m - 1 = k
    BY <1>2, <2>1
  <2>3. F[m] = F[m - 1] \o s[m] /\ s[m] \in Seq(A)
    BY <1>2, <1>3, <2>2
  <2> QED BY <2>1, <2>2, <2>3
<1>5. /\ \A k \in 0..n : F[k] \in Seq(A)
      /\ \A k \in 0..n - 1 : Len(F[k + 1]) = Len(F[k]) + Len(s[k + 1])
      /\ \A k \in 0..n : /\ Len(F[k]) <= Len(F[n])
                         /\ \A z \in 1..Len(F[k]) : F[n][z] = F[k][z]
  <2>1. Concats(F, s, n, A)
    BY <1>3, <1>4 DEF Concats
  <2>2. Begins(F, s, n, A)
    BY <1>2, <2>1, FlatPrefixes
  <2> QED BY <2>2 DEF Begins
<1>6. ASSUME NEW k \in 0..n - 1, NEW j \in 1..Len(s[k + 1])
      PROVE  F[n][Len(F[k]) + j] = s[k + 1][j]
  <2>1. PICK m : m = k + 1
    OBVIOUS
  <2>2. PICK u, v, w : u = F[k] /\ v = s[m] /\ w = F[m]
    OBVIOUS
  <2>3. u \in Seq(A) /\ v \in Seq(A) /\ w = u \o v /\ m \in 0..n /\ j \in 1..Len(v)
    <3>1. F[k] \in Seq(A) /\ k \in 0..n /\ m \in 0..n
      BY <1>2, <1>5, <2>1
    <3>2. F[m] = F[k] \o s[m] /\ s[m] \in Seq(A)
      BY <1>4, <2>1
    <3> QED BY <2>1, <2>2, <3>1, <3>2
  <2>4. Len(u) + j \in 1..Len(w) /\ w[Len(u) + j] = v[j]
    BY <2>3
  <2>5. F[n][Len(u) + j] = w[Len(u) + j]
    BY <1>5, <2>2, <2>3, <2>4
  <2> QED BY <2>1, <2>2, <2>4, <2>5
<1> QED
  BY <1>0, <1>1, <1>3, <1>4, <1>5, <1>6
-----------------------------------------------------------------------------
(***************************************************************************)
(* Division.                                                               *)
(***************************************************************************)
LEMMA DivMod ==
    ASSUME NEW v \in Nat, NEW m \in Nat \ {0}
    PROVE  /\ v \div m \in Nat /\ v % m \in Nat /\ v % m < m
           /\ m * (v \div m) + (v % m) = v
OBVIOUS

\* Multiples of m are at least m apart.
LEMMA Multiple ==
    ASSUME NEW m \in Nat, NEW p \in Nat, NEW q \in Nat, p < q
    PROVE  m * p + m <= m * q
<1>1. PICK z \in Nat : q = p + 1 + z
  <2>1. q - p - 1 \in Nat /\ q = p + 1 + (q - p - 1)
    OBVIOUS
  <2> QED BY <2>1
<1>2. m * q = m * p + m + m * z
  BY <1>1
<1>3. m * z \in Nat /\ m * p \in Nat
  OBVIOUS
<1> QED
  BY <1>2, <1>3

\* A quotient is determined by a remainder that is small enough.
LEMMA DivUnique ==
    ASSUME NEW v \in Nat, NEW m \in Nat \ {0}, NEW p \in Nat, NEW x \in Nat, x < m, v = m * p + x
    PROVE  v \div m = p
<1>1. PICK q, y : q = v \div m /\ y = v % m
  OBVIOUS
<1>2. q \in Nat /\ y \in Nat /\ y < m /\ v = m * q + y
  BY <1>1, DivMod
<1>3. m * p \in Nat /\ m * q \in Nat
  BY <1>2
<1>4. ~(p < q)
  BY <1>2, <1>3, Multiple
<1>5. ~(q < p)
  BY <1>2, <1>3, Multiple
<1> QED
  BY <1>1, <1>2, <1>4, <1>5

\* One more digit: the quotient by the next weight.
Quotients(v, m, b, w) ==
    /\ v \div m \in Nat
    /\ w \in Nat \ {0}
    /\ (v \div m) \div b = v \div w
    /\ v \div m < b <=> v < w
    /\ v \div m = 0 <=> v < m

\* The quotients by a weight and by the next one.
LEMMA DivNext ==
    ASSUME NEW v \in Nat, NEW m \in Nat \ {0}, NEW b \in {10, 16}, NEW w, w = m * b
    PROVE  Quotients(v, m, b, w)
<1>1. PICK q, x : q = v \div m /\ x = v % m
  OBVIOUS
<1>2. q \in Nat /\ x \in Nat /\ x < m /\ v = m * q + x
  BY <1>1, DivMod
<1>3. PICK p, y : p = q \div b /\ y = q % b
  OBVIOUS
<1>4. p \in Nat /\ y \in Nat /\ y < b /\ q = b * p + y
  BY <1>2, <1>3
<1>5. w \in Nat \ {0}
  OBVIOUS
<1>6. v \div w = p
  <2>1. m * q = w * p + m * y
    BY <1>4
  <2>2. m * y \in Nat /\ w * p \in Nat
    BY <1>4, <1>5
  <2>3. m * y + m <= w
    BY <1>4, Multiple
  <2>4. PICK z : z = m * y + x
    OBVIOUS
  <2>5. z \in Nat /\ z < w
    BY <1>2, <1>5, <2>2, <2>3, <2>4
  <2>6. v = w * p + z
    BY <1>2, <2>1, <2>2, <2>4
  <2> QED BY <1>4, <1>5, <2>5, <2>6, DivUnique
<1>7. q < b <=> v < w
  <2>1. m * q \in Nat
    BY <1>2
  <2>2. q < b => m * q + m <= w
    BY <1>2, Multiple
  <2>3. ~(q < b) => w <= m * q
    <3>1. b < q => w + m <= m * q
      BY <1>2, Multiple
    <3> QED BY <1>2, <1>5, <2>1, <3>1
  <2> QED BY <1>2, <1>5, <2>1, <2>2, <2>3
<1>8. q = 0 <=> v < m
  <2>1. 0 < q => m * 0 + m <= m * q
    BY <1>2, Multiple
  <2>2. m * 0 = 0 /\ m * q \in Nat
    BY <1>2
  <2> QED BY <1>2, <2>1, <2>2
<1> QED
  BY <1>1, <1>2, <1>3, <1>5, <1>6, <1>7, <1>8 DEF Quotients
-----------------------------------------------------------------------------
(***************************************************************************)
(* Numerals.                                                               *)
(***************************************************************************)
LEMMA MinLeast ==
    ASSUME NEW I, I \subseteq Nat, NEW x \in I, \A y \in I : x <= y
    PROVE  Min(I) = x
<1>1. Min(I) \in I /\ \A y \in I : Min(I) <= y
  BY DEF Min
<1>2. Min(I) <= x /\ x <= Min(I) /\ x \in Nat /\ Min(I) \in Nat
  BY <1>1
<1> QED
  BY <1>2

\* The weights grow.
LEMMA Ascending ==
    ASSUME NEW f, NEW t \in 0..SIZE(f)
    PROVE  \A k \in 0..t : Weight(f)[k] <= Weight(f)[t]
<1> DEFINE w == Weight(f)
           T == {m \in 0..SIZE(f) : \A k \in 0..m : w[k] <= w[m]}
<1>0. SIZE(f) \in Nat /\ Base(f) \in {10, 16}
  BY BaseIs
<1>1. /\ \A k \in 0..SIZE(f) : w[k] \in Nat \ {0}
      /\ \A k \in 0..SIZE(f) - 1 : w[k + 1] = w[k] * Base(f)
  BY Weights
<1> HIDE DEF w
<1>2. 0 \in T
  <2>1. w[0] \in Nat
    BY <1>0, <1>1
  <2> QED BY <1>0, <2>1
<1>3. ASSUME NEW m \in 0..SIZE(f) - 1, m \in T PROVE m + 1 \in T
  <2>1. m + 1 \in 0..SIZE(f) /\ m \in 0..SIZE(f)
    BY <1>0
  <2>2. w[m] \in Nat /\ w[m + 1] \in Nat /\ w[m] <= w[m + 1]
    BY <1>0, <1>1, <2>1
  <2>3. ASSUME NEW k \in 0..m + 1 PROVE w[k] <= w[m + 1]
    <3>1. CASE k = m + 1
      BY <2>2, <3>1
    <3>2. CASE k \in 0..m
      <4>0. k \in 0..SIZE(f)
        BY <1>0, <3>2
      <4>1. w[k] <= w[m]
        BY <1>3, <3>2
      <4>2. w[k] \in Nat
        BY <4>0, <1>1
      <4> QED BY <2>2, <4>1, <4>2
    <3> QED BY <1>0, <3>1, <3>2
  <2> QED BY <2>1, <2>3
<1>4. 0..SIZE(f) \subseteq T
  <2> HIDE DEF T
  <2> QED BY <1>0, <1>2, <1>3, UpTo
<1> QED
  BY <1>4 DEF w

DigitOf(f, v, k) == (v \div Weight(f)[k]) % Base(f)

\* Digits lie below the base.
LEMMA Digits ==
    ASSUME NEW f, NEW v \in Nat, NEW k \in 0..SIZE(f)
    PROVE  v \div Weight(f)[k] \in Nat /\ DigitOf(f, v, k) \in 0..Base(f) - 1
<1>1. Weight(f)[k] \in Nat \ {0} /\ Base(f) \in {10, 16}
  BY Weights, BaseIs
<1>2. v \div Weight(f)[k] \in Nat
  BY <1>1, DivMod
<1>3. \A q \in Nat : q % Base(f) \in 0..Base(f) - 1
  BY <1>1
<1> QED
  BY <1>2, <1>3 DEF DigitOf

\* A digit is printable, and looks the same in either function.
LEMMA Glyphs ==
    ASSUME NEW f \in {"d", "x"}, NEW d \in 0..Base(f) - 1
    PROVE  /\ Ascii(f, d) \in Printable
           /\ (IF d < 10 THEN d + 48 ELSE d + 87) = Ascii(f, d)
BY DEF Ascii, Base, Printable

\* A number with t + 1 digits.
Long(f, v, t) == v < Weight(f)[t + 1] /\ (t = 0 \/ Weight(f)[t] <= v)

\* The numeral of a number with t + 1 digits.
LEMMA NumeralIs ==
    ASSUME NEW f \in {"d", "x"}, NEW v \in Nat, NEW t \in 0..SIZE(f) - 1, Long(f, v, t)
    PROVE  /\ Numeral(f, v) \in Seq(Printable)
           /\ Len(Numeral(f, v)) = t + 1
           /\ \A z \in 1..t + 1 : Numeral(f, v)[z] = Ascii(f, DigitOf(f, v, t + 1 - z))
<1> DEFINE I == {k \in 1..SIZE(f) : v < Weight(f)[k]}
           g == [z \in 1..t + 1 |-> Ascii(f, DigitOf(f, v, t + 1 - z))]
<1>0. SIZE(f) \in Nat /\ t \in Nat /\ t + 1 \in 1..SIZE(f) /\ t \in 0..SIZE(f)
  BY BaseIs
<1>1. \A k \in 0..SIZE(f) : Weight(f)[k] \in Nat
  BY Weights
<1>2. Min(I) = t + 1
  <2>1. t + 1 \in I
    BY <1>0 DEF Long
  <2>2. ASSUME NEW k \in I PROVE t + 1 <= k
    <3> SUFFICES ASSUME k < t + 1 PROVE FALSE
      BY <1>0
    <3>1. k \in 0..t /\ t # 0 /\ k \in 0..SIZE(f)
      BY <1>0
    <3>2. Weight(f)[k] <= Weight(f)[t] /\ Weight(f)[t] <= v
      BY <1>0, <3>1, Ascending DEF Long
    <3> QED BY <1>0, <1>1, <3>1, <3>2
  <2>3. I \subseteq Nat
    BY <1>0
  <2> HIDE DEF I
  <2> QED BY <2>1, <2>2, <2>3, MinLeast
<1>3. ASSUME NEW z \in 1..t + 1
      PROVE  /\ Ascii(f, DigitOf(f, v, t + 1 - z)) \in Printable
             /\ LET d == (v \div Weight(f)[t + 1 - z]) % Base(f)
                IN  (IF d < 10 THEN d + 48 ELSE d + 87) = Ascii(f, DigitOf(f, v, t + 1 - z))
  <2>1. t + 1 - z \in 0..SIZE(f)
    BY <1>0
  <2>2. DigitOf(f, v, t + 1 - z) \in 0..Base(f) - 1
    BY <2>1, Digits
  <2> QED BY <2>2, Glyphs DEF DigitOf
<1>4. Numeral(f, v) = g
  <2>1. Numeral(f, v) = [z \in 1..t + 1 |->
           LET d == (v \div Weight(f)[t + 1 - z]) % Base(f)
           IN  IF d < 10 THEN d + 48 ELSE d + 87]
    BY <1>2 DEF Numeral
  <2> QED BY <1>3, <2>1
<1>5. g \in [1..t + 1 -> Printable]
  BY <1>3
<1> HIDE DEF g
<1>6. g \in Seq(Printable) /\ Len(g) = t + 1
  BY <1>0, <1>5
<1> QED
  BY <1>4, <1>6 DEF g

\* Every value of an integer has a numeral.
LEMMA HasNumeral ==
    ASSUME NEW f \in {"d", "x"}, NEW v \in 0..WORD - 1
    PROVE  \E t \in 0..SIZE(f) - 1 : Long(f, v, t)
<1> DEFINE I == {k \in Nat : k + 1 \in 1..SIZE(f) /\ v < Weight(f)[k + 1]}
<1>0. SIZE(f) \in Nat \ {0} /\ v \in Nat /\ WORD \in Nat
  BY BaseIs, KprintAssumption
<1>1. \A k \in 0..SIZE(f) : Weight(f)[k] \in Nat
  BY Weights
<1>2. v < Weight(f)[SIZE(f)]
  <2>1. WORD <= Weight(f)[SIZE(f)]
    BY KprintAssumption DEF SIZE
  <2>2. Weight(f)[SIZE(f)] \in Nat
    BY <1>0, <1>1
  <2> QED BY <1>0, <2>1, <2>2
<1>3. SIZE(f) - 1 \in I
  <2>1. SIZE(f) - 1 \in Nat /\ (SIZE(f) - 1) + 1 = SIZE(f) /\ SIZE(f) \in 1..SIZE(f)
    BY <1>0
  <2> QED BY <1>2, <2>1
<1>4. PICK t \in I : \A y \in I : t <= y
  <2>1. I \subseteq Nat /\ I # {}
    BY <1>3
  <2> HIDE DEF I
  <2> QED BY <2>1, Least
<1>5. t \in 0..SIZE(f) - 1 /\ v < Weight(f)[t + 1]
  BY <1>0
<1>6. t = 0 \/ Weight(f)[t] <= v
  <2> SUFFICES ASSUME t # 0, ~(Weight(f)[t] <= v) PROVE FALSE
    OBVIOUS
  <2>1. Weight(f)[t] \in Nat /\ t - 1 \in Nat /\ (t - 1) + 1 = t /\ t \in 1..SIZE(f)
    BY <1>0, <1>1, <1>5
  <2>2. v < Weight(f)[t]
    BY <1>0, <2>1
  <2>3. t - 1 \in I
    BY <2>1, <2>2
  <2>4. t <= t - 1
    BY <1>4, <2>3
  <2> QED BY <2>1, <2>4
<1> QED
  BY <1>5, <1>6 DEF Long
-----------------------------------------------------------------------------
(***************************************************************************)
(* The tokens of a call, and where they lie in its format, its arguments   *)
(* and what it is to print.                                                *)
(***************************************************************************)
Values == Printable \cup Seq(Printable) \cup (0..WORD - 1)

IsCall(c) == c \in Seq(ToSet(c)) /\ \A k \in DOMAIN c : IsToken(c[k])

Texts(c) == [k \in DOMAIN c |-> c[k].text]
Taken(c) == [k \in DOMAIN c |-> c[k].arg]
Shown(token) == Expanded(token, 103)
Meant(c) == [k \in DOMAIN c |-> Shown(c[k])]

\* Where the sequence after the first k begins, from 0.
Start(s, k) == Len(Flat(s)[k])

\* Where the sequences that FlattenSeq joins begin, and what lies there.
LEMMA Starts ==
    ASSUME NEW A, NEW s \in Seq(Seq(A))
    PROVE  /\ FlattenSeq(s) \in Seq(A)
           /\ Start(s, 0) = 0
           /\ Start(s, Len(s)) = Len(FlattenSeq(s))
           /\ \A k \in 0..Len(s) : Start(s, k) \in Nat /\ Start(s, k) <= Len(FlattenSeq(s))
           /\ \A k \in 0..Len(s) - 1 :
                 /\ Start(s, k + 1) = Start(s, k) + Len(s[k + 1])
                 /\ \A j \in 1..Len(s[k + 1]) : FlattenSeq(s)[Start(s, k) + j] = s[k + 1][j]
<1>1. PICK F : F = Flat(s)
  OBVIOUS
<1>2. PICK n : n = Len(s)
  OBVIOUS
<1>3. n \in Nat /\ 0 \in 0..n /\ n \in 0..n
  BY <1>2
<1>4. /\ \A k \in 0..n : F[k] \in Seq(A)
      /\ F[0] = <<>>
      /\ F[n] = FlattenSeq(s)
      /\ \A k \in 0..n - 1 : Len(F[k + 1]) = Len(F[k]) + Len(s[k + 1])
      /\ \A k \in 0..n : Len(F[k]) <= Len(FlattenSeq(s))
      /\ \A k \in 0..n - 1 : \A j \in 1..Len(s[k + 1]) :
            FlattenSeq(s)[Len(F[k]) + j] = s[k + 1][j]
  BY <1>1, <1>2, Flats
<1>5. \A k \in 0..n : Len(F[k]) \in Nat
  BY <1>4
<1>6. FlattenSeq(s) \in Seq(A) /\ Len(F[0]) = 0
  BY <1>3, <1>4
<1> QED
  BY <1>1, <1>2, <1>4, <1>5, <1>6 DEF Start

\* The characters of the directives.
LEMMA DirectivesAre ==
    /\ DOMAIN Directives = {"c", "s", "d", "x", "p"}
    /\ Directives["c"] = 99 /\ Directives["s"] = 115 /\ Directives["d"] = 100
    /\ Directives["x"] = 120 /\ Directives["p"] = 112
    /\ \A ch : Takes(ch) <=> ch \in {99, 115, 100, 120, 112}
<1>1. /\ DOMAIN Directives = {"c", "s", "d", "x", "p"}
      /\ Directives["c"] = 99 /\ Directives["s"] = 115 /\ Directives["d"] = 100
      /\ Directives["x"] = 120 /\ Directives["p"] = 112
  BY DEF Directives
<1> QED
  BY <1>1 DEF Takes

\* What is printed for a token: "g" for kprint_x's digit 16, else what was meant.
LEMMA ShownIs ==
    ASSUME NEW token
    PROVE  /\ ~Misprinted(token) => Shown(token) = Meaning(token)
           /\ token.kind \notin {"x", "p"} => Shown(token) = Meaning(token)
           /\ Misprinted(token) =>
                 Shown(token) = Append(IF token.kind = "p" THEN HexPrefix ELSE <<>>, 103)
BY DEF Shown, Expanded, Misprinted

\* A token's text, its argument and what is printed for it.
LEMMA Tokens ==
    ASSUME NEW token, IsToken(token)
    PROVE  /\ token.text \in Seq(Printable) /\ Len(token.text) > 0
           /\ token.arg \in Seq(Values)
           /\ Shown(token) \in Seq(Printable)
<1>1. token.text \in Seq(Printable) /\ Len(token.text) > 0
  <2>1. CASE token.kind = "text" /\ token.text \in Seq(Printable \ {Percent}) /\ token.text # <<>>
    <3>1. Len(token.text) # 0
      BY <2>1, EmptySeq
    <3> QED BY <2>1, <3>1
  <2>2. CASE \E ch \in Printable : token.text = <<Percent, ch>>
    BY <2>2 DEF Printable, Percent
  <2>3. CASE token.kind \in DOMAIN Directives /\ token.text = <<Percent, Directives[token.kind]>>
    <3>1. Directives[token.kind] \in Printable
      BY <2>3, DirectivesAre DEF Printable
    <3> QED BY <2>3, <3>1 DEF Printable, Percent
  <2>4. Percent \in Printable
    BY DEF Percent, Printable
  <2> QED BY <2>1, <2>2, <2>3, <2>4 DEF IsToken
<1>2. token.arg \in Seq(Values)
  <2>1. ArgumentOf(token.kind) \subseteq Values
    BY DEF ArgumentOf, Values
  <2>2. ASSUME NEW A, A \subseteq Values, NEW u \in Seq(A) PROVE u \in Seq(Values)
    BY <2>2
  <2>3. token.arg = <<>> \/ token.arg \in Seq(ArgumentOf(token.kind))
    BY DEF IsToken
  <2>4. <<>> \in Seq(Values)
    OBVIOUS
  <2>5. CASE token.arg \in Seq(ArgumentOf(token.kind))
    BY <2>1, <2>2, <2>5
  <2> QED BY <2>3, <2>4, <2>5
<1>3. Meaning(token) \in Seq(Printable)
  <2>1. CASE token.kind = "text" \/ token.kind = "percent" \/ token.kind = "unsupported"
    <3>1. <<Percent>> \in Seq(Printable) /\ Unsupported \in Seq(Printable)
      BY DEF Percent, Unsupported, Printable
    <3>2. Meaning(token) \in {token.text, <<Percent>>, Unsupported}
      BY <2>1, DirectivesAre DEF Meaning
    <3> QED BY <1>1, <3>1, <3>2
  <2>2. CASE token.kind \in DOMAIN Directives
    <3>1. token.arg \in Seq(ArgumentOf(token.kind)) /\ Len(token.arg) = 1
      BY <2>2, DirectivesAre DEF IsToken
    <3>2. token.arg[1] \in ArgumentOf(token.kind)
      BY <3>1
    <3>3. CASE token.kind = "c"
      BY <3>1, <3>3 DEF Meaning, ArgumentOf
    <3>4. CASE token.kind = "s"
      BY <3>2, <3>4 DEF Meaning, ArgumentOf
    <3>5. CASE token.kind \in {"d", "x", "p"}
      <4>1. token.arg[1] \in 0..WORD - 1 /\ token.arg[1] \in Nat
        BY <3>2, <3>5, KprintAssumption DEF ArgumentOf
      <4>2. \A f \in {"d", "x"} : Numeral(f, token.arg[1]) \in Seq(Printable)
        BY <4>1, HasNumeral, NumeralIs
      <4>3. HexPrefix \in Seq(Printable)
        BY DEF HexPrefix, Printable
      <4>4. \/ Meaning(token) = Numeral("d", token.arg[1])
            \/ Meaning(token) = Numeral("x", token.arg[1])
            \/ Meaning(token) = HexPrefix \o Numeral("x", token.arg[1])
        BY <3>5 DEF Meaning
      <4>5. \A u, v \in Seq(Printable) : u \o v \in Seq(Printable)
        OBVIOUS
      <4> QED BY <4>2, <4>3, <4>4, <4>5
    <3> QED BY <2>2, <3>3, <3>4, <3>5, DirectivesAre
  <2> QED BY <2>1, <2>2 DEF IsToken
<1>4. CASE Misprinted(token)
  <2>1. HexPrefix \in Seq(Printable) /\ <<>> \in Seq(Printable) /\ 103 \in Printable
    BY DEF HexPrefix, Printable
  <2>2. \A u \in Seq(Printable) : Append(u, 103) \in Seq(Printable)
    BY <2>1
  <2>3. Shown(token) \in {Append(HexPrefix, 103), Append(<<>>, 103)}
    BY <1>4, ShownIs
  <2> QED BY <1>1, <1>2, <2>1, <2>2, <2>3
<1>5. CASE ~Misprinted(token)
  BY <1>1, <1>2, <1>3, <1>5, ShownIs
<1> QED
  BY <1>4, <1>5

\* The texts, arguments and meanings of a call's tokens are sequences.
LEMMA CallSequences ==
    ASSUME NEW c, IsCall(c)
    PROVE  /\ Len(c) \in Nat /\ DOMAIN c = 1..Len(c)
           /\ Texts(c) \in Seq(Seq(Printable)) /\ Len(Texts(c)) = Len(c)
           /\ Taken(c) \in Seq(Seq(Values)) /\ Len(Taken(c)) = Len(c)
           /\ Meant(c) \in Seq(Seq(Printable)) /\ Len(Meant(c)) = Len(c)
           /\ \A k \in 1..Len(c) : /\ Texts(c)[k] = c[k].text
                                   /\ Taken(c)[k] = c[k].arg
                                   /\ Meant(c)[k] = Shown(c[k])
<1>1. Len(c) \in Nat /\ DOMAIN c = 1..Len(c)
  BY DEF IsCall
<1>2. \A k \in 1..Len(c) : IsToken(c[k])
  BY <1>1 DEF IsCall
<1>3. \A k \in 1..Len(c) : /\ c[k].text \in Seq(Printable)
                           /\ c[k].arg \in Seq(Values)
                           /\ Shown(c[k]) \in Seq(Printable)
  BY <1>2, Tokens
<1>4. /\ Texts(c) \in [1..Len(c) -> Seq(Printable)]
      /\ Taken(c) \in [1..Len(c) -> Seq(Values)]
      /\ Meant(c) \in [1..Len(c) -> Seq(Printable)]
  BY <1>1, <1>3 DEF Texts, Taken, Meant
<1>5. \A A, g : g \in [1..Len(c) -> A] => g \in Seq(A) /\ Len(g) = Len(c)
  BY <1>1
<1> QED
  BY <1>1, <1>4, <1>5 DEF Texts, Taken, Meant
-----------------------------------------------------------------------------
(***************************************************************************)
(* The invariant of kprintf's loop and of the two loops of a number.       *)
(***************************************************************************)
Expansion(c) == FlattenSeq(Meant(c))

\* The first n characters of what was meant are printed.
Prints(n) ==
    /\ n \in 0..Len(Expansion(call))
    /\ printed = SubSeq(Expansion(call), 1, n)

\* The first k tokens' arguments are taken.
Remains(k) ==
    args = SubSeq(Arguments(call), Start(Taken(call), k) + 1, Len(Arguments(call)))

KprintTypes ==
    /\ IsCall(call)
    /\ index \in Nat
    /\ printed \in Seq(Printable)
    /\ pc \in {"format", "fill", "print", "done"}
    /\ value \in 0..WORD - 1 /\ place \in 0..WORD - 1

\* kprintf stands after k tokens, and in a text after j characters of it.
Formatting ==
    \E k \in 0..Len(call), j \in 0..index :
        /\ index = Start(Texts(call), k) + j
        /\ j > 0 => k < Len(call) /\ call[k + 1].kind = "text" /\ j < Len(call[k + 1].text)
        /\ Remains(k)
        /\ Prints(Start(Meant(call), k) + j)

\* A number's function, and the length of what is printed before it.
Form(token) == IF token.kind = "d" THEN "d" ELSE "x"
Lead(token) == IF token.kind = "p" THEN 2 ELSE 0

\* The token after the first k is a number, of which n digits are printed.
Inside(k, n) ==
    /\ conv = Form(call[k + 1]) /\ ~Misprinted(call[k + 1])
    /\ index = Start(Texts(call), k + 1)
    /\ Remains(k + 1)
    /\ Prints(Start(Meant(call), k) + Lead(call[k + 1]) + n)

\* The array holds v's digits for the lowest t weights.
Kept(v, t) ==
    /\ DOMAIN digits = 0..SIZE(conv) - 1
    /\ \A z \in 0..t - 1 : digits[SIZE(conv) - 1 - z] = DigitOf(conv, v, z)

Filling ==
    \E k \in 0..Len(call) - 1, t \in 0..SIZE(conv) - 1 :
        /\ call[k + 1].kind \in {"d", "x", "p"}
        /\ Kept(call[k + 1].arg[1], t)
        /\ value = call[k + 1].arg[1] \div Weight(conv)[t]
        /\ \/ value >= Base(conv) /\ place = SIZE(conv) - 1 - t /\ Inside(k, 0)
           \/ value \in 1..Base(conv) - 1 /\ t > 0 /\ place = SIZE(conv) - t /\ Inside(k, 1)

Printing ==
    \E k \in 0..Len(call) - 1, t \in 1..SIZE(conv) - 1 :
        /\ call[k + 1].kind \in {"d", "x", "p"}
        /\ Kept(call[k + 1].arg[1], t)
        /\ Long(conv, call[k + 1].arg[1], t)
        /\ place \in SIZE(conv) - t..SIZE(conv)
        /\ Inside(k, 1 + (place - (SIZE(conv) - t)))

KprintInv ==
    /\ KprintTypes
    /\ pc = "format" => Formatting
    /\ pc = "fill" => Filling
    /\ pc = "print" => Printing
    /\ pc = "done" => args = <<>> /\ printed = Expansion(call)
-----------------------------------------------------------------------------
(***************************************************************************)
(* What a step adds to the output and takes from the arguments.            *)
(***************************************************************************)
LEMMA Extends ==
    ASSUME NEW A, NEW out \in Seq(A), NEW n \in Nat, NEW s \in Seq(A), n + Len(s) <= Len(out),
           \A z \in 1..Len(s) : out[n + z] = s[z]
    PROVE  SubSeq(out, 1, n) \o s = SubSeq(out, 1, n + Len(s))
<1>1. PICK p, q, r : p = SubSeq(out, 1, n) /\ r = SubSeq(out, 1, n + Len(s)) /\ q = p \o s
  OBVIOUS
<1>2. PICK d : d = Len(s)
  OBVIOUS
<1>3. d \in Nat /\ n + d <= Len(out) /\ Len(out) \in Nat
  BY <1>2
<1>4. p \in Seq(A) /\ Len(p) = n /\ \A z \in 1..n : p[z] = out[z]
  BY <1>1, <1>3
<1>5. r \in Seq(A) /\ Len(r) = n + d /\ \A z \in 1..n + d : r[z] = out[z]
  BY <1>1, <1>2, <1>3
<1>6. q \in Seq(A) /\ Len(q) = n + d
  BY <1>1, <1>2, <1>4
<1>7. ASSUME NEW z \in 1..n + d PROVE q[z] = r[z]
  <2>1. CASE z \in 1..n
    BY <1>1, <1>3, <1>4, <1>5, <2>1
  <2>2. CASE z \notin 1..n
    <3>1. z - n \in 1..d /\ n + (z - n) = z
      BY <1>3, <2>2
    <3>2. q[z] = s[z - n]
      <4>1. z \in Len(p) + 1..Len(p) + Len(s) /\ Len(p) = n
        BY <1>2, <1>3, <1>4, <2>2
      <4>2. q[z] = s[z - Len(p)]
        BY <1>1, <1>4, <4>1
      <4> QED BY <4>1, <4>2
    <3> QED BY <1>2, <1>5, <3>1, <3>2
  <2> QED BY <2>1, <2>2
<1>8. q = r
  BY <1>3, <1>5, <1>6, <1>7, SeqEqual
<1> QED
  BY <1>1, <1>8

\* What a call is to print is printable.
LEMMA ExpansionIs ==
    ASSUME NEW c, IsCall(c)
    PROVE  Expansion(c) \in Seq(Printable) /\ Len(Expansion(c)) \in Nat
BY CallSequences, Starts DEF Expansion

\* A string is printed that was meant to follow.
LEMMA PrintsMore ==
    ASSUME IsCall(call), call' = call, NEW n, Prints(n), NEW s \in Seq(Printable),
           printed' = printed \o s, n + Len(s) <= Len(Expansion(call)),
           \A z \in 1..Len(s) : Expansion(call)[n + z] = s[z]
    PROVE  Prints(n + Len(s))'
<1>1. Expansion(call) \in Seq(Printable) /\ Len(Expansion(call)) \in Nat /\ Len(s) \in Nat
  BY ExpansionIs
<1>2. n \in Nat /\ n + Len(s) \in 0..Len(Expansion(call))
  BY <1>1 DEF Prints
<1>3. SubSeq(Expansion(call), 1, n) \o s = SubSeq(Expansion(call), 1, n + Len(s))
  BY <1>1, <1>2, Extends
<1>4. printed' = SubSeq(Expansion(call), 1, n + Len(s))
  BY <1>3 DEF Prints
<1> QED
  BY <1>2, <1>4 DEF Prints

\* A token's text in the format.
LEMMA TextPlaces ==
    ASSUME NEW c, IsCall(c), NEW k \in 0..Len(c) - 1
    PROVE  \A z \in 1..Len(c[k + 1].text) :
              FlattenSeq(Texts(c))[Start(Texts(c), k) + z] = c[k + 1].text[z]
<1>1. PICK s : s = Texts(c)
  OBVIOUS
<1>2. s \in Seq(Seq(Printable)) /\ Len(s) = Len(c) /\ Len(c) \in Nat
  BY <1>1, CallSequences
<1>3. k + 1 \in 1..Len(c)
  BY <1>2
<1>4. s[k + 1] = c[k + 1].text
  BY <1>1, <1>3, CallSequences
<1>5. \A j \in 1..Len(s[k + 1]) : FlattenSeq(s)[Start(s, k) + j] = s[k + 1][j]
  BY <1>2, Starts
<1> QED
  BY <1>1, <1>4, <1>5

\* Where the token after the first k lies.
LEMMA Places ==
    ASSUME NEW c, IsCall(c), NEW k \in 0..Len(c) - 1
    PROVE  /\ IsToken(c[k + 1])
           /\ Start(Texts(c), k) \in Nat
           /\ Start(Texts(c), k + 1) = Start(Texts(c), k) + Len(c[k + 1].text)
           /\ Start(Texts(c), k + 1) <= Len(FlattenSeq(Texts(c)))
           /\ Start(Taken(c), k) \in Nat
           /\ Start(Taken(c), k + 1) = Start(Taken(c), k) + Len(c[k + 1].arg)
           /\ Start(Taken(c), k + 1) <= Len(FlattenSeq(Taken(c)))
           /\ \A z \in 1..Len(c[k + 1].arg) :
                 FlattenSeq(Taken(c))[Start(Taken(c), k) + z] = c[k + 1].arg[z]
           /\ Start(Meant(c), k) \in Nat
           /\ Start(Meant(c), k + 1) = Start(Meant(c), k) + Len(Shown(c[k + 1]))
           /\ Start(Meant(c), k + 1) <= Len(Expansion(c))
           /\ \A z \in 1..Len(Shown(c[k + 1])) :
                 Expansion(c)[Start(Meant(c), k) + z] = Shown(c[k + 1])[z]
<1>1. PICK n : n = Len(c)
  OBVIOUS
<1>2. PICK m : m = k + 1
  OBVIOUS
<1>3. n \in Nat /\ DOMAIN c = 1..n
  BY <1>1, CallSequences
<1>4. k \in 0..n - 1 /\ k \in 0..n /\ m \in 0..n /\ m \in 1..n
  BY <1>1, <1>2, <1>3
<1>5. IsToken(c[m])
  BY <1>3, <1>4 DEF IsCall
<1>6. ASSUME NEW A, NEW s \in Seq(Seq(A)), Len(s) = n
      PROVE  /\ Start(s, k) \in Nat
             /\ Start(s, m) = Start(s, k) + Len(s[m])
             /\ Start(s, m) <= Len(FlattenSeq(s))
             /\ \A z \in 1..Len(s[m]) : FlattenSeq(s)[Start(s, k) + z] = s[m][z]
  BY <1>2, <1>4, <1>6, Starts
<1>7. /\ Texts(c) \in Seq(Seq(Printable)) /\ Len(Texts(c)) = n /\ Texts(c)[m] = c[m].text
      /\ Taken(c) \in Seq(Seq(Values)) /\ Len(Taken(c)) = n /\ Taken(c)[m] = c[m].arg
      /\ Meant(c) \in Seq(Seq(Printable)) /\ Len(Meant(c)) = n /\ Meant(c)[m] = Shown(c[m])
  BY <1>1, <1>4, CallSequences
<1>8. /\ Start(Texts(c), k) \in Nat
      /\ Start(Texts(c), m) = Start(Texts(c), k) + Len(c[m].text)
      /\ Start(Texts(c), m) <= Len(FlattenSeq(Texts(c)))
      /\ \A z \in 1..Len(c[m].text) : FlattenSeq(Texts(c))[Start(Texts(c), k) + z] = c[m].text[z]
  BY <1>6, <1>7
<1>9. /\ Start(Taken(c), k) \in Nat
      /\ Start(Taken(c), m) = Start(Taken(c), k) + Len(c[m].arg)
      /\ Start(Taken(c), m) <= Len(FlattenSeq(Taken(c)))
      /\ \A z \in 1..Len(c[m].arg) : FlattenSeq(Taken(c))[Start(Taken(c), k) + z] = c[m].arg[z]
  BY <1>6, <1>7
<1>10. /\ Start(Meant(c), k) \in Nat
       /\ Start(Meant(c), m) = Start(Meant(c), k) + Len(Shown(c[m]))
       /\ Start(Meant(c), m) <= Len(FlattenSeq(Meant(c)))
       /\ \A z \in 1..Len(Shown(c[m])) :
             FlattenSeq(Meant(c))[Start(Meant(c), k) + z] = Shown(c[m])[z]
  BY <1>6, <1>7
<1> QED
  BY <1>2, <1>5, <1>8, <1>9, <1>10 DEF Expansion

\* The arguments before and after a token that takes none, or one.
LEMMA TakesOne ==
    ASSUME IsCall(call), NEW k \in 0..Len(call) - 1, Remains(k)
    PROVE  /\ call[k + 1].arg = <<>> => Remains(k + 1)
           /\ Len(call[k + 1].arg) = 1 =>
                 /\ args[1] = call[k + 1].arg[1]
                 /\ Tail(args) = SubSeq(Arguments(call), Start(Taken(call), k + 1) + 1,
                                        Len(Arguments(call)))
<1>1. PICK a : a = Arguments(call)
  OBVIOUS
<1>2. PICK x, y : x = Start(Taken(call), k) /\ y = Start(Taken(call), k + 1)
  OBVIOUS
<1>3. a = FlattenSeq(Taken(call))
  BY <1>1 DEF Arguments, Taken
<1>4. a \in Seq(Values)
  BY <1>3, CallSequences, Starts
<1>5. /\ x \in Nat /\ y = x + Len(call[k + 1].arg) /\ y <= Len(a)
      /\ \A z \in 1..Len(call[k + 1].arg) : a[x + z] = call[k + 1].arg[z]
  BY <1>2, <1>3, Places
<1>6. args = SubSeq(a, x + 1, Len(a))
  BY <1>1, <1>2 DEF Remains
<1>7. ASSUME call[k + 1].arg = <<>> PROVE Remains(k + 1)
  <2>1. y = x
    BY <1>5, <1>7
  <2> QED BY <1>1, <1>2, <1>6, <2>1 DEF Remains
<1>8. ASSUME Len(call[k + 1].arg) = 1
      PROVE  args[1] = call[k + 1].arg[1] /\ Tail(args) = SubSeq(a, y + 1, Len(a))
  <2>1. y = x + 1 /\ x + 1 <= Len(a) /\ a[x + 1] = call[k + 1].arg[1] /\ Len(a) \in Nat
    BY <1>4, <1>5, <1>8
  <2>2. PICK n : n = Len(a) - x
    OBVIOUS
  <2>3. n \in Nat \ {0} /\ n = Len(a) - x
    BY <1>5, <2>1, <2>2
  <2>4. args \in Seq(Values) /\ Len(args) = n /\ \A z \in 1..n : args[z] = a[x + z]
    BY <1>4, <1>5, <1>6, <2>1, <2>3
  <2>5. PICK u, v : u = Tail(args) /\ v = SubSeq(a, y + 1, Len(a))
    OBVIOUS
  <2>6. u \in Seq(Values) /\ Len(u) = n - 1 /\ \A z \in 1..n - 1 : u[z] = args[z + 1]
    BY <2>3, <2>4, <2>5
  <2>7. v \in Seq(Values) /\ Len(v) = n - 1 /\ \A z \in 1..n - 1 : v[z] = a[y + z]
    <3>1. y \in Nat /\ y <= Len(a) /\ Len(a) \in Nat /\ n - 1 \in Nat /\ n - 1 = Len(a) - y
      BY <1>5, <2>1, <2>3
    <3>2. v \in Seq(Values) /\ Len(v) = n - 1
      BY <1>4, <2>5, <3>1
    <3>3. \A z \in 1..n - 1 : v[z] = a[y + z]
      BY <1>4, <2>5, <3>1
    <3> QED BY <3>2, <3>3
  <2>8. ASSUME NEW z \in 1..n - 1 PROVE u[z] = v[z]
    <3>1. z + 1 \in 1..n /\ x + (z + 1) = y + z
      BY <1>5, <2>1, <2>3
    <3> QED BY <2>4, <2>6, <2>7, <3>1
  <2>9. u = v
    BY <2>3, <2>6, <2>7, <2>8, SeqEqual
  <2> QED BY <2>1, <2>3, <2>4, <2>5, <2>9
<1> QED
  BY <1>1, <1>2, <1>7, <1>8
-----------------------------------------------------------------------------
(***************************************************************************)
(* A number's characters.                                                  *)
(***************************************************************************)
Prefix(token) == IF token.kind = "p" THEN HexPrefix ELSE <<>>

\* A number's token, and what it means.
LEMMA NumberToken ==
    ASSUME NEW token, IsToken(token), token.kind \in {"d", "x", "p"}
    PROVE  /\ Form(token) \in {"d", "x"}
           /\ Len(token.arg) = 1
           /\ token.arg[1] \in 0..WORD - 1
           /\ token.arg = <<token.arg[1]>>
           /\ Prefix(token) \in Seq(Printable) /\ Len(Prefix(token)) = Lead(token)
           /\ Lead(token) \in Nat
           /\ Numeral(Form(token), token.arg[1]) \in Seq(Printable)
           /\ ~Misprinted(token) =>
                 Shown(token) = Prefix(token) \o Numeral(Form(token), token.arg[1])
<1>1. Form(token) \in {"d", "x"} /\ Lead(token) \in Nat
  BY DEF Form, Lead
<1>2. token.arg \in Seq(0..WORD - 1) /\ Len(token.arg) = 1
  BY DEF IsToken, ArgumentOf
<1>3. token.arg[1] \in 0..WORD - 1 /\ token.arg = <<token.arg[1]>>
  <2>1. token.arg[1] \in 0..WORD - 1
    <3>1. 1 \in 1..Len(token.arg)
      BY <1>2
    <3> QED BY <1>2, <3>1, ElementOfSeq
  <2>2. PICK u : u = <<token.arg[1]>>
    OBVIOUS
  <2>3. u \in Seq(0..WORD - 1) /\ Len(u) = 1 /\ u[1] = token.arg[1]
    BY <2>1, <2>2
  <2>4. \A z \in 1..1 : token.arg[z] = u[z]
    BY <2>3
  <2>5. token.arg = u
    BY <1>2, <2>3, <2>4, SeqEqual
  <2> QED BY <2>1, <2>2, <2>5
<1>4. Numeral(Form(token), token.arg[1]) \in Seq(Printable)
  <2>1. token.arg[1] \in Nat
    BY <1>3, KprintAssumption
  <2> QED BY <1>1, <1>3, <2>1, HasNumeral, NumeralIs
<1>5. Prefix(token) \in Seq(Printable) /\ Len(Prefix(token)) = Lead(token)
  <2>1. CASE token.kind = "p"
    <3>1. Prefix(token) = <<48, 120>> /\ Lead(token) = 2
      BY <2>1 DEF Prefix, Lead, HexPrefix
    <3>2. 48 \in Printable /\ 120 \in Printable
      BY DEF Printable
    <3>3. <<48, 120>> \in Seq(Printable) /\ Len(<<48, 120>>) = 2
      BY <3>2
    <3> QED BY <3>1, <3>3
  <2>2. CASE token.kind # "p"
    <3>1. Prefix(token) = <<>> /\ Lead(token) = 0
      BY <2>2 DEF Prefix, Lead
    <3>2. <<>> \in Seq(Printable) /\ Len(<<>>) = 0
      OBVIOUS
    <3> QED BY <3>1, <3>2
  <2> QED BY <2>1, <2>2
<1>6. Meaning(token) = Prefix(token) \o Numeral(Form(token), token.arg[1])
  <2>1. CASE token.kind = "p"
    BY <2>1 DEF Meaning, Prefix, Form
  <2>2. CASE token.kind \in {"d", "x"}
    <3>1. Meaning(token) = Numeral(Form(token), token.arg[1]) /\ Prefix(token) = <<>>
      BY <2>2 DEF Meaning, Prefix, Form
    <3> QED BY <1>4, <3>1, ConcatEmptySeq
  <2> QED BY <2>1, <2>2
<1>7. ~Misprinted(token) => Shown(token) = Meaning(token)
  BY ShownIs
<1> QED
  BY <1>1, <1>2, <1>3, <1>4, <1>5, <1>6, <1>7

\* The characters of that meaning, for a number with t + 1 digits.
LEMMA NumberMeaning ==
    ASSUME NEW token, IsToken(token), token.kind \in {"d", "x", "p"}, NEW t \in Nat,
           t \in 0..SIZE(Form(token)) - 1, Long(Form(token), token.arg[1], t),
           ~Misprinted(token)
    PROVE  /\ Len(Shown(token)) = Lead(token) + (t + 1)
           /\ \A z \in 1..Lead(token) : Shown(token)[z] = Prefix(token)[z]
           /\ \A z \in 1..t + 1 :
                 Shown(token)[Lead(token) + z]
                     = Ascii(Form(token), DigitOf(Form(token), token.arg[1], t + 1 - z))
<1>1. PICK u, v, n : /\ u = Prefix(token) /\ v = Numeral(Form(token), token.arg[1])
                     /\ n = Lead(token)
  OBVIOUS
<1>2. /\ u \in Seq(Printable) /\ v \in Seq(Printable) /\ Len(u) = n /\ n \in Nat
      /\ Shown(token) = u \o v
  BY <1>1, NumberToken
<1>3. /\ Len(v) = t + 1
      /\ \A z \in 1..t + 1 :
            v[z] = Ascii(Form(token), DigitOf(Form(token), token.arg[1], t + 1 - z))
  <2>1. token.arg[1] \in Nat /\ Form(token) \in {"d", "x"}
    BY NumberToken, KprintAssumption
  <2> QED BY <1>1, <2>1, NumeralIs
<1>4. Len(u \o v) = n + (t + 1)
  <2>1. Len(u \o v) = Len(u) + Len(v)
    BY <1>2, ConcatProperties
  <2> QED BY <1>2, <1>3, <2>1
<1>5. \A z \in 1..n : (u \o v)[z] = u[z]
  BY <1>2
<1>6. ASSUME NEW z \in 1..t + 1 PROVE (u \o v)[n + z] = v[z]
  <2>1. n + z \in Len(u) + 1..Len(u) + Len(v) /\ (n + z) - Len(u) = z
    BY <1>2, <1>3
  <2>2. (u \o v)[n + z] = v[(n + z) - Len(u)]
    BY <1>2, <2>1
  <2> QED BY <2>1, <2>2
<1> QED
  BY <1>1, <1>2, <1>3, <1>4, <1>5, <1>6

\* The next digit is printed.
LEMMA DigitShown ==
    ASSUME IsCall(call), call' = call, printed \in Seq(Printable),
           NEW k \in 0..Len(call) - 1, NEW token, token = call[k + 1],
           token.kind \in {"d", "x", "p"}, ~Misprinted(token), NEW t \in 0..SIZE(Form(token)) - 1,
           Long(Form(token), token.arg[1], t), NEW n \in 0..t,
           Prints(Start(Meant(call), k) + Lead(token) + n),
           printed' = Append(printed, Ascii(Form(token), DigitOf(Form(token), token.arg[1], t - n)))
    PROVE  /\ printed' \in Seq(Printable)
           /\ Prints(Start(Meant(call), k) + Lead(token) + (n + 1))'
           /\ n = t => Prints(Start(Meant(call), k + 1))'
<1>1. PICK x, y, l : x = Start(Meant(call), k) /\ y = Start(Meant(call), k + 1) /\ l = Lead(token)
  OBVIOUS
<1>2. SIZE(Form(token)) \in Nat /\ t \in Nat /\ n \in Nat
  BY BaseIs
<1>0. IsToken(token)
  BY Places
<1>3. /\ x \in Nat /\ y = x + Len(Shown(token)) /\ y <= Len(Expansion(call))
      /\ \A z \in 1..Len(Shown(token)) : Expansion(call)[x + z] = Shown(token)[z]
  <2>1. /\ Start(Meant(call), k) \in Nat
        /\ Start(Meant(call), k + 1) = Start(Meant(call), k) + Len(Shown(call[k + 1]))
        /\ Start(Meant(call), k + 1) <= Len(Expansion(call))
        /\ \A z \in 1..Len(Shown(call[k + 1])) :
              Expansion(call)[Start(Meant(call), k) + z] = Shown(call[k + 1])[z]
    BY Places
  <2> QED BY <1>1, <2>1
<1>4. /\ Len(Shown(token)) = l + (t + 1)
      /\ \A z \in 1..t + 1 :
            Shown(token)[l + z]
                = Ascii(Form(token), DigitOf(Form(token), token.arg[1], t + 1 - z))
  BY <1>0, <1>1, <1>2, NumberMeaning
<1>5. l \in Nat
  BY <1>1 DEF Lead
<1>6. PICK ch : ch = Ascii(Form(token), DigitOf(Form(token), token.arg[1], t - n))
  OBVIOUS
<1>7. ch \in Printable
  <2>1. Form(token) \in {"d", "x"} /\ token.arg[1] \in Nat
    BY <1>0, NumberToken, KprintAssumption
  <2>2. t - n \in 0..SIZE(Form(token))
    BY <1>2
  <2> QED BY <1>6, <2>1, <2>2, Digits, Glyphs
<1>8. PICK s : s = <<ch>>
  OBVIOUS
<1>9. s \in Seq(Printable) /\ Len(s) = 1 /\ printed' = printed \o s
  <2>1. \A u \in Seq(Printable) : Append(u, ch) = u \o <<ch>>
    BY <1>7
  <2> QED BY <1>6, <1>7, <1>8, <2>1
<1>10. PICK m : m = x + l + n
  OBVIOUS
<1>11. m \in Nat /\ m + 1 = x + l + (n + 1) /\ m + 1 <= Len(Expansion(call)) /\ Prints(m)
  <2>1. Len(Expansion(call)) \in Nat
    BY ExpansionIs
  <2>2. x \in Nat /\ y = x + (l + (t + 1)) /\ y <= Len(Expansion(call))
    BY <1>3, <1>4
  <2>3. m \in Nat /\ m + 1 = x + l + (n + 1) /\ m + 1 <= Len(Expansion(call))
    BY <1>2, <1>5, <1>10, <2>1, <2>2
  <2> QED BY <1>1, <1>10, <2>3
<1>12. Expansion(call)[m + 1] = ch
  <2>1. n + 1 \in 1..t + 1 /\ t + 1 - (n + 1) = t - n /\ l + (n + 1) \in 1..l + (t + 1)
    BY <1>2, <1>5
  <2>2. Shown(token)[l + (n + 1)] = ch
    BY <1>4, <1>6, <2>1
  <2>3. Expansion(call)[x + (l + (n + 1))] = Shown(token)[l + (n + 1)]
    BY <1>3, <1>4, <2>1
  <2>4. x + (l + (n + 1)) = m + 1
    <3>1. x \in Nat
      BY <1>3
    <3> QED BY <1>2, <1>5, <1>10, <3>1
  <2> QED BY <2>2, <2>3, <2>4
<1>13. Prints(m + 1)'
  <2>1. \A z \in 1..Len(s) : Expansion(call)[m + z] = s[z]
    BY <1>8, <1>9, <1>12
  <2>2. Prints(m + Len(s))'
    BY <1>9, <1>11, <2>1, PrintsMore
  <2> QED BY <1>9, <2>2
<1>14. printed' \in Seq(Printable)
  BY <1>9
<1>15. n = t => y = m + 1
  BY <1>2, <1>3, <1>4, <1>5, <1>10
<1> QED
  BY <1>1, <1>11, <1>13, <1>14, <1>15
-----------------------------------------------------------------------------
(***************************************************************************)
(* Steps of kprintf's loop.                                                *)
(***************************************************************************)

\* To the token after next.
LEMMA Advance ==
    ASSUME IsCall(call), call' = call, NEW k \in 0..Len(call) - 1,
           index' = Start(Texts(call), k + 1), Remains(k + 1)',
           Prints(Start(Meant(call), k + 1))'
    PROVE  Formatting' /\ index' \in Nat
<1>0. Len(call) \in Nat /\ k + 1 \in 0..Len(call)
  BY CallSequences
<1>1. index' \in Nat /\ 0 \in 0..index' /\ index' = Start(Texts(call), k + 1) + 0
  <2>1. Start(Texts(call), k + 1) \in Nat
    <3>1. /\ Start(Texts(call), k) \in Nat
          /\ Start(Texts(call), k + 1) = Start(Texts(call), k) + Len(call[k + 1].text)
          /\ IsToken(call[k + 1])
      BY Places
    <3>2. Len(call[k + 1].text) \in Nat
      BY <3>1, Tokens
    <3> QED BY <3>1, <3>2
  <2> QED BY <2>1
<1>2. PICK m, n : m = k + 1 /\ n = Start(Meant(call), k + 1)
  OBVIOUS
<1>3. n \in Nat /\ Prints(n + 0)'
  <2>1. Len(Expansion(call)) \in Nat
    BY ExpansionIs
  <2>2. n \in Nat /\ n + 0 = n
    BY <1>2, <2>1 DEF Prints
  <2> QED BY <1>2, <2>2
<1>4. /\ index' = Start(Texts(call'), m) + 0
      /\ m \in 0..Len(call')
      /\ Remains(m)'
      /\ Prints(Start(Meant(call), m) + 0)'
  BY <1>0, <1>1, <1>2, <1>3 DEF Prints
<1> QED
  BY <1>1, <1>4 DEF Formatting

\* A token is printed at once.
LEMMA Whole ==
    ASSUME IsCall(call), call' = call, printed \in Seq(Printable), NEW k \in 0..Len(call) - 1,
           Prints(Start(Meant(call), k)), printed' = printed \o Shown(call[k + 1])
    PROVE  printed' \in Seq(Printable) /\ Prints(Start(Meant(call), k + 1))'
<1>1. PICK n, s : n = Start(Meant(call), k) /\ s = Shown(call[k + 1])
  OBVIOUS
<1>2. IsToken(call[k + 1])
  BY Places
<1>3. s \in Seq(Printable)
  BY <1>1, <1>2, Tokens
<1>4. /\ Start(Meant(call), k + 1) = n + Len(s)
      /\ n + Len(s) <= Len(Expansion(call))
      /\ \A z \in 1..Len(s) : Expansion(call)[n + z] = s[z]
  <2>1. /\ Start(Meant(call), k + 1) = Start(Meant(call), k) + Len(Shown(call[k + 1]))
        /\ Start(Meant(call), k + 1) <= Len(Expansion(call))
        /\ \A z \in 1..Len(Shown(call[k + 1])) :
              Expansion(call)[Start(Meant(call), k) + z] = Shown(call[k + 1])[z]
    BY Places
  <2> QED BY <1>1, <2>1
<1>5. printed' = printed \o s /\ Prints(n)
  BY <1>1
<1>6. Prints(n + Len(s))'
  BY <1>3, <1>4, <1>5, PrintsMore
<1>7. printed' \in Seq(Printable)
  BY <1>3, <1>5, ConcatProperties
<1> QED
  BY <1>4, <1>6, <1>7

\* The characters of the format.
LEMMA CharacterIs ==
    ASSUME IsCall(call), NEW k \in 0..Len(call) - 1, NEW j \in 0..Len(call[k + 1].text) - 1
    PROVE  Character(Start(Texts(call), k) + j) = call[k + 1].text[j + 1]
<1>1. format = FlattenSeq(Texts(call))
  BY DEF format, Texts
<1>2. PICK x, n : x = Start(Texts(call), k) /\ n = Len(call[k + 1].text)
  OBVIOUS
<1>3. IsToken(call[k + 1])
  BY Places
<1>4. n \in Nat
  BY <1>2, <1>3, Tokens
<1>5. /\ x \in Nat /\ x + n <= Len(format)
      /\ \A z \in 1..n : format[x + z] = call[k + 1].text[z]
  <2>1. /\ Start(Texts(call), k) \in Nat
        /\ Start(Texts(call), k + 1) = Start(Texts(call), k) + Len(call[k + 1].text)
        /\ Start(Texts(call), k + 1) <= Len(FlattenSeq(Texts(call)))
    BY Places
  <2>2. \A z \in 1..Len(call[k + 1].text) :
           FlattenSeq(Texts(call))[Start(Texts(call), k) + z] = call[k + 1].text[z]
    BY TextPlaces
  <2> QED BY <1>1, <1>2, <2>1, <2>2
<1>6. Len(format) \in Nat
  <2>1. FlattenSeq(Texts(call)) \in Seq(Printable)
    BY CallSequences, Starts
  <2> QED BY <1>1, <2>1
<1>7. j \in 0..n - 1 /\ j + 1 \in 1..n /\ x + j < Len(format) /\ (x + j) + 1 = x + (j + 1)
  BY <1>2, <1>4, <1>5, <1>6
<1>8. Character(x + j) = format[(x + j) + 1]
  BY <1>7 DEF Character
<1> QED
  BY <1>2, <1>5, <1>7, <1>8

\* The character behind the last token.
LEMMA TerminatorIs ==
    ASSUME IsCall(call)
    PROVE  Character(Start(Texts(call), Len(call))) = 0
<1>1. format = FlattenSeq(Texts(call))
  BY DEF format, Texts
<1>2. Start(Texts(call), Len(call)) = Len(format) /\ format \in Seq(Printable)
  BY <1>1, CallSequences, Starts
<1>3. Len(format) \in Nat
  BY <1>2
<1> QED
  BY <1>2, <1>3 DEF Character

\* The end of the format.
LEMMA EndStep ==
    ASSUME KprintInv, pc = "format", kprintf,
           index = Start(Texts(call), Len(call)), Remains(Len(call)),
           Prints(Start(Meant(call), Len(call)))
    PROVE  KprintInv'
<1>0. IsCall(call)
  BY DEF KprintInv, KprintTypes
<1>1. Character(index) = 0
  BY <1>0, TerminatorIs
<1>2. /\ pc' = "done" /\ call' = call /\ index' = index /\ args' = args /\ printed' = printed
      /\ value' = value /\ place' = place
  BY <1>1 DEF kprintf, Percent, number
<1>3. args = <<>>
  <2>1. PICK a : a = Arguments(call)
    OBVIOUS
  <2>2. a = FlattenSeq(Taken(call))
    BY <2>1 DEF Arguments, Taken
  <2>3. a \in Seq(Values) /\ Start(Taken(call), Len(call)) = Len(a)
    BY <1>0, <2>2, CallSequences, Starts
  <2>4. args = SubSeq(a, Len(a) + 1, Len(a))
    BY <2>1, <2>3 DEF Remains
  <2> QED BY <2>3, <2>4
<1>4. printed = Expansion(call)
  <2>1. Expansion(call) \in Seq(Printable)
    BY <1>0, ExpansionIs
  <2>2. Start(Meant(call), Len(call)) = Len(Expansion(call))
    BY <1>0, CallSequences, Starts DEF Expansion
  <2>3. \A u \in Seq(Printable) : SubSeq(u, 1, Len(u)) = u
    OBVIOUS
  <2> QED BY <2>1, <2>2, <2>3 DEF Prints
<1>5. KprintTypes'
  BY <1>2 DEF KprintInv, KprintTypes
<1> QED
  BY <1>2, <1>3, <1>4, <1>5 DEF KprintInv

\* A character of a text.
LEMMA TextStep ==
    ASSUME KprintInv, pc = "format", kprintf, NEW k \in 0..Len(call) - 1,
           call[k + 1].kind = "text", NEW j \in 0..Len(call[k + 1].text) - 1,
           index = Start(Texts(call), k) + j, Remains(k), Prints(Start(Meant(call), k) + j)
    PROVE  KprintInv'
<1>0. IsCall(call) /\ printed \in Seq(Printable) /\ index \in Nat /\ Len(call) \in Nat
  BY CallSequences DEF KprintInv, KprintTypes
<1>1. PICK token, n, ch : token = call[k + 1] /\ n = Len(call[k + 1].text)
                          /\ ch = call[k + 1].text[j + 1]
  OBVIOUS
<1>2. IsToken(token)
  BY <1>0, <1>1, Places
<1>3. token.text \in Seq(Printable \ {Percent}) /\ token.arg = <<>> /\ Shown(token) = token.text
  BY <1>1, <1>2, DirectivesAre, ShownIs DEF IsToken, Meaning
<1>4. n \in Nat /\ j \in Nat /\ j + 1 \in 1..n /\ ch \in Printable \ {Percent}
  <2>1. n \in Nat /\ j \in Nat /\ j + 1 \in 1..n
    BY <1>1, <1>3
  <2> QED BY <1>1, <1>3, <2>1, ElementOfSeq
<1>5. Character(index) = ch
  BY <1>0, <1>1, CharacterIs
<1>6. ch \notin {0, Percent}
  <2>1. \A x \in Printable : x # 0
    BY DEF Printable
  <2> QED BY <1>4, <2>1
<1>7. /\ printed' = printed \o <<ch>> /\ pc' = "format" /\ index' = index + 1 /\ args' = args
      /\ call' = call /\ value' = value /\ place' = place
  BY <1>5, <1>6 DEF kprintf, Put, number
<1>8. PICK x, y : x = Start(Meant(call), k) /\ y = Start(Meant(call), k + 1)
  OBVIOUS
<1>9. /\ x \in Nat /\ y = x + n /\ y <= Len(Expansion(call))
      /\ \A z \in 1..n : Expansion(call)[x + z] = token.text[z]
  <2>1. /\ Start(Meant(call), k) \in Nat
        /\ Start(Meant(call), k + 1) = Start(Meant(call), k) + Len(Shown(call[k + 1]))
        /\ Start(Meant(call), k + 1) <= Len(Expansion(call))
        /\ \A z \in 1..Len(Shown(call[k + 1])) :
              Expansion(call)[Start(Meant(call), k) + z] = Shown(call[k + 1])[z]
    BY <1>0, Places
  <2> QED BY <1>1, <1>3, <1>8, <2>1
<1>10. Prints(x + (j + 1))' /\ printed' \in Seq(Printable)
  <2>1. PICK s, m : s = <<ch>> /\ m = x + j
    OBVIOUS
  <2>2. s \in Seq(Printable) /\ Len(s) = 1 /\ s[1] = ch
    BY <1>4, <2>1
  <2>3. m \in Nat /\ m + 1 = x + (j + 1) /\ m + 1 <= Len(Expansion(call))
    <3>1. Len(Expansion(call)) \in Nat
      BY <1>0, ExpansionIs
    <3> QED BY <1>4, <1>9, <2>1, <3>1
  <2>4. \A z \in 1..Len(s) : Expansion(call)[m + z] = s[z]
    <3>1. Expansion(call)[x + (j + 1)] = ch
      BY <1>1, <1>4, <1>9
    <3> QED BY <2>2, <2>3, <3>1
  <2>5. Prints(m + Len(s))'
    BY <1>0, <1>7, <1>8, <2>1, <2>2, <2>3, <2>4, PrintsMore
  <2>6. printed' \in Seq(Printable)
    BY <1>0, <1>7, <2>1, <2>2, ConcatProperties
  <2> QED BY <2>2, <2>3, <2>5, <2>6
<1>11. Formatting' /\ index' \in Nat
  <2>1. CASE j + 1 = n
    <3>1. index' = Start(Texts(call), k + 1)
      <4>1. /\ Start(Texts(call), k) \in Nat
            /\ Start(Texts(call), k + 1) = Start(Texts(call), k) + Len(call[k + 1].text)
        BY <1>0, Places
      <4> QED BY <1>1, <1>4, <1>7, <2>1, <4>1
    <3>2. Remains(k + 1)
      BY <1>0, <1>1, <1>3, TakesOne
    <3>3. Remains(k + 1)'
      BY <1>7, <3>2 DEF Remains
    <3>4. Prints(Start(Meant(call), k + 1))'
      BY <1>7, <1>8, <1>9, <1>10, <2>1 DEF Prints
    <3> QED BY <1>0, <1>7, <3>1, <3>3, <3>4, Advance
  <2>2. CASE j + 1 # n
    <3>1. /\ index' \in Nat /\ j + 1 \in 0..index' /\ j + 1 < n /\ k \in 0..Len(call) /\ k < Len(call)
          /\ index' = Start(Texts(call), k) + (j + 1)
      <4>1. Start(Texts(call), k) \in Nat
        BY <1>0, Places
      <4> QED BY <1>0, <1>4, <1>7, <2>2, <4>1
    <3>2. Remains(k)'
      BY <1>7 DEF Remains
    <3>3. Prints(Start(Meant(call), k) + (j + 1))'
      BY <1>7, <1>8, <1>10 DEF Prints
    <3>4. /\ index' = Start(Texts(call'), k) + (j + 1)
          /\ k < Len(call') /\ call'[k + 1].kind = "text" /\ j + 1 < Len(call'[k + 1].text)
          /\ k \in 0..Len(call')
      BY <1>1, <1>7, <3>1
    <3> QED BY <3>1, <3>2, <3>3, <3>4 DEF Formatting
  <2> QED BY <2>1, <2>2
<1>12. KprintTypes'
  BY <1>0, <1>7, <1>10, <1>11 DEF KprintInv, KprintTypes
<1> QED
  BY <1>7, <1>11, <1>12 DEF KprintInv
\* What the switch does for a token that is not a number.
LEMMA PutDirective ==
    ASSUME NEW token, IsToken(token), token.kind \in {"percent", "c", "s", "unsupported"},
           Len(token.arg) = 1 => args[1] = token.arg[1], Directive(token.text[2])
    PROVE  /\ Put(Shown(token))
           /\ \/ token.arg = <<>> /\ args' = args
              \/ Len(token.arg) = 1 /\ args' = Tail(args)
<1>1. CASE token.kind = "percent"
  <2>1. token.text[2] = Percent /\ token.arg = <<>> /\ Shown(token) = <<Percent>>
    BY <1>1, DirectivesAre, ShownIs DEF IsToken, Meaning
  <2>2. ~Takes(Percent) /\ Percent \notin {99, 115, 100, 120, 112}
    BY DirectivesAre DEF Percent
  <2>3. Put(<<Percent>>)
    BY <2>1, <2>2 DEF Directive, Directives
  <2>4. args' = args
    BY <2>1, <2>2 DEF Directive
  <2> QED BY <2>1, <2>3, <2>4
<1>2. CASE token.kind = "unsupported"
  <2>1. /\ token.text[2] # Percent /\ ~Takes(token.text[2]) /\ token.arg = <<>>
        /\ Shown(token) = Unsupported
    BY <1>2, DirectivesAre, ShownIs DEF IsToken, Meaning
  <2>2. token.text[2] \notin {99, 115, 100, 120, 112}
    BY <2>1, DirectivesAre
  <2>3. Put(Unsupported)
    BY <2>1, <2>2 DEF Directive, Directives
  <2>4. args' = args
    BY <2>1 DEF Directive
  <2> QED BY <2>1, <2>3, <2>4
<1>3. CASE token.kind \in {"c", "s"}
  <2>1. /\ token.text = <<Percent, Directives[token.kind]>>
        /\ token.arg \in Seq(ArgumentOf(token.kind)) /\ Len(token.arg) = 1
    BY <1>3 DEF IsToken
  <2>2. PICK ch : ch = token.text[2]
    OBVIOUS
  <2>3. ch = IF token.kind = "c" THEN 99 ELSE 115
    BY <1>3, <2>1, <2>2, DirectivesAre
  <2>4. Takes(ch) /\ ch # Percent
    BY <2>3, DirectivesAre DEF Percent
  <2>5. args' = Tail(args)
    BY <2>2, <2>4 DEF Directive
  <2>6. IF token.kind = "c" THEN Put(<<args[1]>>) ELSE Put(args[1])
    BY <2>2, <2>3, <2>4 DEF Directive, Directives
  <2>7. token.kind = "c" => Shown(token) = <<args[1]>>
    <3> SUFFICES ASSUME token.kind = "c" PROVE token.arg = <<args[1]>>
      BY ShownIs DEF Meaning
    <3>1. token.arg \in Seq(Printable)
      BY <2>1 DEF ArgumentOf
    <3>2. 1 \in 1..Len(token.arg)
      BY <2>1
    <3>3. token.arg[1] \in Printable
      BY <3>1, <3>2, ElementOfSeq
    <3>4. PICK u : u = <<token.arg[1]>>
      OBVIOUS
    <3>5. u \in Seq(Printable) /\ Len(u) = 1 /\ \A z \in 1..1 : token.arg[z] = u[z]
      BY <3>3, <3>4
    <3>6. token.arg = u
      BY <2>1, <3>1, <3>5, SeqEqual
    <3> QED BY <2>1, <3>4, <3>6
  <2>8. token.kind = "s" => Shown(token) = args[1]
    BY <2>1, ShownIs DEF Meaning
  <2> QED BY <1>3, <2>1, <2>5, <2>6, <2>7, <2>8
<1> QED
  BY <1>1, <1>2, <1>3

\* What the switch does for a number.
LEMMA NumberDirective ==
    ASSUME NEW token, IsToken(token), token.kind \in {"d", "x", "p"},
           args[1] = token.arg[1], Directive(token.text[2])
    PROVE  Number(Form(token), token.arg[1], Prefix(token)) /\ args' = Tail(args)
<1>1. token.text = <<Percent, Directives[token.kind]>>
  BY DEF IsToken
<1>2. PICK ch : ch = token.text[2]
  OBVIOUS
<1>3. ch = IF token.kind = "d" THEN 100 ELSE IF token.kind = "x" THEN 120 ELSE 112
  BY <1>1, <1>2, DirectivesAre
<1>4. Takes(ch) /\ ch # Percent
  BY <1>3, DirectivesAre DEF Percent
<1>5. args' = Tail(args)
  BY <1>2, <1>4 DEF Directive
<1>6. CASE token.kind = "d"
  <2>1. Number("d", args[1], <<>>)
    BY <1>2, <1>3, <1>4, <1>6 DEF Directive, Directives
  <2> QED BY <1>5, <1>6, <2>1 DEF Form, Prefix
<1>7. CASE token.kind = "x"
  <2>1. Number("x", args[1], <<>>)
    BY <1>2, <1>3, <1>4, <1>7 DEF Directive, Directives
  <2> QED BY <1>5, <1>7, <2>1 DEF Form, Prefix
<1>8. CASE token.kind = "p"
  <2>1. Number("x", args[1], HexPrefix)
    BY <1>2, <1>3, <1>4, <1>8 DEF Directive, Directives
  <2> QED BY <1>5, <1>8, <2>1 DEF Form, Prefix
<1> QED
  BY <1>6, <1>7, <1>8

\* A sequence of one element.
LEMMA OneOf == \A x, u : u = <<x>> => u[1] = x
OBVIOUS

\* A value with one digit is its own digit.
LEMMA OneDigit ==
    ASSUME NEW f \in {"d", "x"}, NEW v \in 0..Base(f) - 1
    PROVE  Long(f, v, 0) /\ DigitOf(f, v, 0) = v
<1>1. SIZE(f) \in Nat \ {0} /\ Base(f) \in {10, 16}
  BY BaseIs
<1>2. Weight(f)[0] = 1 /\ Weight(f)[0 + 1] = Base(f)
  <2>1. Weight(f)[0] = 1
    BY Weights
  <2>2. 0 \in 0..SIZE(f) - 1
    BY <1>1
  <2>3. Weight(f)[0 + 1] = Weight(f)[0] * Base(f)
    BY <2>2, Weights
  <2> QED BY <1>1, <2>1, <2>3
<1>3. v \div 1 = v /\ v % Base(f) = v
  BY <1>1
<1> QED
  BY <1>1, <1>2, <1>3 DEF Long, DigitOf

\* The switch meets a number: printed at once, or to be filled into the array.
LEMMA EnterNumber ==
    ASSUME KprintInv, pc = "format", NEW k \in 0..Len(call) - 1, NEW token, token = call[k + 1],
           token.kind \in {"d", "x", "p"}, Number(Form(token), token.arg[1], Prefix(token)),
           call' = call, index' = Start(Texts(call), k + 1), Remains(k + 1)',
           Prints(Start(Meant(call), k))
    PROVE  KprintInv'
<1>0. /\ IsCall(call) /\ printed \in Seq(Printable) /\ Len(call) \in Nat
      /\ value \in 0..WORD - 1 /\ place \in 0..WORD - 1 /\ WORD \in Nat
  BY CallSequences, KprintAssumption DEF KprintInv, KprintTypes
<1>1. IsToken(token)
  BY <1>0, Places
<1>2. PICK f, v, p : f = Form(token) /\ v = token.arg[1] /\ p = Prefix(token)
  OBVIOUS
<1>3. /\ f \in {"d", "x"} /\ v \in 0..WORD - 1 /\ v \in Nat /\ token.arg = <<v>>
      /\ p \in Seq(Printable) /\ Len(p) = Lead(token)
      /\ Numeral(f, v) \in Seq(Printable)
      /\ ~Misprinted(token) => Shown(token) = p \o Numeral(f, v)
  <2>1. /\ Form(token) \in {"d", "x"} /\ token.arg[1] \in 0..WORD - 1
        /\ token.arg = <<token.arg[1]>>
        /\ Prefix(token) \in Seq(Printable) /\ Len(Prefix(token)) = Lead(token)
        /\ Numeral(Form(token), token.arg[1]) \in Seq(Printable)
        /\ ~Misprinted(token) =>
              Shown(token) = Prefix(token) \o Numeral(Form(token), token.arg[1])
    BY <1>1, NumberToken
  <2>2. token.arg[1] \in Nat
    BY <1>0, <2>1
  <2> QED BY <1>2, <2>1, <2>2
<1>4. Number(f, v, p)
  BY <1>2
<1>5. SIZE(f) \in Nat \ {0} /\ SIZE(f) < WORD /\ Base(f) \in {10, 16}
  BY BaseIs
<1>6. CASE v < Single(f)
  <2>1. /\ conv' = f /\ printed' = printed \o Append(p, Ascii(f, v)) /\ pc' = "format"
        /\ value' = value /\ place' = place
    BY <1>4, <1>6 DEF Number
  <2>2. printed' \in Seq(Printable) /\ Prints(Start(Meant(call), k + 1))'
    <3>1. CASE v < Base(f)
      <4>1. v \in 0..Base(f) - 1
        BY <1>3, <1>5, <3>1
      <4>2. Long(f, v, 0) /\ DigitOf(f, v, 0) = v
        BY <1>3, <4>1, OneDigit
      <4>3. Len(Numeral(f, v)) = 1 /\ Numeral(f, v)[1] = Ascii(f, v)
        <5>1. 0 \in 0..SIZE(f) - 1
          BY <1>5
        <5>2. /\ Len(Numeral(f, v)) = 0 + 1
              /\ \A z \in 1..0 + 1 : Numeral(f, v)[z] = Ascii(f, DigitOf(f, v, 0 + 1 - z))
          BY <1>3, <4>2, <5>1, NumeralIs
        <5> QED BY <4>2, <5>2
      <4>4. PICK s, ch : s = Numeral(f, v) /\ ch = Ascii(f, v)
        OBVIOUS
      <4>5. ch \in Printable
        BY <1>3, <4>1, <4>4, Glyphs
      <4>6. s = <<ch>>
        <5>1. PICK u : u = <<ch>>
          OBVIOUS
        <5>2. u \in Seq(Printable) /\ Len(u) = 1 /\ u[1] = ch
          BY <4>5, <5>1
        <5>3. \A z \in 1..1 : s[z] = u[z]
          BY <4>3, <4>4, <5>2
        <5>4. s = u
          BY <1>3, <4>3, <4>4, <5>2, <5>3, SeqEqual
        <5> QED BY <5>1, <5>4
      <4>7. \A u \in Seq(Printable) : Append(u, ch) = u \o <<ch>>
        BY <4>5
      <4>8. ~Misprinted(token)
        <5>1. v # 16
          BY <1>3, <1>5, <4>1
        <5> QED BY <1>2, <5>1, OneOf DEF Misprinted
      <4>9. printed' = printed \o Shown(token)
        BY <1>3, <2>1, <4>4, <4>6, <4>7, <4>8
      <4> QED BY <1>0, <4>9, Whole
    <3>2. CASE ~(v < Base(f))
      <4>1. f = "x" /\ v = 16
        BY <1>3, <1>6, <3>2 DEF Single, Base
      <4>2. Misprinted(token)
        BY <1>2, <1>3, <4>1 DEF Misprinted, Form
      <4>3. Ascii(f, v) = 103
        BY <4>1 DEF Ascii
      <4>4. printed' = printed \o Shown(token)
        BY <1>2, <2>1, <4>2, <4>3, ShownIs DEF Prefix
      <4> QED BY <1>0, <4>4, Whole
    <3> QED BY <3>1, <3>2
  <2>3. Formatting' /\ index' \in Nat
    BY <1>0, <2>2, Advance
  <2>4. KprintTypes'
    BY <1>0, <2>1, <2>2, <2>3 DEF KprintTypes
  <2> QED BY <2>1, <2>3, <2>4 DEF KprintInv
<1>7. CASE ~(v < Single(f))
  <2>1. /\ conv' = f /\ printed' = printed \o p /\ value' = v /\ place' = SIZE(f) - 1
        /\ digits' = [z \in 0..SIZE(f) - 1 |-> Garbage] /\ pc' = "fill"
    BY <1>4, <1>7 DEF Number
  <2>2. v >= Base(f) /\ Shown(token) = p \o Numeral(f, v) /\ ~Misprinted(token)
    <3>1. v >= Base(f)
      BY <1>3, <1>7 DEF Single, Base
    <3>2. token.kind \in {"x", "p"} => v # 16
      BY <1>2, <1>3, <1>7 DEF Single, Form
    <3>3. ~Misprinted(token)
      BY <1>2, <3>2, OneOf DEF Misprinted
    <3> QED BY <1>3, <3>1, <3>3
  <2>3. printed' \in Seq(Printable)
    BY <1>0, <1>3, <2>1, ConcatProperties
  <2>4. Prints(Start(Meant(call), k) + Lead(token) + 0)'
    <3>1. PICK x, l : x = Start(Meant(call), k) /\ l = Lead(token)
      OBVIOUS
    <3>2. /\ x \in Nat /\ x + Len(Shown(token)) <= Len(Expansion(call))
          /\ \A z \in 1..Len(Shown(token)) : Expansion(call)[x + z] = Shown(token)[z]
      <4>1. /\ Start(Meant(call), k) \in Nat
            /\ Start(Meant(call), k + 1) = Start(Meant(call), k) + Len(Shown(call[k + 1]))
            /\ Start(Meant(call), k + 1) <= Len(Expansion(call))
            /\ \A z \in 1..Len(Shown(call[k + 1])) :
                  Expansion(call)[Start(Meant(call), k) + z] = Shown(call[k + 1])[z]
        BY <1>0, Places
      <4> QED BY <3>1, <4>1
    <3>3. PICK s : s = Numeral(f, v)
      OBVIOUS
    <3>4. /\ Len(p \o s) = Len(p) + Len(s) /\ Len(s) \in Nat /\ Len(p) \in Nat
          /\ \A z \in 1..Len(p) : (p \o s)[z] = p[z]
      <4>1. p \in Seq(Printable) /\ s \in Seq(Printable)
        BY <1>3, <3>3
      <4> QED BY <4>1
    <3>5. x + Len(p) <= Len(Expansion(call)) /\ \A z \in 1..Len(p) : Expansion(call)[x + z] = p[z]
      <4>1. Len(Expansion(call)) \in Nat
        BY <1>0, ExpansionIs
      <4>2. x + (Len(p) + Len(s)) <= Len(Expansion(call))
        BY <1>3, <2>2, <3>2, <3>3, <3>4
      <4>3. x + Len(p) <= Len(Expansion(call))
        BY <3>2, <3>4, <4>1, <4>2
      <4>4. ASSUME NEW z \in 1..Len(p) PROVE Expansion(call)[x + z] = p[z]
        <5>1. z \in 1..Len(Shown(token))
          BY <1>3, <2>2, <3>3, <3>4
        <5>2. Shown(token)[z] = p[z]
          BY <1>3, <2>2, <3>3, <3>4
        <5> QED BY <3>2, <5>1, <5>2
      <4> QED BY <4>3, <4>4
    <3>6. Prints(x + Len(p))'
      BY <1>0, <1>3, <2>1, <3>1, <3>5, PrintsMore
    <3>7. x + Len(p) = x + l + 0
      BY <1>3, <3>1, <3>2, <3>4
    <3> QED BY <3>1, <3>6, <3>7 DEF Prints
  <2>5. Kept(v, 0)'
    BY <2>1 DEF Kept
  <2>6. v = v \div Weight(f)[0]
    <3>1. Weight(f)[0] = 1
      BY Weights
    <3> QED BY <1>3, <3>1
  <2>7. Inside(k, 0)'
    BY <1>2, <2>1, <2>2, <2>4 DEF Inside, Form, Lead
  <2>8. Filling'
    <3>1. /\ k \in 0..Len(call') - 1 /\ 0 \in 0..SIZE(conv') - 1
          /\ call'[k + 1].kind \in {"d", "x", "p"} /\ call'[k + 1].arg[1] = v
          /\ value' = v \div Weight(conv')[0]
          /\ value' >= Base(conv') /\ place' = SIZE(conv') - 1 - 0
      BY <1>2, <1>5, <2>1, <2>2, <2>6
    <3>2. Kept(call[k + 1].arg[1], 0)'
      BY <2>5, <3>1 DEF Kept
    <3> QED BY <2>7, <3>1, <3>2 DEF Filling
  <2>9. KprintTypes'
    <3>1. index' \in Nat
      <4>1. /\ Start(Texts(call), k) \in Nat
            /\ Start(Texts(call), k + 1) = Start(Texts(call), k) + Len(call[k + 1].text)
        BY <1>0, Places
      <4>2. Len(call[k + 1].text) \in Nat
        BY <1>1, Tokens
      <4> QED BY <4>1, <4>2
    <3>2. place' \in 0..WORD - 1
      BY <1>0, <1>5, <2>1
    <3> QED BY <1>0, <1>3, <2>1, <2>3, <3>1, <3>2 DEF KprintTypes
  <2> QED BY <2>1, <2>8, <2>9 DEF KprintInv
<1> QED
  BY <1>6, <1>7
\* A '%' and the character behind it.
LEMMA DirectiveStep ==
    ASSUME KprintInv, pc = "format", kprintf, NEW k \in 0..Len(call) - 1,
           call[k + 1].kind # "text", index = Start(Texts(call), k), Remains(k),
           Prints(Start(Meant(call), k))
    PROVE  KprintInv'
<1>0. IsCall(call) /\ printed \in Seq(Printable) /\ index \in Nat
  BY DEF KprintInv, KprintTypes
<1>1. PICK token : token = call[k + 1]
  OBVIOUS
<1>2. IsToken(token)
  BY <1>0, <1>1, Places
<1>3. \E ch : token.text = <<Percent, ch>>
  BY <1>1, <1>2 DEF IsToken
<1>4. Len(token.text) = 2 /\ token.text[1] = Percent
  BY <1>3
<1>5. Character(index) = Percent /\ Character(index + 1) = token.text[2]
  <2>1. 0 \in 0..Len(call[k + 1].text) - 1 /\ 1 \in 0..Len(call[k + 1].text) - 1
    BY <1>1, <1>4
  <2>2. /\ Character(Start(Texts(call), k) + 0) = call[k + 1].text[0 + 1]
        /\ Character(Start(Texts(call), k) + 1) = call[k + 1].text[1 + 1]
    BY <1>0, <2>1, CharacterIs
  <2>3. Start(Texts(call), k) + 0 = index /\ Start(Texts(call), k) + 1 = index + 1
    BY <1>0
  <2> QED BY <1>1, <1>4, <2>2, <2>3
<1>6. Directive(token.text[2]) /\ index' = index + 2 /\ call' = call
  BY <1>5 DEF kprintf, Percent
<1>7. index' = Start(Texts(call), k + 1)
  <2>1. Start(Texts(call), k + 1) = Start(Texts(call), k) + Len(call[k + 1].text)
    BY <1>0, Places
  <2> QED BY <1>1, <1>4, <1>6, <2>1
<1>8. Len(token.arg) = 1 => args[1] = token.arg[1]
  BY <1>0, <1>1, TakesOne
<1>9. token.arg = <<>> /\ args' = args => Remains(k + 1)'
  <2> SUFFICES ASSUME token.arg = <<>>, args' = args PROVE Remains(k + 1)'
    OBVIOUS
  <2>1. Remains(k + 1)
    BY <1>0, <1>1, TakesOne
  <2> QED BY <1>6, <2>1 DEF Remains
<1>10. Len(token.arg) = 1 /\ args' = Tail(args) => Remains(k + 1)'
  <2> SUFFICES ASSUME Len(token.arg) = 1, args' = Tail(args) PROVE Remains(k + 1)'
    OBVIOUS
  <2>1. Tail(args) = SubSeq(Arguments(call), Start(Taken(call), k + 1) + 1, Len(Arguments(call)))
    BY <1>0, <1>1, TakesOne
  <2> QED BY <1>6, <2>1 DEF Remains
<1>11. CASE token.kind \in {"percent", "c", "s", "unsupported"}
  <2>1. /\ Put(Shown(token))
        /\ \/ token.arg = <<>> /\ args' = args
           \/ Len(token.arg) = 1 /\ args' = Tail(args)
    BY <1>2, <1>6, <1>8, <1>11, PutDirective
  <2>2. Remains(k + 1)'
    BY <1>9, <1>10, <2>1
  <2>3. printed' = printed \o Shown(token) /\ pc' = "format" /\ value' = value /\ place' = place
    BY <2>1 DEF Put, number
  <2>4. printed' \in Seq(Printable) /\ Prints(Start(Meant(call), k + 1))'
    BY <1>0, <1>1, <1>6, <2>3, Whole
  <2>5. Formatting' /\ index' \in Nat
    BY <1>0, <1>6, <1>7, <2>2, <2>4, Advance
  <2>6. KprintTypes'
    BY <1>6, <2>3, <2>4, <2>5 DEF KprintInv, KprintTypes
  <2> QED BY <2>3, <2>5, <2>6 DEF KprintInv
<1>12. CASE token.kind \in {"d", "x", "p"}
  <2>1. Len(token.arg) = 1
    BY <1>2, <1>12, NumberToken
  <2>2. Number(Form(token), token.arg[1], Prefix(token)) /\ args' = Tail(args)
    BY <1>2, <1>6, <1>8, <1>12, <2>1, NumberDirective
  <2>3. Remains(k + 1)'
    BY <1>10, <2>1, <2>2
  <2> QED BY <1>1, <1>6, <1>7, <1>12, <2>2, <2>3, EnterNumber
<1> QED
  BY <1>1, <1>2, <1>11, <1>12, DirectivesAre DEF IsToken

\* A round of kprintf keeps the invariant: the end, a text, or a directive.
LEMMA kprintfKeeps == KprintInv /\ kprintf => KprintInv'
<1> SUFFICES ASSUME KprintInv, kprintf PROVE KprintInv'
  OBVIOUS
<1>1. pc = "format" /\ Formatting
  BY DEF kprintf, KprintInv
<1>2. PICK k \in 0..Len(call), j \in 0..index :
         /\ index = Start(Texts(call), k) + j
         /\ j > 0 => k < Len(call) /\ call[k + 1].kind = "text" /\ j < Len(call[k + 1].text)
         /\ Remains(k)
         /\ Prints(Start(Meant(call), k) + j)
  BY <1>1 DEF Formatting
<1>3. IsCall(call) /\ index \in Nat /\ Len(call) \in Nat
  BY CallSequences DEF KprintInv, KprintTypes
<1>4. j \in Nat
  BY <1>3
<1>5. Start(Texts(call), k) \in Nat /\ Start(Meant(call), k) \in Nat
  <2>1. Texts(call) \in Seq(Seq(Printable)) /\ Len(Texts(call)) = Len(call)
    BY <1>3, CallSequences
  <2>2. Meant(call) \in Seq(Seq(Printable)) /\ Len(Meant(call)) = Len(call)
    BY <1>3, CallSequences
  <2> QED BY <2>1, <2>2, Starts
<1>6. j = 0 => index = Start(Texts(call), k) /\ Prints(Start(Meant(call), k))
  <2> SUFFICES ASSUME j = 0 PROVE index = Start(Texts(call), k) /\ Prints(Start(Meant(call), k))
    OBVIOUS
  <2>1. Start(Texts(call), k) + j = Start(Texts(call), k)
        /\ Start(Meant(call), k) + j = Start(Meant(call), k)
    BY <1>5
  <2> QED BY <1>2, <2>1
<1>7. CASE k = Len(call)
  <2>1. j = 0
    BY <1>2, <1>3, <1>4, <1>7
  <2> QED BY <1>1, <1>2, <1>6, <1>7, <2>1, EndStep
<1>8. CASE k # Len(call)
  <2>1. k \in 0..Len(call) - 1
    BY <1>3, <1>8
  <2>2. CASE call[k + 1].kind = "text"
    <3>1. IsToken(call[k + 1])
      BY <1>3, <2>1, Places
    <3>2. Len(call[k + 1].text) \in Nat \ {0}
      BY <3>1, Tokens
    <3>3. j \in 0..Len(call[k + 1].text) - 1
      BY <1>2, <1>4, <3>2
    <3> QED BY <1>1, <1>2, <2>1, <2>2, <3>3, TextStep
  <2>3. CASE call[k + 1].kind # "text"
    <3>1. j = 0
      BY <1>2, <1>4, <2>3
    <3> QED BY <1>1, <1>2, <1>6, <2>1, <2>3, <3>1, DirectiveStep
  <2> QED BY <2>2, <2>3
<1> QED
  BY <1>7, <1>8
-----------------------------------------------------------------------------
(***************************************************************************)
(* Steps of a number's two loops.                                          *)
(***************************************************************************)

\* What the loops know of the number's token.
LEMMA NumberFacts ==
    ASSUME KprintTypes, NEW k \in 0..Len(call) - 1, NEW token, token = call[k + 1],
           token.kind \in {"d", "x", "p"}, conv = Form(token), NEW v, v = token.arg[1]
    PROVE  /\ IsToken(token)
           /\ conv \in {"d", "x"} /\ v \in 0..WORD - 1 /\ v \in Nat
           /\ SIZE(conv) \in Nat \ {0} /\ SIZE(conv) < WORD /\ Base(conv) \in {10, 16}
           /\ WORD \in Nat /\ v < Weight(conv)[SIZE(conv)]
<1>1. IsToken(token)
  BY Places DEF KprintTypes
<1>2. conv \in {"d", "x"} /\ v \in 0..WORD - 1
  BY <1>1, NumberToken
<1>3. WORD \in Nat /\ v \in Nat
  BY <1>2, KprintAssumption
<1>4. SIZE(conv) \in Nat \ {0} /\ SIZE(conv) < WORD /\ Base(conv) \in {10, 16}
  BY BaseIs
<1>5. v < Weight(conv)[SIZE(conv)]
  <2>1. WORD <= Weight(conv)[SIZE(conv)]
    BY <1>2, KprintAssumption DEF SIZE
  <2>2. Weight(conv)[SIZE(conv)] \in Nat
    BY <1>4, Weights
  <2> QED BY <1>2, <1>3, <2>1, <2>2
<1> QED
  BY <1>1, <1>2, <1>3, <1>4, <1>5

\* The quotients by two weights that follow each other.
LEMMA NextWeight ==
    ASSUME NEW f, NEW v \in Nat, NEW t \in 0..SIZE(f) - 1
    PROVE  /\ Weight(f)[t + 1] \in Nat \ {0}
           /\ (v \div Weight(f)[t]) \div Base(f) = v \div Weight(f)[t + 1]
           /\ v \div Weight(f)[t] < Base(f) <=> v < Weight(f)[t + 1]
           /\ v \div Weight(f)[t] = 0 <=> v < Weight(f)[t]
           /\ v \div Weight(f)[t] \in Nat
<1>1. SIZE(f) \in Nat /\ Base(f) \in {10, 16} /\ t \in 0..SIZE(f)
  BY BaseIs
<1>2. Weight(f)[t] \in Nat \ {0} /\ Weight(f)[t + 1] = Weight(f)[t] * Base(f)
  BY <1>1, Weights
<1>3. PICK m, b, w : m = Weight(f)[t] /\ b = Base(f) /\ w = Weight(f)[t + 1]
  OBVIOUS
<1>4. m \in Nat \ {0} /\ b \in {10, 16} /\ w = m * b
  BY <1>1, <1>2, <1>3
<1>5. Quotients(v, m, b, w)
  BY <1>4, DivNext
<1> QED
  BY <1>3, <1>5 DEF Quotients

\* Division keeps values of an integer.
LEMMA Smaller ==
    ASSUME NEW v \in Nat, NEW b \in {10, 16}
    PROVE  v \div b \in 0..v
OBVIOUS

\* A round of the filling loop keeps it.
LEMMA FillDigitKeeps == KprintInv /\ FillDigit => KprintInv'
<1> SUFFICES ASSUME KprintInv, FillDigit PROVE KprintInv'
  OBVIOUS
<1>0. KprintTypes /\ pc = "fill" /\ Filling
  BY DEF KprintInv, FillDigit
<1>1. PICK k \in 0..Len(call) - 1, t \in 0..SIZE(conv) - 1 :
        /\ call[k + 1].kind \in {"d", "x", "p"}
        /\ Kept(call[k + 1].arg[1], t)
        /\ value = call[k + 1].arg[1] \div Weight(conv)[t]
        /\ \/ value >= Base(conv) /\ place = SIZE(conv) - 1 - t /\ Inside(k, 0)
           \/ value \in 1..Base(conv) - 1 /\ t > 0 /\ place = SIZE(conv) - t /\ Inside(k, 1)
  BY <1>0 DEF Filling
<1>2. PICK token, v, n : token = call[k + 1] /\ v = call[k + 1].arg[1] /\ n = SIZE(conv)
  OBVIOUS
<1>3. conv = Form(token)
  BY <1>1, <1>2 DEF Inside
<1>4. /\ IsToken(token)
      /\ conv \in {"d", "x"} /\ v \in 0..WORD - 1 /\ v \in Nat
      /\ n \in Nat \ {0} /\ n < WORD /\ Base(conv) \in {10, 16}
      /\ WORD \in Nat /\ v < Weight(conv)[n]
  BY <1>0, <1>1, <1>2, <1>3, NumberFacts
<1>5. value \in Nat /\ value \in 0..WORD - 1 /\ value \div Base(conv) # 0
  BY <1>0, <1>4 DEF FillDigit, KprintTypes
<1>6. value >= Base(conv) /\ place = n - 1 - t /\ Inside(k, 0)
  <2>1. \A q \in Nat : q < Base(conv) => q \div Base(conv) = 0
    BY <1>4
  <2> QED BY <1>1, <1>2, <1>4, <1>5, <2>1
<1>7. /\ Weight(conv)[t + 1] \in Nat \ {0}
      /\ value \div Base(conv) = v \div Weight(conv)[t + 1]
      /\ (value < Base(conv) <=> v < Weight(conv)[t + 1])
  BY <1>1, <1>2, <1>4, NextWeight
<1>8. t \in Nat /\ t + 1 \in 1..n - 1
  <2>1. t \in Nat /\ t + 1 \in 1..n
    BY <1>2, <1>4
  <2>2. t + 1 # n
    BY <1>4, <1>5, <1>6, <1>7
  <2> QED BY <1>4, <2>1, <2>2
<1>9. PICK q : q = value \div Base(conv)
  OBVIOUS
<1>10. q \in Nat /\ q # 0 /\ q \in 0..WORD - 1 /\ q = v \div Weight(conv)[t + 1]
  <2>1. q \in 0..value
    BY <1>4, <1>5, <1>9, Smaller
  <2> QED BY <1>4, <1>5, <1>7, <1>9, <2>1
<1>11. /\ digits' = [digits EXCEPT ![place] = value % Base(conv)] /\ value' = q
       /\ call' = call /\ index' = index /\ args' = args /\ conv' = conv /\ pc' = "fill"
       /\ IF q < Base(conv)
          THEN printed' = Append(printed, Ascii(conv, q)) /\ place' = place
          ELSE place' = (place - 1) % WORD /\ printed' = printed
  BY <1>9 DEF FillDigit, Digit
<1>12. Kept(v, t + 1)'
  <2>1. DOMAIN digits = 0..n - 1 /\ \A z \in 0..t - 1 : digits[n - 1 - z] = DigitOf(conv, v, z)
    BY <1>1, <1>2 DEF Kept
  <2>2. place \in 0..n - 1
    BY <1>4, <1>6, <1>8
  <2>3. DOMAIN digits' = 0..n - 1
    BY <1>11, <2>1
  <2>4. ASSUME NEW z \in 0..t PROVE digits'[n - 1 - z] = DigitOf(conv, v, z)
    <3>1. n - 1 - z \in 0..n - 1
      BY <1>4, <1>8
    <3>2. CASE z = t
      BY <1>1, <1>2, <1>6, <1>11, <2>1, <2>2, <3>2 DEF DigitOf
    <3>3. CASE z # t
      <4>1. z \in 0..t - 1 /\ n - 1 - z # place
        BY <1>4, <1>6, <1>8, <3>3
      <4> QED BY <1>11, <2>1, <3>1, <4>1
    <3> QED BY <3>2, <3>3
  <2>5. (t + 1) - 1 = t
    BY <1>8
  <2> QED BY <1>2, <1>11, <2>3, <2>4, <2>5 DEF Kept
<1>13. /\ k \in 0..Len(call') - 1 /\ t + 1 \in 0..SIZE(conv') - 1
       /\ call'[k + 1].kind \in {"d", "x", "p"} /\ call'[k + 1].arg[1] = v
       /\ value' = v \div Weight(conv')[t + 1]
       /\ Kept(call[k + 1].arg[1], t + 1)'
  <2>1. t + 1 \in 0..n - 1
    BY <1>8
  <2>2. call'[k + 1].arg[1] = v
    BY <1>2, <1>11
  <2>3. Kept(call[k + 1].arg[1], t + 1)'
    BY <1>12, <2>2 DEF Kept
  <2> QED BY <1>1, <1>2, <1>10, <1>11, <2>1, <2>2, <2>3
<1>14. CASE q < Base(conv)
  <2>1. printed' = Append(printed, Ascii(conv, q)) /\ place' = place
    BY <1>11, <1>14
  <2>2. Long(conv, v, t + 1)
    <3>0. t + 1 \in 0..SIZE(conv) - 1
      BY <1>2, <1>8
    <3>1. v \div Weight(conv)[t + 1] < Base(conv) <=> v < Weight(conv)[(t + 1) + 1]
      BY <1>4, <3>0, NextWeight
    <3>2. v \div Weight(conv)[t + 1] = 0 <=> v < Weight(conv)[t + 1]
      BY <1>4, <3>0, NextWeight
    <3> QED BY <1>4, <1>7, <1>10, <1>14, <3>1, <3>2 DEF Long
  <2>3. DigitOf(conv, v, t + 1) = q
    <3>1. \A x \in Nat : x < Base(conv) => x % Base(conv) = x
      BY <1>4
    <3> QED BY <1>10, <1>14, <3>1 DEF DigitOf
  <2>4. /\ printed' \in Seq(Printable)
        /\ Prints(Start(Meant(call), k) + Lead(token) + (0 + 1))'
    <3>1. Prints(Start(Meant(call), k) + Lead(token) + 0)
      BY <1>2, <1>6 DEF Inside
    <3>2. 0 \in 0..t + 1 /\ (t + 1) - 0 = t + 1 /\ t + 1 \in 0..SIZE(Form(token)) - 1
      BY <1>2, <1>3, <1>4, <1>8
    <3>3. printed' = Append(printed, Ascii(Form(token), DigitOf(Form(token), v, (t + 1) - 0)))
      BY <1>3, <2>1, <2>3, <3>2
    <3>4. Long(Form(token), v, t + 1)
      BY <1>3, <2>2
    <3>5. IsCall(call) /\ printed \in Seq(Printable) /\ token.kind \in {"d", "x", "p"}
          /\ v = token.arg[1] /\ call' = call
      BY <1>0, <1>1, <1>2, <1>11 DEF KprintTypes
    <3>6. ~Misprinted(token)
      BY <1>2, <1>6 DEF Inside
    <3> QED BY <1>2, <3>1, <3>2, <3>3, <3>4, <3>5, <3>6, DigitShown
  <2>5. Inside(k, 1)'
    <3>1. 0 + 1 = 1
      OBVIOUS
    <3>2. Prints(Start(Meant(call), k) + Lead(call[k + 1]) + 1)'
      BY <1>2, <1>11, <2>4, <3>1 DEF Prints, Lead
    <3> QED BY <1>6, <1>11, <3>2 DEF Inside, Remains, Form
  <2>6. value' \in 1..Base(conv') - 1 /\ t + 1 > 0 /\ place' = SIZE(conv') - (t + 1)
    <3>1. conv' = conv /\ value' = q
      BY <1>11
    <3>2. q \in 1..Base(conv) - 1
      <4>1. q \in Nat /\ q # 0
        BY <1>10
      <4> QED BY <1>4, <1>14, <4>1
    <3>3. t + 1 > 0 /\ place = n - (t + 1)
      BY <1>4, <1>6, <1>8
    <3> QED BY <1>2, <2>1, <3>1, <3>2, <3>3
  <2>7. Filling'
    BY <1>13, <2>5, <2>6 DEF Filling
  <2>8. KprintTypes'
    BY <1>0, <1>10, <1>11, <2>1, <2>4 DEF KprintTypes
  <2> QED BY <1>11, <2>7, <2>8 DEF KprintInv
<1>15. CASE ~(q < Base(conv))
  <2>1. place' = place - 1 /\ printed' = printed
    <3>1. place - 1 \in 0..WORD - 1
      BY <1>4, <1>6, <1>8
    <3>2. \A x \in 0..WORD - 1 : x % WORD = x
      BY <1>4
    <3> QED BY <1>11, <1>15, <3>1, <3>2
  <2>2. Inside(k, 0)'
    BY <1>6, <1>11, <2>1 DEF Inside, Remains, Prints, Form, Lead
  <2>3. value' >= Base(conv') /\ place' = SIZE(conv') - 1 - (t + 1) /\ place' \in 0..WORD - 1
    <3>1. conv' = conv /\ value' = q
      BY <1>11
    <3>2. q >= Base(conv)
      <4>1. q \in Nat
        BY <1>10
      <4> QED BY <1>4, <1>15, <4>1
    <3>3. place - 1 = n - 1 - (t + 1) /\ place - 1 \in 0..WORD - 1
      BY <1>4, <1>6, <1>8
    <3> QED BY <1>2, <2>1, <3>1, <3>2, <3>3
  <2>4. Filling'
    BY <1>13, <2>2, <2>3 DEF Filling
  <2>5. KprintTypes'
    BY <1>0, <1>10, <1>11, <2>1, <2>3 DEF KprintTypes
  <2> QED BY <1>11, <2>4, <2>5 DEF KprintInv
<1> QED
  BY <1>14, <1>15

\* The end of the filling loop keeps it.
LEMMA FilledKeeps == KprintInv /\ Filled => KprintInv'
<1> SUFFICES ASSUME KprintInv, Filled PROVE KprintInv'
  OBVIOUS
<1>0. /\ KprintTypes /\ pc = "fill" /\ Filling /\ value \div Base(conv) = 0
      /\ pc' = "print" /\ call' = call /\ index' = index /\ args' = args /\ printed' = printed
      /\ conv' = conv /\ value' = value /\ place' = place /\ digits' = digits
  BY DEF KprintInv, Filled, number
<1>1. PICK k \in 0..Len(call) - 1, t \in 0..SIZE(conv) - 1 :
        /\ call[k + 1].kind \in {"d", "x", "p"}
        /\ Kept(call[k + 1].arg[1], t)
        /\ value = call[k + 1].arg[1] \div Weight(conv)[t]
        /\ \/ value >= Base(conv) /\ place = SIZE(conv) - 1 - t /\ Inside(k, 0)
           \/ value \in 1..Base(conv) - 1 /\ t > 0 /\ place = SIZE(conv) - t /\ Inside(k, 1)
  BY <1>0 DEF Filling
<1>2. PICK token, v, n : token = call[k + 1] /\ v = call[k + 1].arg[1] /\ n = SIZE(conv)
  OBVIOUS
<1>3. conv = Form(token)
  BY <1>1, <1>2 DEF Inside
<1>4. /\ conv \in {"d", "x"} /\ v \in Nat /\ n \in Nat \ {0} /\ Base(conv) \in {10, 16}
      /\ WORD \in Nat
  BY <1>0, <1>1, <1>2, <1>3, NumberFacts
<1>5. value \in 1..Base(conv) - 1 /\ t > 0 /\ place = n - t /\ Inside(k, 1)
  <2>1. value \in Nat
    BY <1>0, <1>4 DEF KprintTypes
  <2>2. \A q \in Nat : q >= Base(conv) => q \div Base(conv) # 0
    BY <1>4
  <2> QED BY <1>0, <1>1, <1>2, <2>1, <2>2
<1>6. t \in 1..n - 1 /\ place = n - t /\ place \in n - t..n /\ 1 + (place - (n - t)) = 1
  <2>1. n \in Nat /\ t \in 0..n - 1 /\ t > 0 /\ place = n - t
    BY <1>2, <1>4, <1>5
  <2> QED BY <2>1
<1>7. Long(conv, v, t)
  <2>1. /\ value < Base(conv) <=> v < Weight(conv)[t + 1]
        /\ value = 0 <=> v < Weight(conv)[t]
    BY <1>1, <1>2, <1>4, NextWeight
  <2>2. Weight(conv)[t] \in Nat
    BY <1>2, <1>4, Weights
  <2> QED BY <1>4, <1>5, <2>1, <2>2 DEF Long
<1>8. Printing'
  <2>1. Kept(call[k + 1].arg[1], t)'
    BY <1>0, <1>1 DEF Kept
  <2>2. Inside(k, 1)'
    BY <1>0, <1>5 DEF Inside, Remains, Prints, Form, Lead
  <2>3. Inside(k, 1 + (place - (SIZE(conv) - t)))'
    BY <1>0, <1>2, <1>6, <2>2 DEF Inside, Prints
  <2>4. /\ k \in 0..Len(call') - 1 /\ t \in 1..SIZE(conv') - 1
        /\ call'[k + 1].kind \in {"d", "x", "p"} /\ Long(conv', call'[k + 1].arg[1], t)
        /\ place' \in SIZE(conv') - t..SIZE(conv')
    BY <1>0, <1>1, <1>2, <1>6, <1>7
  <2> QED BY <2>1, <2>3, <2>4 DEF Printing
<1>9. KprintTypes'
  BY <1>0 DEF KprintTypes
<1> QED
  BY <1>0, <1>8, <1>9 DEF KprintInv
\* A round of the printing loop, and its end, keep it.
LEMMA PrintDigitKeeps == KprintInv /\ PrintDigit => KprintInv'
<1> SUFFICES ASSUME KprintInv, PrintDigit PROVE KprintInv'
  OBVIOUS
<1>0. /\ KprintTypes /\ pc = "print" /\ Printing
      /\ call' = call /\ index' = index /\ args' = args
      /\ conv' = conv /\ value' = value /\ digits' = digits
      /\ IF place < SIZE(conv)
         THEN printed' = Append(printed, Ascii(conv, digits[place])) /\ place' = place + 1 /\ pc' = pc
         ELSE pc' = "format" /\ printed' = printed /\ place' = place
  BY DEF KprintInv, PrintDigit
<1>1. PICK k \in 0..Len(call) - 1, t \in 1..SIZE(conv) - 1 :
        /\ call[k + 1].kind \in {"d", "x", "p"}
        /\ Kept(call[k + 1].arg[1], t)
        /\ Long(conv, call[k + 1].arg[1], t)
        /\ place \in SIZE(conv) - t..SIZE(conv)
        /\ Inside(k, 1 + (place - (SIZE(conv) - t)))
  BY <1>0 DEF Printing
<1>2. PICK token, v, n, d : /\ token = call[k + 1] /\ v = call[k + 1].arg[1] /\ n = SIZE(conv)
                            /\ d = 1 + (place - (n - t))
  OBVIOUS
<1>3. conv = Form(token) /\ Inside(k, d) /\ ~Misprinted(token)
  BY <1>1, <1>2 DEF Inside
<1>4. /\ IsToken(token) /\ conv \in {"d", "x"} /\ v \in Nat /\ n \in Nat \ {0} /\ n < WORD
      /\ WORD \in Nat
  BY <1>0, <1>1, <1>2, <1>3, NumberFacts
<1>5. t \in 1..n - 1 /\ place \in n - t..n /\ d \in 1..t + 1
  <2>1. t \in 1..n - 1 /\ place \in n - t..n
    BY <1>1, <1>2
  <2>2. d = 1 + (place - (n - t)) /\ n \in Nat
    BY <1>2, <1>4
  <2> QED BY <2>1, <2>2
<1>6. IsCall(call) /\ printed \in Seq(Printable) /\ index \in Nat
  BY <1>0 DEF KprintTypes
<1>7. Prints(Start(Meant(call), k) + Lead(token) + d)
  BY <1>2, <1>3 DEF Inside
<1>8. CASE place < n
  <2>1. printed' = Append(printed, Ascii(conv, digits[place])) /\ place' = place + 1 /\ pc' = "print"
    BY <1>0, <1>2, <1>8
  <2>2. d \in 0..t /\ place' \in n - t..n /\ place' \in 0..WORD - 1 /\ d + 1 = 1 + (place' - (n - t))
    <3>1. d = 1 + (place - (n - t)) /\ n \in Nat /\ WORD \in Nat /\ n < WORD
      BY <1>2, <1>4
    <3>2. t \in Nat /\ t <= n /\ place \in Nat /\ n - t <= place /\ place + 1 <= n
      BY <1>4, <1>5, <1>8
    <3>3. d \in 0..t /\ d + 1 = 1 + ((place + 1) - (n - t))
      BY <3>1, <3>2
    <3>4. place + 1 \in n - t..n /\ place + 1 \in 0..WORD - 1
      BY <3>1, <3>2
    <3> QED BY <2>1, <3>3, <3>4
  <2>3. digits[place] = DigitOf(conv, v, t - d)
    <3>1. t - d \in 0..t - 1 /\ n - 1 - (t - d) = place
      <4>1. d = 1 + (place - (n - t)) /\ n \in Nat
        BY <1>2, <1>4
      <4>2. t \in Nat /\ place \in Nat /\ n - t <= place /\ place + 1 <= n
        BY <1>4, <1>5, <1>8
      <4> QED BY <4>1, <4>2
    <3>2. \A z \in 0..t - 1 : digits[n - 1 - z] = DigitOf(conv, v, z)
      BY <1>1, <1>2 DEF Kept
    <3> QED BY <3>1, <3>2
  <2>4. /\ printed' \in Seq(Printable)
        /\ Prints(Start(Meant(call), k) + Lead(token) + (d + 1))'
    <3>1. t \in 0..SIZE(Form(token)) - 1 /\ token.kind \in {"d", "x", "p"} /\ v = token.arg[1]
          /\ Long(Form(token), token.arg[1], t)
      BY <1>1, <1>2, <1>3, <1>4, <1>5
    <3>2. printed' = Append(printed, Ascii(Form(token), DigitOf(Form(token), token.arg[1], t - d)))
      BY <1>3, <2>1, <2>3, <3>1
    <3> QED BY <1>0, <1>2, <1>3, <1>6, <1>7, <2>2, <3>1, <3>2, DigitShown
  <2>5. Inside(k, 1 + (place - (SIZE(conv) - t)))'
    <3>1. Prints(Start(Meant(call), k) + Lead(call[k + 1]) + (1 + (place - (SIZE(conv) - t))))'
      BY <1>0, <1>2, <2>2, <2>4 DEF Prints, Lead
    <3> QED BY <1>0, <1>3, <3>1 DEF Inside, Remains, Form
  <2>6. Printing'
    <3>1. Kept(call[k + 1].arg[1], t)'
      BY <1>0, <1>1 DEF Kept
    <3>2. /\ k \in 0..Len(call') - 1 /\ t \in 1..SIZE(conv') - 1
          /\ call'[k + 1].kind \in {"d", "x", "p"} /\ Long(conv', call'[k + 1].arg[1], t)
          /\ place' \in SIZE(conv') - t..SIZE(conv')
      BY <1>0, <1>1, <1>2, <2>2
    <3> QED BY <2>5, <3>1, <3>2 DEF Printing
  <2>7. KprintTypes'
    BY <1>0, <2>1, <2>2, <2>4 DEF KprintTypes
  <2> QED BY <2>1, <2>6, <2>7 DEF KprintInv
<1>9. CASE ~(place < n)
  <2>1. pc' = "format" /\ printed' = printed /\ place' = place
    BY <1>0, <1>2, <1>9
  <2>2. d = t + 1
    BY <1>2, <1>4, <1>5, <1>9
  <2>3. Start(Meant(call), k + 1) = Start(Meant(call), k) + Lead(token) + d
    <3>1. /\ Start(Meant(call), k) \in Nat
          /\ Start(Meant(call), k + 1) = Start(Meant(call), k) + Len(Shown(call[k + 1]))
      BY <1>6, Places
    <3>2. t \in Nat /\ t \in 0..SIZE(Form(token)) - 1 /\ token.kind \in {"d", "x", "p"}
          /\ Long(Form(token), token.arg[1], t)
      BY <1>1, <1>2, <1>3, <1>4, <1>5
    <3>3. Len(Shown(token)) = Lead(token) + (t + 1) /\ Lead(token) \in Nat
      BY <1>3, <1>4, <3>2, NumberMeaning DEF Lead
    <3> QED BY <1>2, <2>2, <3>1, <3>2, <3>3
  <2>4. Prints(Start(Meant(call), k + 1))'
    BY <1>0, <1>7, <2>1, <2>3 DEF Prints
  <2>5. Remains(k + 1)' /\ index' = Start(Texts(call), k + 1)
    BY <1>0, <1>3 DEF Inside, Remains
  <2>6. Formatting' /\ index' \in Nat
    BY <1>0, <1>6, <2>4, <2>5, Advance
  <2>7. KprintTypes'
    BY <1>0, <2>1, <2>6 DEF KprintTypes
  <2> QED BY <2>1, <2>6, <2>7 DEF KprintInv
<1> QED
  BY <1>8, <1>9

\* A step of a string function leaves kprintf alone.
LEMMA SameKprint ==
    ASSUME KprintInv, UNCHANGED vars
    PROVE  KprintInv'
<1>1. /\ call' = call /\ index' = index /\ args' = args /\ printed' = printed /\ pc' = pc
      /\ conv' = conv /\ value' = value /\ place' = place /\ digits' = digits
  BY DEF vars, number
<1>2. KprintTypes' <=> KprintTypes
  BY <1>1 DEF KprintTypes
<1>3. Formatting => Formatting'
  BY <1>1 DEF Formatting, Prints, Remains
<1>4. Filling => Filling'
  BY <1>1 DEF Filling, Inside, Prints, Remains, Kept
<1>5. Printing => Printing'
  BY <1>1 DEF Printing, Inside, Prints, Remains, Kept
<1> QED
  BY <1>1, <1>2, <1>3, <1>4, <1>5 DEF KprintInv

\* Every step keeps it.
LEMMA NextKprint == KprintInv /\ [LibraryNext]_allvars => KprintInv'
<1> SUFFICES ASSUME KprintInv, [LibraryNext]_allvars PROVE KprintInv'
  OBVIOUS
<1>1. CASE Next
  BY <1>1, kprintfKeeps, FillDigitKeeps, FilledKeeps, PrintDigitKeeps DEF Next
<1>2. CASE UNCHANGED vars
  BY <1>2, SameKprint
<1>3. CASE UNCHANGED allvars
  BY <1>2, <1>3 DEF allvars
<1> QED
  BY <1>1, <1>2, <1>3 DEF LibraryNext

\* It holds at first, whether kprintf is called or another function.
LEMMA InitKprint == LibraryInit => KprintInv
<1>0. WORD \in Nat \ {0} /\ 0 \in 0..WORD - 1
  BY KprintAssumption
<1>1. ASSUME Init PROVE KprintInv
  <2>1. /\ call \in Calls /\ index = 0 /\ args = Arguments(call) /\ printed = <<>> /\ pc = "format"
        /\ value = 0 /\ place = 0
    BY <1>1 DEF Init
  <2>2. IsCall(call)
    BY <2>1, KprintAssumption DEF IsCall
  <2>3. KprintTypes
    BY <1>0, <2>1, <2>2 DEF KprintTypes
  <2>4. Start(Texts(call), 0) = 0 /\ Start(Taken(call), 0) = 0 /\ Start(Meant(call), 0) = 0
    BY <2>2, CallSequences, Starts
  <2>5. Remains(0)
    <3>1. Arguments(call) = FlattenSeq(Taken(call))
      BY DEF Arguments, Taken
    <3>2. Arguments(call) \in Seq(Values)
      BY <2>2, <3>1, CallSequences, Starts
    <3>3. \A u \in Seq(Values) : SubSeq(u, 1, Len(u)) = u
      OBVIOUS
    <3> QED BY <2>1, <2>4, <3>2, <3>3 DEF Remains
  <2>6. Prints(0)
    <3>1. Expansion(call) \in Seq(Printable) /\ Len(Expansion(call)) \in Nat
      BY <2>2, ExpansionIs
    <3>2. SubSeq(Expansion(call), 1, 0) = <<>>
      BY <3>1
    <3> QED BY <2>1, <3>1, <3>2 DEF Prints
  <2>7. Len(call) \in Nat
    BY <2>2, CallSequences
  <2>8. Formatting
    BY <2>1, <2>4, <2>5, <2>6, <2>7 DEF Formatting
  <2> QED BY <2>1, <2>3, <2>8 DEF KprintInv
<1>2. ASSUME KprintIdle PROVE KprintInv
  <2>1. /\ call = <<>> /\ index = 0 /\ args = <<>> /\ printed = <<>> /\ pc = "done"
        /\ value = 0 /\ place = 0
    BY <1>2 DEF KprintIdle
  <2>2. IsCall(call)
    BY <2>1 DEF IsCall
  <2>3. KprintTypes
    BY <1>0, <2>1, <2>2 DEF KprintTypes
  <2>4. Expansion(call) = <<>>
    <3>1. Len(call) = 0
      BY <2>1
    <3>2. Start(Meant(call), 0) = 0 /\ Start(Meant(call), Len(call)) = Len(Expansion(call))
      BY <2>2, CallSequences, Starts DEF Expansion
    <3>3. Len(Expansion(call)) = 0 /\ Expansion(call) \in Seq(Printable)
      BY <2>2, <3>1, <3>2, ExpansionIs
    <3> QED BY <3>3, EmptySeq
  <2> QED BY <2>1, <2>3, <2>4 DEF KprintInv
<1> QED
  BY <1>1, <1>2 DEF LibraryInit
-----------------------------------------------------------------------------
(***************************************************************************)
(* The theorems.                                                           *)
(***************************************************************************)

\* The loops of memset, memcpy, strcpy, strcat and strcmp keep their invariant.
THEOREM StringsAlways == LibrarySpec => []StringInv
  BY InitStrings, NextStrings, PTL DEF LibrarySpec

(***************************************************************************)
(* For every memory and every pair of blocks in it: memset, memcpy and     *)
(* strcpy change their block only, and memcpy moves it even onto one that  *)
(* it overlaps, if it moves down, as the scrolling terminal does.          *)
(***************************************************************************)
THEOREM BlocksMoved == LibrarySpec => []BlockMoved
<1>1. StringInv => BlockMoved
  <2> SUFFICES ASSUME StringInv, state = "done", NEW a \in S!Addresses
               PROVE  IF op.name \in {"strcmp", "strcat"} \/ a - op.dest \notin 0..op.rounds - 1
                      THEN mem[a] = original[a] \/ (op.name = "strcpy" /\ a - op.dest = op.rounds)
                      ELSE \/ op.name = "memset" /\ mem[a] = op.arg % BYTE
                           \/ op.name # "memset" /\ mem[a] = original[op.src + (a - op.dest)]
                           \/ op.name # "memset" /\ Overlap
    BY DEF BlockMoved, S!BlockMoved, Overlap
  <2>1. /\ op.name \notin Copies \cup {"memset"} \/ ~Done(a) => mem[a] = original[a]
        /\ op.name = "memset" /\ Done(a) => mem[a] = op.arg % BYTE
        /\ op.name \in Copies /\ Done(a) => mem[a] = original[op.src + (a - op.dest)] \/ Overlap
    BY DEF StringInv, Written
  <2>2. op.name \in {"memset", "memcpy", "strcmp", "strcpy", "strcat", "none"}
    BY DEF StringInv, StringTypes, Names
  <2>3. CASE op.name \in Copies \cup {"memset"}
    <3>1. i = op.rounds
      BY <2>3 DEF StringInv, Ended
    <3>2. Done(a) <=> a - op.dest \in 0..op.rounds - 1
      BY <3>1 DEF Done
    <3> QED BY <2>1, <2>3, <3>2 DEF Copies
  <2>4. CASE op.name \in {"strcmp", "strcat"}
    BY <2>1, <2>4 DEF Copies
  <2>5. CASE op.name = "none"
    <3>1. mem[a] = original[a]
      BY <2>1, <2>5 DEF Copies
    <3>2. 0..op.rounds - 1 = {}
      BY <2>5 DEF StringInv, Blocks
    <3> QED BY <3>1, <3>2
  <2> QED BY <2>2, <2>3, <2>4, <2>5 DEF Copies
<1> QED
  BY <1>1, StringsAlways, PTL

(***************************************************************************)
(* strcmp returns 0 for equal strings and for no others, signed characters *)
(* included: what the loader's and the shell's comparisons rely on.        *)
(***************************************************************************)
THEOREM StrcmpZero ==
    LibrarySpec => [](state = "done" /\ op.name = "strcmp" => (result = 0 <=> Equal))
<1>1. StringInv => (state = "done" /\ op.name = "strcmp" => (result = 0 <=> Equal))
  BY DEF StringInv, Compared
<1> QED
  BY <1>1, StringsAlways, PTL

(***************************************************************************)
(* strcmp is an order for every memory and byte size: by length, and then  *)
(* by the signed characters, of which the first that differ decide.        *)
(***************************************************************************)
THEOREM StrcmpIsOrder == LibrarySpec => []StrcmpOrders
<1>1. StringInv => StrcmpOrders
  BY DEF StringInv, Compared, Order, StrcmpOrders, S!StrcmpOrders
<1> QED
  BY <1>1, StringsAlways, PTL

\* kprintf's loop and the loops of a number keep their invariant.
THEOREM KprintAlways == LibrarySpec => []KprintInv
  BY InitKprint, NextKprint, PTL DEF LibrarySpec

(***************************************************************************)
(* For every call and every value of its arguments, kprintf prints what    *)
(* the caller meant: text as it is, each argument by its own directive,    *)
(* and of a number every digit, in its place, however many it has.  A 16   *)
(* for %x or %p gets one character, and all around it is right.            *)
(***************************************************************************)
THEOREM PrintsWhatWasMeant == LibrarySpec => []PrintsExpansion
<1>1. ASSUME KprintInv, pc = "done" PROVE PrintsExpansion
  <2>1. printed = FlattenSeq([k \in DOMAIN call |-> Expanded(call[k], 103)])
    BY <1>1 DEF KprintInv, Expansion, Meant, Shown
  <2>2. 103 \in Printable
    BY DEF Printable
  <2> QED BY <2>1, <2>2 DEF PrintsExpansion
<1>2. KprintInv => PrintsExpansion
  BY <1>1 DEF PrintsExpansion
<1> QED
  BY <1>2, KprintAlways, PTL

(***************************************************************************)
(* kprint_d and kprint_x write and read inside their arrays and read no    *)
(* element before it is filled: the arrays have room for every integer.    *)
(***************************************************************************)
THEOREM DigitsStayInBounds == LibrarySpec => []DigitsInBounds
<1>1. ASSUME KprintInv, pc = "fill" PROVE place \in DOMAIN digits
  <2>1. KprintTypes /\ Filling
    BY <1>1 DEF KprintInv
  <2>2. PICK k \in 0..Len(call) - 1, t \in 0..SIZE(conv) - 1 :
          /\ Kept(call[k + 1].arg[1], t)
          /\ place = SIZE(conv) - 1 - t \/ (t > 0 /\ place = SIZE(conv) - t)
    BY <2>1 DEF Filling
  <2>3. SIZE(conv) \in Nat
    BY BaseIs
  <2>4. place \in 0..SIZE(conv) - 1
    BY <2>2, <2>3
  <2> QED BY <2>2, <2>4 DEF Kept
<1>2. ASSUME KprintInv, pc = "print", NEW z \in place..SIZE(conv) - 1
      PROVE  digits[z] # Garbage
  <2>1. KprintTypes /\ Printing
    BY <1>2 DEF KprintInv
  <2>2. PICK k \in 0..Len(call) - 1, t \in 1..SIZE(conv) - 1 :
          /\ call[k + 1].kind \in {"d", "x", "p"}
          /\ Kept(call[k + 1].arg[1], t)
          /\ place \in SIZE(conv) - t..SIZE(conv)
          /\ conv = Form(call[k + 1])
    BY <2>1 DEF Printing, Inside
  <2>3. PICK v, n : v = call[k + 1].arg[1] /\ n = SIZE(conv)
    OBVIOUS
  <2>4. v \in Nat /\ n \in Nat /\ Base(conv) \in {10, 16}
    BY <2>1, <2>2, <2>3, NumberFacts
  <2>5. n - 1 - z \in 0..t - 1 /\ n - 1 - (n - 1 - z) = z /\ n - 1 - z \in 0..n
    <3>1. t \in 1..n - 1 /\ place \in n - t..n /\ z \in place..n - 1
      BY <2>2, <2>3
    <3> QED BY <2>4, <3>1
  <2>6. digits[n - 1 - (n - 1 - z)] = DigitOf(conv, v, n - 1 - z)
    BY <2>2, <2>3, <2>5 DEF Kept
  <2>7. DigitOf(conv, v, n - 1 - z) \in 0..Base(conv) - 1
    BY <2>3, <2>4, <2>5, Digits
  <2> QED BY <2>4, <2>5, <2>6, <2>7 DEF Garbage
<1>3. KprintInv => DigitsInBounds
  BY <1>1, <1>2 DEF DigitsInBounds
<1> QED
  BY <1>3, KprintAlways, PTL

(***************************************************************************)
(* Both parts' types: all that kprintf prints is printable, it takes all   *)
(* its arguments and no others, and the index and the returned value of a  *)
(* string function stay in their bounds.                                   *)
(***************************************************************************)
THEOREM LibraryTypes == LibrarySpec => []LibraryTypeOK
<1>1. KprintInv => TypeOK
  BY DEF KprintInv, KprintTypes, TypeOK
<1>2. StringInv => S!TypeOK
  BY DEF StringInv, StringTypes, S!TypeOK
<1>3. KprintInv /\ StringInv => LibraryTypeOK
  BY <1>1, <1>2 DEF LibraryTypeOK
<1> QED
  BY <1>3, KprintAlways, StringsAlways, PTL
=============================================================================
