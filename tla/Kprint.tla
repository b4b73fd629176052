------------------------------- MODULE Kprint -------------------------------
(***************************************************************************)
(* Formatted output, kernel/kprint.c: kprintf's walk over the format, and  *)
(* the loops by which kprint_d and kprint_x take a number apart.           *)
(*                                                                         *)
(* Characters are ASCII codes.  A call is a sequence of tokens: what the   *)
(* caller meant, with the argument that a directive takes.  The kernel     *)
(* sees their text one after the other and takes the arguments in turn.    *)
(***************************************************************************)
EXTENDS Integers, Sequences, SequencesExt, FiniteSetsExt

CONSTANTS
    WORD,             \* 2^64: the values of an integer
    D_SIZE, X_SIZE,   \* the digits arrays' lengths (20 and 16)
    Calls             \* calls of kprintf

Percent == 37
Directives == [c |-> 99, s |-> 115, d |-> 100, x |-> 120, p |-> 112]
Unsupported == <<60, 110, 111, 116, 32, 115, 117, 112, 112, 111, 114, 116, 101, 100, 62>>

SIZE(f) == IF f = "d" THEN D_SIZE ELSE X_SIZE
Base(f) == IF f = "d" THEN 10 ELSE 16

\* The weights of a numeral's digits, up to one more than its array holds.
Weight(f) ==
    LET weight[k \in 0..SIZE(f)] == IF k = 0 THEN 1 ELSE weight[k - 1] * Base(f)
    IN  weight

\* Does the directive take an argument, with va_arg?
Takes(ch) == ch \in {Directives[k] : k \in DOMAIN Directives}

(***************************************************************************)
(* Text without '%', "%%", a directive with an argument of its type, or    *)
(* another character behind a '%'.                                         *)
(***************************************************************************)
Printable == {9, 10} \cup 32..126
ArgumentOf(kind) ==
    CASE kind = "c" -> Printable
      [] kind = "s" -> Seq(Printable)
      [] OTHER -> 0..WORD - 1

IsToken(token) ==
    \/ /\ token.kind = "text" /\ token.arg = <<>>
       /\ token.text \in Seq(Printable \ {Percent}) /\ token.text # <<>>
    \/ /\ token.kind = "percent" /\ token.arg = <<>>
       /\ token.text = <<Percent, Percent>>
    \/ /\ token.kind = "unsupported" /\ token.arg = <<>>
       /\ \E ch \in Printable \ {Percent} : ~Takes(ch) /\ token.text = <<Percent, ch>>
    \/ /\ token.kind \in DOMAIN Directives
       /\ token.text = <<Percent, Directives[token.kind]>>
       /\ token.arg \in Seq(ArgumentOf(token.kind)) /\ Len(token.arg) = 1

ASSUME KprintAssumption ==
    /\ WORD \in Nat \ {0} /\ D_SIZE \in Nat \ {0} /\ X_SIZE \in Nat \ {0}
    /\ D_SIZE < WORD /\ X_SIZE < WORD
    /\ WORD <= Weight("d")[D_SIZE] /\ WORD <= Weight("x")[X_SIZE]
    /\ Calls # {}
    /\ \A c \in Calls : c \in Seq(ToSet(c)) /\ \A k \in DOMAIN c : IsToken(c[k])

VARIABLES
    call,       \* the call
    index,      \* kprintf's place in the format
    args,       \* the arguments not taken yet
    printed,    \* what has gone to the terminal
    pc,         \* kprintf's loop, the two loops of a number, or the end
    conv,       \* the number's function: "d" or "x"
    value, place, digits

number == <<conv, value, place, digits>>
vars == <<call, index, args, printed, pc, number>>

format == FlattenSeq([i \in DOMAIN call |-> call[i].text])
Arguments(tokens) == FlattenSeq([i \in DOMAIN tokens |-> tokens[i].arg])

\* The array is not initialised; it has no element outside its bounds.
Garbage == -1

\* Mutant: a decimal digit is printed as it is.
AsciiRaw(f, v) == IF f = "d" \/ v < 10 THEN v ELSE v + 97 - 10

\* A digit's character.
Ascii(f, v) == IF f = "d" \/ v < 10 THEN v + 48 ELSE v + 97 - 10

\* Mutant: kprint_x's limit is kprint_d's.
SingleTen(f) == 10

\* Values below this are printed as one character.
Single(f) == IF f = "d" THEN 10 ELSE 17
-----------------------------------------------------------------------------
\* Enter kprint_d or kprint_x: one character, or fill the array from its end.
Number(f, v, prefix) ==
    /\ conv' = f
    /\ IF v < Single(f)
       THEN /\ printed' = printed \o Append(prefix, Ascii(f, v))
            /\ pc' = "format"
            /\ UNCHANGED <<value, place, digits>>
       ELSE /\ printed' = printed \o prefix
            /\ value' = v
            /\ place' = SIZE(f) - 1
            /\ digits' = [i \in 0..SIZE(f) - 1 |-> Garbage]
            /\ pc' = "fill"

Put(string) == printed' = printed \o string /\ pc' = "format" /\ UNCHANGED number

\* kprint_p: kprint_x behind a prefix.
HexPrefix == <<48, 120>>

\* The switch after a '%'.
Directive(ch) ==
    /\ \/ ch = Percent /\ Put(<<Percent>>)
       \/ ch = Directives.c /\ Put(<<args[1]>>)
       \/ ch = Directives.s /\ Put(args[1])
       \/ ch = Directives.d /\ Number("d", args[1], <<>>)
       \/ ch = Directives.x /\ Number("x", args[1], <<>>)
       \/ ch = Directives.p /\ Number("x", args[1], HexPrefix)
       \/ ~Takes(ch) /\ ch # Percent /\ Put(Unsupported)
    /\ args' = IF Takes(ch) THEN Tail(args) ELSE args

Character(i) == IF i < Len(format) THEN format[i + 1] ELSE 0

\* One round of kprintf's loop.
kprintf ==
    /\ pc = "format" /\ index <= Len(format)
    /\ \/ Character(index) = 0 /\ pc' = "done" /\ UNCHANGED <<index, args, printed, number>>
       \/ /\ Character(index) \notin {0, Percent}
          /\ Put(<<Character(index)>>)
          /\ index' = index + 1
          /\ UNCHANGED args
       \/ /\ Character(index) = Percent
          /\ Directive(Character(index + 1))
          /\ index' = index + 2
    /\ UNCHANGED call

Digit == [digits EXCEPT ![place] = value % Base(conv)]

\* Mutant: place is decremented for the last digit too.
FillDigitLast ==
    /\ pc = "fill" /\ value \div Base(conv) # 0
    /\ digits' = Digit
    /\ value' = value \div Base(conv)
    /\ printed' = IF value' < Base(conv) THEN Append(printed, Ascii(conv, value')) ELSE printed
    /\ place' = (place - 1) % WORD
    /\ UNCHANGED <<call, index, args, conv, pc>>

\* Mutant: the value is not divided.
FillDigitStuck ==
    /\ pc = "fill" /\ value \div Base(conv) # 0
    /\ digits' = Digit
    /\ UNCHANGED <<call, index, args, conv, value, place, printed, pc>>

\* while (value / base != 0): keep a digit; when one is left, print it.
FillDigit ==
    /\ pc = "fill" /\ value \div Base(conv) # 0
    /\ digits' = Digit
    /\ value' = value \div Base(conv)
    /\ IF value' < Base(conv)
       THEN printed' = Append(printed, Ascii(conv, value')) /\ place' = place
       ELSE place' = (place - 1) % WORD /\ UNCHANGED printed
    /\ UNCHANGED <<call, index, args, conv, pc>>

Filled ==
    /\ pc = "fill" /\ value \div Base(conv) = 0
    /\ pc' = "print"
    /\ UNCHANGED <<call, index, args, printed, number>>

\* while (place < size): print the array.
PrintDigit ==
    /\ pc = "print"
    /\ IF place < SIZE(conv)
       THEN /\ printed' = Append(printed, Ascii(conv, digits[place]))
            /\ place' = place + 1
            /\ UNCHANGED pc
       ELSE pc' = "format" /\ UNCHANGED <<printed, place>>
    /\ UNCHANGED <<call, index, args, conv, value, digits>>

Init ==
    /\ call \in Calls
    /\ index = 0
    /\ args = Arguments(call)
    /\ printed = <<>>
    /\ pc = "format"
    /\ conv = "d" /\ value = 0 /\ place = 0 /\ digits = <<>>

Next == kprintf \/ FillDigit \/ Filled \/ PrintDigit

Spec == Init /\ [][Next]_vars
-----------------------------------------------------------------------------
(***************************************************************************)
(* Properties.                                                             *)
(***************************************************************************)

\* Types; what is printed is printable, and all arguments are taken.
TypeOK ==
    /\ pc \in {"format", "fill", "print", "done"}
    /\ index \in Nat
    /\ printed \in Seq(Printable)
    /\ value \in 0..WORD - 1 /\ place \in 0..WORD - 1
    /\ pc = "done" => args = <<>>

\* The numeral of v: as many digits as it needs, and v's digit of each weight.
Numeral(f, v) ==
    LET b == Base(f)
        n == Min({k \in 1..SIZE(f) : v < Weight(f)[k]})
        Glyph(d) == IF d < 10 THEN d + 48 ELSE d + 87
    IN  [i \in 1..n |-> Glyph((v \div Weight(f)[n - i]) % b)]

\* What the caller meant by a token.
Meaning(token) ==
    CASE token.kind = "text" -> token.text
      [] token.kind = "percent" -> <<Percent>>
      [] token.kind = "c" -> token.arg
      [] token.kind = "s" -> token.arg[1]
      [] token.kind \in {"d", "x"} -> Numeral(token.kind, token.arg[1])
      [] token.kind = "p" -> HexPrefix \o Numeral("x", token.arg[1])
      [] OTHER -> Unsupported

\* kprint_x takes 16 for a single digit.
Misprinted(token) == token.kind \in {"x", "p"} /\ token.arg = <<16>>

\* What a token is to print, where ch stands for the "digit" 16.
Expanded(token, ch) ==
    IF Misprinted(token)
    THEN Append(IF token.kind = "p" THEN HexPrefix ELSE <<>>, ch)
    ELSE Meaning(token)

(***************************************************************************)
(* kprintf prints what the caller meant: text as it is, every argument by  *)
(* its own directive, numbers with no digit lost, repeated, leading or out *)
(* of place, and an argument that contains '%' is not expanded again.  The *)
(* one number that it gets wrong (PrintsMeaning) takes a single character, *)
(* and all around it is right.                                             *)
(***************************************************************************)
PrintsExpansion ==
    pc = "done" =>
        \E ch \in Printable :
            printed = FlattenSeq([i \in DOMAIN call |-> Expanded(call[i], ch)])

(***************************************************************************)
(* The README of the repository and kprint_x's comments: a number is       *)
(* printed in hexadecimal, its digits above 9 as the letters a to f.       *)
(***************************************************************************)
PrintsMeaning ==
    pc = "done" => printed = FlattenSeq([i \in DOMAIN call |-> Meaning(call[i])])

(***************************************************************************)
(* The loops stay in the array, which is exactly long enough for the       *)
(* largest value, and print no element that they have not filled.          *)
(***************************************************************************)
DigitsInBounds ==
    /\ pc = "fill" => place \in DOMAIN digits
    /\ pc = "print" => \A i \in place..SIZE(conv) - 1 : digits[i] # Garbage
=============================================================================
