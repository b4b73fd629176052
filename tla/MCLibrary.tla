------------------------------ MODULE MCLibrary -----------------------------
(***************************************************************************)
(* Library with 12-bit integers, for which arrays of 4 and 3 digits are as *)
(* exact as 20 and 16 are for 64 bits: kprintf with every value by itself  *)
(* and in calls of two tokens.  The string functions get a memory of five  *)
(* bytes with terminators, a positive and a negative character in every    *)
(* arrangement, and every block of it.                                     *)
(***************************************************************************)
EXTENDS Library

Token(kind, text, arg) == [kind |-> kind, text |-> text, arg |-> arg]
Text == Token("text", <<65>>, <<>>)
Bad == Token("unsupported", <<Percent, 122>>, <<>>)
Numbers(kind, values) == {Token(kind, <<Percent, Directives[kind]>>, <<v>>) : v \in values}

Others == {Text, Bad, Token("percent", <<Percent, Percent>>, <<>>)}
              \cup Numbers("c", {66}) \cup Numbers("s", {<<>>, <<67, Percent, 100>>})
Some == {0, 10, 16, 255, WORD - 1}

MCCalls ==
    LET tokens == Others \cup UNION {Numbers(k, Some) : k \in {"d", "x", "p"}}
    IN  {<<>>} \cup {<<t, u>> : t, u \in tokens}
        \cup {<<t>> : t \in Numbers("d", 0..WORD - 1) \cup Numbers("x", 0..WORD - 1)}

MCContents == {0, 1, 3}
=============================================================================
