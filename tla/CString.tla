------------------------------ MODULE CString ------------------------------
(***************************************************************************)
(* C strings as the models see them: a text is a sequence of one-         *)
(* character strings, read with C offsets from 0, and the ctype and       *)
(* strtoul()/strtol() conversions the parsers rely on.                     *)
(***************************************************************************)
EXTENDS Naturals, Integers, SequencesExt

NUL == "NUL"                         \* the terminating '\0'
At(e, k) == IF k < Len(e) THEN e[k + 1] ELSE NUL
Slice(s, a, b) == SubSeq(s, a + 1, b)  \* the bytes a .. b-1
Drop(s, k) == SubSeq(s, k + 1, Len(s))

\* F applied to the value of v: v is computed once and F sees the value,
\* not the expression (the parsers' locals are used many times each).
Bind(v, F(_)) == CHOOSE r \in {F(x) : x \in {v}} : TRUE

Chars(str) == [i \in 1..Len(str) |-> Head(SubSeq(str, i, i))]
LowerChars == Chars("abcdefghijklmnopqrstuvwxyz")
UpperChars == Chars("ABCDEFGHIJKLMNOPQRSTUVWXYZ")
HexChars == Chars("0123456789abcdef")
TOUPPER(c) == LET i == SelectInSeq(LowerChars, LAMBDA x : x = c)
              IN IF i = 0 THEN c ELSE UpperChars[i]
TOLOWER(c) == LET i == SelectInSeq(UpperChars, LAMBDA x : x = c)
              IN IF i = 0 THEN c ELSE LowerChars[i]

\* strtoul(): the digits of base b from offset k, and the offset after them.
DigitVal(c) == SelectInSeq(HexChars, LAMBDA x : x = TOLOWER(c)) - 1
IsDigit(c, b) == c # NUL /\ DigitVal(c) \in 0..(b - 1)
RECURSIVE DigitsFrom(_, _, _, _)
DigitsFrom(e, k, b, v) ==
    IF IsDigit(At(e, k), b) THEN DigitsFrom(e, k + 1, b, v * b + DigitVal(At(e, k)))
    ELSE [v |-> v, k |-> k]
\* Base 0: "0x" and a hex digit is hexadecimal, a leading 0 octal.
strtoul0(e, k) ==
    CASE At(e, k) = "0" /\ At(e, k + 1) \in {"x", "X"} /\ IsDigit(At(e, k + 2), 16)
                          -> DigitsFrom(e, k + 2, 16, 0)
      [] At(e, k) = "0" -> DigitsFrom(e, k, 8, 0)
      [] OTHER          -> DigitsFrom(e, k, 10, 0)

(* strtol(str, &end, 0): an optional sign, then strtoul0's digits; with   *)
(* no digit the end is the start of the string.                           *)
strtol0(e) ==
    LET neg == At(e, 0) = "-"
        k0  == IF At(e, 0) \in {"-", "+"} THEN 1 ELSE 0
        r   == strtoul0(e, k0)
    IN IF r.k = k0 THEN [v |-> 0, k |-> 0]
       ELSE [v |-> IF neg THEN -r.v ELSE r.v, k |-> r.k]

====
