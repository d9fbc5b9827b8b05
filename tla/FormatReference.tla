------------------------- MODULE FormatReference -------------------------
(***************************************************************************)
(* What a format string means, directive by directive.  A directive is a   *)
(* record; Chars writes it down, Arguments lists what it takes, and Shows  *)
(* is what it prints in a colour, with no state but that colour.           *)
(***************************************************************************)
EXTENDS Integers, Sequences, SequencesExt

CONSTANTS NoColour, NULL, Digit, Ansi(_)

---------------------------------------------------------------------------
(* Directives. *)

Text(s) == [kind |-> "text", s |-> s]
Colour(codes) == [kind |-> "colour", codes |-> codes]
\* A [ after which no code ends: s and what follows it are not codes and an m.
Stray(s) == [kind |-> "stray", s |-> s]
Number(conv, flag, width, longs, v) ==
    [kind |-> "number", conv |-> conv, flag |-> flag, width |-> width, longs |-> longs, v |-> v]
\* A star takes the width from the arguments.
Starred(conv, width, v) ==
    [kind |-> "starred", conv |-> conv, flag |-> <<>>, width |-> width, longs |-> 0, v |-> v]
Str(flag, width, precision, s) ==
    [kind |-> "string", flag |-> flag, width |-> width, precision |-> precision, s |-> s]
Literal(s) == [kind |-> "literal", s |-> s]     \* % and characters that form no conversion
OneChar(c) == [kind |-> "char", c |-> c]
PercentChar == [kind |-> "percent"]
ErrorNumber(v) == [kind |-> "error", v |-> v]

\* The decimal digits of a number of at most two digits.
Decimal(n) == IF n < 10 THEN <<Digit[n + 1]>> ELSE <<Digit[(n \div 10) + 1], Digit[(n % 10) + 1]>>
Field(n) == IF n = 0 THEN <<>> ELSE Decimal(n)

Separated(codes) ==
    FoldLeft(LAMBDA acc, c : acc \o (IF acc = <<>> THEN <<>> ELSE <<";">>) \o Decimal(c), <<>>, codes)

Chars(d) ==
    CASE d.kind = "text" -> d.s
      [] d.kind = "colour" -> <<"[">> \o Separated(d.codes) \o <<"m">>
      [] d.kind = "stray" -> <<"[">> \o d.s
      [] d.kind = "number" ->
            <<"%">> \o d.flag \o Field(d.width) \o [k \in 1 .. d.longs |-> "l"] \o <<d.conv>>
      [] d.kind = "starred" -> <<"%", "*", d.conv>>
      [] d.kind = "string" ->
            <<"%">> \o d.flag \o Field(d.width)
            \o (IF d.precision = 0 THEN <<>> ELSE <<".">> \o Decimal(d.precision)) \o <<"s">>
      [] d.kind = "literal" -> <<"%">> \o d.s
      [] d.kind = "char" -> <<"%", "c">>
      [] d.kind = "percent" -> <<"%", "%">>
      [] d.kind = "error" -> <<"%", "e">>

Arguments(d) ==
    CASE d.kind \in {"number", "error"} -> <<d.v>>
      [] d.kind = "starred" -> <<d.width, d.v>>
      [] d.kind = "string" -> <<d.s>>
      [] d.kind = "char" -> <<d.c>>
      [] OTHER -> <<>>

---------------------------------------------------------------------------
(* Meaning. *)

\* n in a base: digit k stands for n \div base^(L-k), and the first is 0 for
\* n = 0 only.
Numeral(n, base) ==
    LET L == CHOOSE l \in 1 .. 20 : n < base^l /\ (l = 1 \/ base^(l - 1) <= n)
    IN  [k \in 1 .. L |-> Digit[((n \div base^(L - k)) % base) + 1]]

Base(conv) == CASE conv = "o" -> 8 [] conv \in {"x", "p"} -> 16 [] OTHER -> 10

Filler(n, pad) == [k \in {j \in 1 .. 20 : j <= n} |-> pad]
Right(s, w, pad) == Filler(w - Len(s), pad) \o s
Left(s, w) == s \o Filler(w - Len(s), " ")

InColour(clr, s) == [k \in DOMAIN s |-> <<s[k], clr>>]

\* What a field is padded with: the last - or 0 among the flags.
Pad(flag) ==
    LET pads == SelectSeq(flag, LAMBDA f : f # "#")
    IN  IF pads = <<>> THEN " " ELSE Last(pads)

\* The sign comes before the field, which is as wide as for the magnitude.
\* The - of a number is what printnum pads it with, on the left: %-3d of 0 is
\* --0.  The comment at printfmt.c:146 ("flag to pad on the right") is true of
\* strings only.
ShowsNumber(d, bits) ==
    LET u == d.v % 2^bits
        negative == d.conv = "d" /\ d.v < 0
        prefix == IF negative THEN <<"-">> ELSE IF d.conv = "p" THEN <<"0", "x">> ELSE <<>>
        digits == Numeral(IF negative THEN -d.v ELSE u, Base(d.conv))
    IN  InColour(NoColour, prefix \o Right(digits, d.width, Pad(d.flag)))

ShowsString(d) ==
    LET s == IF d.s = NULL THEN <<"(", "n", "u", "l", "l", ")">> ELSE d.s
        cut == IF d.precision = 0 THEN s
               ELSE SubSeq(s, 1, IF d.precision < Len(s) THEN d.precision ELSE Len(s))
        alternate == \E i \in DOMAIN d.flag : d.flag[i] = "#"
        shown == [k \in DOMAIN cut |->
                    IF alternate /\ cut[k] \in {"\n", "\t"} THEN "?" ELSE cut[k]]
    IN  IF Pad(d.flag) = "-" THEN Left(shown, d.width) ELSE Right(shown, d.width, Pad(d.flag))

\* printfmt.c:16: "The integer may be positive or negative".
ShowsError(d, messages, clr) ==
    LET e == IF d.v < 0 THEN -d.v ELSE d.v
    IN  IF e \in 1 .. messages THEN InColour(clr, <<"E", Digit[e + 1]>>)
        ELSE InColour(clr, <<"e", "r", "r", "o", "r", " ">>) \o InColour(NoColour, Numeral(e, 10))

Shows(d, clr, int, longlong, messages) ==
    CASE d.kind = "text" -> InColour(clr, d.s)
      [] d.kind \in {"colour", "stray"} -> <<>>
      [] d.kind \in {"number", "starred"} -> ShowsNumber(d, IF d.longs = 2 THEN longlong ELSE int)
      [] d.kind = "string" -> InColour(clr, ShowsString(d))
      [] d.kind = "literal" -> InColour(NoColour, <<"%">>) \o InColour(clr, d.s)
      [] d.kind = "char" -> InColour(clr, <<d.c>>)
      [] d.kind = "percent" -> InColour(NoColour, <<"%">>)
      [] d.kind = "error" -> ShowsError(d, messages, clr)

\* The last code of each kind counts.
After(d, clr) ==
    IF d.kind # "colour" THEN clr
    ELSE FoldLeft(LAMBDA c, code :
            [fg |-> IF code \in 30 .. 37 THEN Ansi(code - 30) ELSE c.fg,
             bg |-> IF code \in 40 .. 47 THEN Ansi(code - 40) ELSE c.bg], clr, d.codes)
=========================================================================
