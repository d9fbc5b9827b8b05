----------------------------- MODULE Format -----------------------------
(***************************************************************************)
(* lab/lib/printfmt.c: vprintfmt, as vsnprintf calls it.  One action is    *)
(* one case of its switch, or one turn of the loop over ordinary text.     *)
(*                                                                         *)
(* A printed character is a pair: the character and the colour it carries, *)
(* NoColour where the code does not say color.                             *)
(***************************************************************************)
EXTENDS Integers, Sequences

CONSTANTS
    Calls,                      \* of vsnprintf: [buf, n, fmt, args, color]; no buf is NULL
    Characters,                 \* what a char can be
    IntBits, LongLongBits,      \* widths of int (and long), and long long
    MAXERROR, E_INVAL,
    error_string                \* the texts of the errors, from 1

NUL == "NUL"
None == "none"
NULL == <<"NULL">>
NoColour == [fg |-> 0, bg |-> 0]
Undefined == "undefined"
Digit == <<"0", "1", "2", "3", "4", "5", "6", "7", "8", "9", "a", "b", "c", "d", "e", "f">>
DecimalDigits == {Digit[k] : k \in 1 .. 10}
Unprintable == {"\n", "\t"}
DigitValue(ch) == (CHOOSE k \in 1 .. 10 : Digit[k] = ch) - 1
Colours == [fg : 0 .. 7, bg : 0 .. 7]

ASSUME FormatAssumption ==
    /\ IntBits \in Nat \ {0} /\ LongLongBits \in Nat /\ IntBits <= LongLongBits
    /\ MAXERROR \in Nat
    /\ error_string \in [1 .. MAXERROR - 1 -> Seq(Characters)]
\* What vprintfmt prints of its own are characters.
ASSUME CharactersAssumption ==
    /\ {NUL, Undefined, " ", "%", "-", "?", "(", ")", "n", "u", "l", "x", "r", "o", "0", "e"}
          \subseteq Characters
    /\ \A k \in 1 .. 16 : Digit[k] \in Characters
\* Powers of two are numbers (no prover computes with ^).
ASSUME PowersAssumption == \A k \in 0 .. LongLongBits : 2^k \in Nat \ {0}
\* vsnprintf is called with a string, and whatever buf, n and colour.
ASSUME CallsAssumption ==
    \A c \in Calls :
        /\ c.fmt \in Seq(Characters) /\ c.color \in Colours
        /\ c.buf \in BOOLEAN /\ c.n \in Int

VARIABLES
    call,               \* history: what vsnprintf was called with
    fmt, ap,            \* what is left of the format and of the arguments
    color,              \* the global: [fg, bg]; call.color is its value before
    at,                 \* "call", "text", "colour", "escape", "return"
    seen,               \* the characters of the escape sequence read so far
    padc, width, precision, lflag, altflag,
    out,                \* all that was given to putch
    b,                  \* vsnprintf's sprintbuf, with what it points to: [mem, cnt]
    rc

flags == <<padc, width, precision, lflag, altflag>>
vars == <<call, fmt, ap, color, at, seen, flags, out, b, rc>>

---------------------------------------------------------------------------
(* putch *)

Fits(s, n) == IF Len(s) <= n THEN s ELSE SubSeq(s, 1, n)

\* Mutant: the last place of the buffer is taken by a character.
SprintputchFull(s) ==
    [mem |-> Fits(b.mem \o s, call.n), cnt |-> b.cnt + Len(s)]

\* sprintputch of each character: ebuf is buf + n - 1, and all are counted.
Sprintputch(s) ==
    [mem |-> Fits(b.mem \o s, call.n - 1), cnt |-> b.cnt + Len(s)]

Putch(s) ==
    /\ out' = out \o s
    /\ b' = Sprintputch([k \in DOMAIN s |-> s[k][1]])

With(clr, chars) == [k \in DOMAIN chars |-> <<chars[k], clr>>]
Times(n, ch) == IF n > 0 THEN [k \in 1 .. n |-> ch] ELSE <<>>

---------------------------------------------------------------------------
(* Ordinary text and colour codes. *)

Here == Head(fmt)       \* *fmt: every format ends with NUL
Reads(n) == fmt' = SubSeq(fmt, n + 1, Len(fmt))

TextChar ==
    /\ at = "text" /\ Here \notin {NUL, "%", "["}
    /\ Putch(With(color, <<Here>>))
    /\ Reads(1)
    /\ UNCHANGED <<call, ap, color, at, seen, flags, rc>>

BeginColour ==
    /\ at = "text" /\ Here = "["
    /\ at' = "colour"
    /\ Reads(1)
    /\ UNCHANGED <<call, ap, color, seen, flags, out, b, rc>>

\* The number of digits at the head of the format, and their value.
DigitsAhead == CHOOSE k \in 0 .. Len(fmt) - 1 :
    fmt[k + 1] \notin DecimalDigits /\ \A j \in 1 .. k : fmt[j] \in DecimalDigits
NumberAhead ==
    LET number[k \in 0 .. DigitsAhead] ==
            IF k = 0 THEN 0 ELSE number[k - 1] * 10 + DigitValue(fmt[k])
    IN  number[DigitsAhead]

\* set_color: ANSI colours to those of the display.
set_color(clr) == IF clr \in 0 .. 6 THEN <<0, 4, 2, 6, 1, 5, 3>>[clr + 1] ELSE 7

\* Mutant: codes are not mapped, and not bounded.
SetColourUnmapped(c) ==
    IF c >= 40 THEN [color EXCEPT !.bg = c - 40]
    ELSE IF c >= 30 THEN [color EXCEPT !.fg = c - 30]
    ELSE color

SetColour(c) ==
    IF c \in 30 .. 37 THEN [color EXCEPT !.fg = set_color(c - 30)]
    ELSE IF c \in 40 .. 47 THEN [color EXCEPT !.bg = set_color(c - 40)]
    ELSE color

\* Mutant: the semicolon is left for the next turn.
ColourNumberStays ==
    /\ at = "colour" /\ Here # "m"
    /\ color' = SetColour(NumberAhead)
    /\ Reads(DigitsAhead)
    /\ UNCHANGED <<call, ap, at, seen, flags, out, b, rc>>

\* One turn of the loop over a code.  A character that is no digit, semicolon
\* or m (the NUL too) is not read: the loop turns for ever, changing nothing.
ColourNumber ==
    /\ at = "colour" /\ Here # "m"
    /\ color' = SetColour(NumberAhead)
    /\ Reads(IF fmt[DigitsAhead + 1] = ";" THEN DigitsAhead + 1 ELSE DigitsAhead)
    /\ UNCHANGED <<call, ap, at, seen, flags, out, b, rc>>

EndColour ==
    /\ at = "colour" /\ Here = "m"
    /\ at' = "text"
    /\ Reads(1)
    /\ UNCHANGED <<call, ap, color, seen, flags, out, b, rc>>

---------------------------------------------------------------------------
(* The flags of an escape sequence. *)

\* Mutant: the flags of the sequence before are kept.
PercentKeepsFlags ==
    /\ at = "text" /\ Here = "%"
    /\ at' = "escape"
    /\ seen' = <<>>
    /\ Reads(1)
    /\ UNCHANGED <<call, ap, color, flags, out, b, rc>>

Percent ==
    /\ at = "text" /\ Here = "%"
    /\ at' = "escape"
    /\ seen' = <<>>
    /\ padc' = " " /\ width' = -1 /\ precision' = -1
    /\ lflag' = 0 /\ altflag' = FALSE
    /\ Reads(1)
    /\ UNCHANGED <<call, ap, color, out, b, rc>>

Escape(chars) == at = "escape" /\ Here \in chars
\* reswitch
Reswitch(n) ==
    /\ seen' = seen \o SubSeq(fmt, 1, n)
    /\ Reads(n)
    /\ UNCHANGED <<call, color, at, out, b, rc>>

PadFlag ==
    /\ Escape({"-", "0"})
    /\ padc' = Here
    /\ Reswitch(1)
    /\ UNCHANGED <<ap, width, precision, lflag, altflag>>

\* process_precision: the first number is the width, a later one, or one
\* after a dot, the precision.
ProcessPrecision(v) ==
    IF width < 0 THEN width' = v /\ precision' = -1
    ELSE precision' = v /\ UNCHANGED width

WidthDigits ==
    /\ Escape(DecimalDigits \ {"0"})
    /\ ProcessPrecision(NumberAhead)
    /\ Reswitch(DigitsAhead)
    /\ UNCHANGED <<ap, padc, lflag, altflag>>

Star ==
    /\ Escape({"*"})
    /\ ProcessPrecision(Head(ap))
    /\ ap' = Tail(ap)
    /\ Reswitch(1)
    /\ UNCHANGED <<padc, lflag, altflag>>

Dot ==
    /\ Escape({"."})
    /\ width' = IF width < 0 THEN 0 ELSE width
    /\ Reswitch(1)
    /\ UNCHANGED <<ap, padc, precision, lflag, altflag>>

Hash ==
    /\ Escape({"#"})
    /\ altflag' = TRUE
    /\ Reswitch(1)
    /\ UNCHANGED <<ap, padc, width, precision, lflag>>

LongFlag ==
    /\ Escape({"l"})
    /\ lflag' = lflag + 1
    /\ Reswitch(1)
    /\ UNCHANGED <<ap, padc, width, precision, altflag>>

---------------------------------------------------------------------------
(* Conversions. *)

Break == at' = "text" /\ Reads(1) /\ UNCHANGED <<call, color, seen, flags, rc>>

\* An argument is read with the width that the flags say.
Bits == IF lflag >= 2 THEN LongLongBits ELSE IntBits
getuint(v) == v % 2^Bits
getint(v) == LET u == v % 2^Bits IN IF u >= 2^(Bits - 1) THEN u - 2^Bits ELSE u

\* Digits of num, the most significant first.
Digits(num, base) ==
    LET digits[k \in 0 .. num] ==
            IF k < base THEN <<Digit[k + 1]>>
            ELSE Append(digits[k \div base], Digit[(k % base) + 1])
    IN  digits[num]

\* Each digit but the first takes one from the width; the rest is padded.
Printnum(num, base) ==
    LET s == Digits(num, base) IN With(NoColour, Times(width - Len(s), padc) \o s)

Char ==
    /\ Escape({"c"})
    /\ Putch(With(color, <<Head(ap)>>))
    /\ ap' = Tail(ap)
    /\ Break

SignedDecimal ==
    /\ Escape({"d"})
    /\ LET v == getint(Head(ap))
       IN  IF v < 0 THEN Putch(With(NoColour, <<"-">>) \o Printnum((-v) % 2^LongLongBits, 10))
           ELSE Putch(Printnum(v, 10))
    /\ ap' = Tail(ap)
    /\ Break

Unsigned ==
    /\ Escape({"u", "o", "x"})
    /\ LET base == CASE Here = "u" -> 10 [] Here = "o" -> 8 [] Here = "x" -> 16
       IN  Putch(Printnum(getuint(Head(ap)), base))
    /\ ap' = Tail(ap)
    /\ Break

Pointer ==
    /\ Escape({"p"})
    /\ Putch(With(NoColour, <<"0", "x">>) \o Printnum(Head(ap) % 2^IntBits, 16))
    /\ ap' = Tail(ap)
    /\ Break

\* The characters of a string that are shown: at most precision of them.
Shown(s) ==
    LET n == IF precision >= 0 /\ precision < Len(s) THEN precision ELSE Len(s)
    IN  [k \in 1 .. n |-> IF altflag /\ s[k] \in Unprintable THEN "?" ELSE s[k]]

StringChars(s, clr) ==
    LET pad == width - Len(Shown(s))
    IN  IF padc # "-" THEN With(clr, Times(pad, padc) \o Shown(s))
        ELSE With(clr, Shown(s) \o Times(pad, " "))

String ==
    /\ Escape({"s"})
    /\ LET s == IF Head(ap) = NULL THEN <<"(", "n", "u", "l", "l", ")">> ELSE Head(ap)
       IN  Putch(StringChars(s, color))
    /\ ap' = Tail(ap)
    /\ Break

\* The magnitude of an int; that of the least one overflows.
Magnitude(v) == IF v < 0 /\ v # -2^(IntBits - 1) THEN -v ELSE v

\* printfmt is called for the text.  A negative err reads before the table.
Error ==
    /\ Escape({"e"})
    /\ LET err == Magnitude(Head(ap))
       IN  IF err < 0 THEN Putch(With(color, <<Undefined>>))
           ELSE IF err >= MAXERROR \/ err = 0
           THEN Putch(With(color, <<"e", "r", "r", "o", "r", " ">>) \o With(NoColour, Digits(err, 10)))
           ELSE Putch(With(color, error_string[err]))
    /\ ap' = Tail(ap)
    /\ Break

PercentSign ==
    /\ Escape({"%"})
    /\ Putch(With(NoColour, <<"%">>))
    /\ UNCHANGED ap
    /\ Break

Known == DecimalDigits \cup {"-", "*", ".", "#", "l", "c", "e", "s", "d", "u", "o", "p", "x", "%"}

\* Mutant: the rest of the sequence is skipped.
UnrecognizedSkips ==
    /\ at = "escape" /\ Here \notin Known
    /\ Putch(With(NoColour, <<"%">>))
    /\ at' = "text"
    /\ UNCHANGED <<call, fmt, ap, color, seen, flags, rc>>

\* The sequence is read again, from after its %, as text.
Unrecognized ==
    /\ at = "escape" /\ Here \notin Known
    /\ Putch(With(NoColour, <<"%">>))
    /\ fmt' = seen \o fmt
    /\ at' = "text"
    /\ UNCHANGED <<call, ap, color, seen, flags, rc>>

HasPlace == call.buf /\ call.n >= 1

\* vsnprintf with no buffer, or no place in it for the NUL.
VsnprintfInvalid ==
    /\ at = "call" /\ ~HasPlace
    /\ at' = "return"
    /\ rc' = -E_INVAL
    /\ UNCHANGED <<call, fmt, ap, color, seen, flags, out, b>>

Vsnprintf ==
    /\ at = "call" /\ HasPlace
    /\ at' = "text"
    /\ UNCHANGED <<call, fmt, ap, color, seen, flags, out, b, rc>>

\* vprintfmt returns, and vsnprintf ends the string.
EndOfFormat ==
    /\ at = "text" /\ Here = NUL
    /\ at' = "return"
    /\ b' = [b EXCEPT !.mem = Append(@, NUL)]
    /\ rc' = b.cnt
    /\ UNCHANGED <<call, fmt, ap, color, seen, flags, out>>

Next ==
    \/ VsnprintfInvalid \/ Vsnprintf
    \/ TextChar \/ BeginColour \/ ColourNumber \/ EndColour \/ Percent
    \/ PadFlag \/ WidthDigits \/ Star \/ Dot \/ Hash \/ LongFlag
    \/ Char \/ SignedDecimal \/ Unsigned \/ Pointer \/ String \/ Error
    \/ PercentSign \/ Unrecognized \/ EndOfFormat

\* vsnprintf is called, with the colour that an earlier call left.
Init ==
    /\ call \in Calls
    /\ fmt = Append(call.fmt, NUL)
    /\ ap = call.args
    /\ color = call.color
    /\ at = "call"
    /\ seen = <<>>
    /\ padc = " " /\ width = -1 /\ precision = -1 /\ lflag = 0 /\ altflag = FALSE
    /\ out = <<>>
    /\ b = [mem |-> <<>>, cnt |-> 0]
    /\ rc = None

Spec == Init /\ [][Next]_vars
FairSpec == Spec /\ WF_vars(Next)

---------------------------------------------------------------------------
\* What the caller of a function like printf owes: an argument is of the type
\* that the conversion reads.
ArgumentsMatch ==
    at = "escape" =>
        /\ Here \in {"*", "d", "u", "o", "x", "p", "e"} => Head(ap) \in Int
        /\ Here = "s" => Head(ap) \in Seq(Characters) \cup {NULL}
        /\ Here = "c" => Head(ap) \in Characters

Types ==
    /\ color \in Colours
    /\ at \in {"call", "text", "colour", "escape", "return"}
    /\ padc \in {" ", "-", "0"} /\ width \in Int /\ precision \in Int
    /\ lflag \in Nat /\ altflag \in BOOLEAN
    /\ out \in Seq(Characters \X Colours)
    /\ b.mem \in Seq(Characters) /\ b.cnt \in Nat

TypeOK == Types /\ ArgumentsMatch

\* vsnprintf never writes past the n places it was given nor through a NULL,
\* ends what it wrote with a NUL, keeps the beginning of the output, and returns the length the
\* whole output has.
BufferHoldsPrefix ==
    /\ b.mem # <<>> => call.buf /\ Len(b.mem) <= call.n
    /\ at = "return" /\ HasPlace =>
          /\ rc = Len(out)
          /\ \E k \in 0 .. Len(out) :
                /\ k = Len(out) \/ k = call.n - 1
                /\ b.mem = Append([j \in 1 .. k |-> out[j][1]], NUL)
=========================================================================
