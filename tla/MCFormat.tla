---------------------------- MODULE MCFormat ----------------------------
(* Instances of Format for TLC: format strings written from directives,    *)
(* and what FormatReference says that they print.                          *)
EXTENDS Format, SequencesExt

CONSTANT Directives         \* a set of them, from those below

Reference == INSTANCE FormatReference WITH Ansi <- set_color

Least == -2^(IntBits - 1)
LeastLong == -2^(LongLongBits - 1)

\* The last of - and 0 counts.
Flags == {<<>>, <<"-">>, <<"0">>, <<"#">>, <<"-", "0">>}
Numbers ==
       {Reference!Number("d", f, w, 0, v) : f \in {<<>>, <<"0">>}, w \in {0, 3}, v \in {0, -4, Least}}
  \cup {Reference!Number("d", f, 3, 0, v) : f \in Flags, v \in {0, -4}}
  \cup {Reference!Number("d", <<>>, 2, 2, v) : v \in {20, LeastLong}}
  \cup {Reference!Number(c, f, 3, 0, -1) : c \in {"u", "o", "x"}, f \in {<<>>, <<"0">>, <<"-">>}}
  \cup {Reference!Number(c, <<>>, 12, 2, -1) : c \in {"u", "o", "x"}}
  \cup {Reference!Number("x", <<>>, 0, 1, 10), Reference!Number("p", <<"0">>, 4, 0, 14),
        Reference!Number("p", <<"-">>, 4, 0, 14),
        Reference!Starred("d", 3, 5)}
Strings ==
       {Reference!Str(f, 4, p, <<"a", "\n", "z">>) :
            f \in Flags \cup {<<"-", "#">>}, p \in {0, 2}}
  \cup {Reference!Str(<<>>, 0, p, s) : p \in {0, 1, 3}, s \in {<<>>, <<"a", "z">>}}
  \cup {Reference!Str(<<"-">>, 7, 0, NULL)}
Others ==
    {Reference!Text(<<"t">>), Reference!Text(<<"7", "-">>), Reference!PercentChar, Reference!OneChar("q"),
     Reference!Literal(<<"k">>), Reference!Literal(<<"0", "3", "l", ".", "k">>)}
  \cup {Reference!ErrorNumber(v) : v \in {0, 3, -3, MAXERROR, -MAXERROR}}
  \cup {Reference!Colour(c) : c \in {<<31>>, <<42>>, <<>>, <<34, 47>>, <<1, 30, 40>>, <<37, 36, 49>>}}
  \cup {Reference!Stray(s) : s \in {<<>>, <<"x">>, <<"3", "1">>, <<"4", "2", ";">>}}

MCDirectives == Numbers \cup Strings \cup Others

Concatenated(Op(_), ds) == FoldLeft(LAMBDA s, d : s \o Op(d), <<>>, ds)

\* Strings of up to two directives, with buffers that hold nothing, a part
\* or all of the output, or no buffer, and the colour an earlier call left.
CallOf(ds, buf, size, clr) ==
    [fmt |-> Concatenated(Reference!Chars, ds), args |-> Concatenated(Reference!Arguments, ds),
     buf |-> buf, n |-> size, color |-> clr, directives |-> ds]

MCCalls ==
    {CallOf(ds, TRUE, size, [fg |-> 7, bg |-> IF size = 4 THEN 2 ELSE 0]) :
        ds \in {<<d>> : d \in Directives} \cup (Directives \X Directives),
        size \in {-1, 0, 1, 4, 40}}
    \cup {CallOf(<<d>>, FALSE, size, [fg |-> 7, bg |-> 0]) : d \in Directives, size \in {0, 40}}

\* A character is a string of its own here.
MCCharacters == STRING

MCErrorString == [err \in 1 .. MAXERROR - 1 |-> <<"E", Digit[err + 1]>>]

---------------------------------------------------------------------------
Meant(d, clr) == Reference!Shows(d, clr, IntBits, LongLongBits, MAXERROR - 1)

\* What the format should print, and the colour it should leave.
Meaning ==
    FoldLeft(LAMBDA acc, d :
                [out |-> acc.out \o Meant(d, acc.color), color |-> Reference!After(d, acc.color)],
             [out |-> <<>>, color |-> call.color], call.directives)

\* vprintfmt prints what the directives mean, one after the other: nothing
\* that one of them sets (flags, width, precision, arguments, the position in
\* the format after a sequence it does not know) shows in the next, except for
\* the colour.  What a directive means is what the code prints for it alone, also
\* where a comment has it otherwise (the - of a number, see ShowsNumber).
OutputAsSpecified ==
    at = "return" /\ HasPlace => out = Meaning.out /\ color = Meaning.color

Endless == \E k \in DOMAIN call.directives : call.directives[k].kind = "stray"

\* vsnprintf returns, whatever the codes and conversions of the format and also
\* when it refuses the buffer, unless the format has a [ after which no code
\* ends.  With such a one vprintfmt's loop over the code (printfmt.c:115-131)
\* comes to a character that it does not read, and vsnprintf never returns.
FormatReturns ==
    /\ HasPlace /\ Endless => [](at # "return")
    /\ ~(HasPlace /\ Endless) => <>(at = "return")

=========================================================================
