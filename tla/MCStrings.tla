--------------------------- MODULE MCStrings ---------------------------
(***************************************************************************)
(* Calls of the string routines for TLC, and what each of them should do,  *)
(* said of whole strings.                                                  *)
(***************************************************************************)
EXTENDS Strings, SequencesExt

MCMemSize == 12

\* Memory from a sequence of bytes; the rest is a byte that ends no string.
Memory(bytes) == [a \in Addr |-> IF a < Len(bytes) THEN bytes[a + 1] ELSE 7]
Numbered == [a \in Addr |-> a + 100]

Call(m, fn, dst, src, size, ch) ==
    [mem |-> m, fn |-> fn, dst |-> dst, src |-> src, n |-> size, c |-> ch]

Texts(chars, len) == {t \o <<0>> : t \in SeqOf(chars, len)}

\* Two short strings at 0 and at 4: equal, prefixes of one another, with a byte
\* that is negative as a char.
Pairs == {Memory(t \o [i \in 1 .. 4 - Len(t) |-> 9] \o u) :
            t \in Texts({97, 200}, 3), u \in Texts({97, 200}, 2)}
Sizes == 0 .. 4

Lookers ==
    {Call(m, fn, 4, 0, 0, 0) : m \in Pairs, fn \in {"strlen", "strcmp"}}
    \cup {Call(m, fn, 4, 0, size, 0) :
            m \in Pairs, fn \in {"strnlen", "strncmp", "memcmp"}, size \in Sizes}
    \cup {Call(m, fn, 0, 0, size, ch) : m \in Pairs, size \in Sizes,
            fn \in {"strchr", "strfind", "memfind"}, ch \in {0, 97, 200, 97 + 256}}

\* dst is behind the source, and holds a string that strcat goes on from.
Copiers ==
    {Call(m, fn, 4, 0, 0, 0) : m \in Pairs, fn \in {"strcpy", "strcat"}}
    \cup {Call(m, fn, 5, 0, size, 0) :
            m \in Pairs, fn \in {"strncpy", "strlcpy"}, size \in 0 .. 6}

\* Every block, overlapping or not, aligned or not.
Blocks ==
    {c \in {Call(Numbered, fn, dst, src, size, 300) :
                fn \in {"memset", "memmove", "memcpy"}, dst \in Addr, src \in Addr,
                size \in 0 .. 9} : c.dst + c.n <= MemSize /\ c.src + c.n <= MemSize}

\* Blanks, signs, prefixes, digits of each base and none, and numbers too big.
Numerals == Texts({32, 45, 48, 120, 55, 97}, 4) \cup
    {<<43, 57, 71, 0>>, <<9, 43, 49, 50, 56, 0>>, <<45, 49, 50, 56, 0>>,
     <<48, 120, 70, 70, 70, 0>>, <<57, 57, 57, 57, 57, 57, 0>>}
Readers == {Call(Memory(t), "strtol", 0, 0, 0, base) : t \in Numerals, base \in {0, 10, 16, 36}}

MCCases == Lookers \cup Copiers \cup Blocks \cup Readers

---------------------------------------------------------------------------
(* What the routines mean *)

FirstOr(set, default) == IF set = {} THEN default ELSE Min(set)
Least(i, j) == IF i < j THEN i ELSE j

\* The string at p when the routine was called, and the n bytes at p.
Length(p) == FirstOr({k \in 0 .. MemSize - 1 - p : call.mem[p + k] = NUL}, MemSize)
BytesAt(p, size) == [i \in 1 .. size |-> call.mem[p + i - 1]]
StringAt(p) == BytesAt(p, Length(p))

Overwritten(p, bytes) ==
    [a \in Addr |-> IF a - p + 1 \in DOMAIN bytes THEN bytes[a - p + 1] ELSE call.mem[a]]

src == StringAt(call.src)
dst == StringAt(call.dst)
PadTo(size, t) == [i \in 1 .. size |-> IF i <= Len(t) THEN t[i] ELSE NUL]
UpTo(size, t) == SubSeq(t, 1, Least(size, Len(t)))

\* The order of two strings is that of the first bytes in which they differ,
\* an end being less than any byte.
Order(t, u) ==
    LET end(v) == Append(v, NUL)
        diff == {i \in 1 .. Least(Len(t), Len(u)) + 1 : end(t)[i] # end(u)[i]}
    IN  IF diff = {} THEN 0 ELSE end(t)[Min(diff)] - end(u)[Min(diff)]

Found(set, default) == FirstOr({call.src + i - 1 : i \in set}, default)
Places(t) == {i \in DOMAIN t : t[i] = Char(call.c)}

\* A numeral, as a whole: blanks, a sign, a prefix, digits.
Numeral ==
    LET text == Append(src, NUL)
        start == FirstOr({i \in DOMAIN text : text[i] \notin {32, 9}}, 0)
        digits == IF text[start] \in {43, 45} THEN start + 1 ELSE start
        hex == call.c \in {0, 16} /\ text[digits] = 48 /\ text[digits + 1] = 120
        base == CASE hex -> 16
                  [] call.c = 0 /\ ~hex -> IF text[digits] = 48 THEN 8 ELSE 10
                  [] OTHER -> call.c
        first == IF hex THEN digits + 2 ELSE digits
        stop == FirstOr({i \in first .. Len(text) : Digit(text[i]) >= base}, 0)
        number == FoldLeft(LAMBDA sum, b : base * sum + Digit(b), 0, SubSeq(text, first, stop - 1))
    IN  [value |-> Long(IF text[start] = 45 THEN -number ELSE number),
         end |-> call.src + stop - 1]

Answered ==
    CASE call.fn = "strlen"  -> Len(src)
      [] call.fn = "strnlen" -> Least(call.n, Length(call.src))
      [] call.fn = "strcmp"  -> Order(src, dst)
      [] call.fn = "strncmp" -> Order(UpTo(call.n, src), UpTo(call.n, dst))
      [] call.fn = "memcmp"  -> Order(BytesAt(call.src, call.n), BytesAt(call.dst, call.n))
      [] call.fn = "strchr"  -> Found(Places(src), Null)
      [] call.fn = "strfind" -> Found(Places(src), call.src + Len(src))
      [] call.fn = "memfind" -> Found(Places(BytesAt(call.src, call.n)), call.src + call.n)
      [] call.fn = "strlcpy" -> Len(UpTo(call.n - 1, src))
      [] call.fn = "strtol"  -> Numeral.value
      [] OTHER -> call.dst

Written ==
    CASE call.fn = "strcpy"  -> Overwritten(call.dst, Append(src, NUL))
      [] call.fn = "strcat"  -> Overwritten(call.dst, Append(dst \o src, NUL))
      [] call.fn = "strncpy" -> Overwritten(call.dst, PadTo(call.n, src))
      [] call.fn = "strlcpy" /\ call.n > 0 ->
            Overwritten(call.dst, Append(UpTo(call.n - 1, src), NUL))
      [] OTHER -> call.mem

\* Each routine answers what its name says of the strings it was given, and
\* changes what it copies to and nothing else; strtol stops at the first
\* character that belongs to no number.
StringsAsSpecified ==
    pc = "done" =>
        /\ ret = Answered
        /\ call.fn \notin {"memset", "memmove", "memcpy"} => mem = Written
        /\ call.fn = "strtol" => s = Numeral.end
=========================================================================
