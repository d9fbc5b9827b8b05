-------------------------- MODULE FormatProofs --------------------------
(***************************************************************************)
(* Proofs about Format, for every format, every width of an int and every  *)
(* size of the buffer, as long as the caller's arguments are of the types  *)
(* that the conversions read (ArgumentsMatch).                             *)
(***************************************************************************)
EXTENDS Format, WellFoundedInduction, TLAPS

---------------------------------------------------------------------------
(* Numbers. *)

\* A non-empty set of numbers has a least element.
LEMMA LeastExists ==
  ASSUME NEW T, T \subseteq Nat, T # {}
  PROVE  \E x \in T : \A y \in T : x <= y
<1> DEFINE R == OpToRel(<, Nat)
<1>1. IsWellFoundedOn(R, Nat)
  BY NatLessThanWellFounded
<1>2. \A x, y \in Nat : x < y => <<x, y>> \in R
  BY DEF OpToRel
<1> HIDE DEF R
<1>3. PICK x \in T : \A y \in T : ~ (<<y, x>> \in R)
  BY <1>1, WFMin
<1>4. \A y \in T : ~ (y < x)
  BY <1>2, <1>3
<1> QED
  BY <1>4

\* What holds of 0, and of a number when it holds of the one before, holds of
\* all numbers up to n.
LEMMA UpTo ==
  ASSUME NEW n \in Nat, NEW T, 0 \in T, \A k \in 0 .. n - 1 : k \in T => k + 1 \in T
  PROVE  \A k \in 0 .. n : k \in T
<1> DEFINE Not == {k \in 0 .. n : k \notin T}
<1> SUFFICES ASSUME Not # {} PROVE FALSE
  OBVIOUS
<1>0. Not \subseteq Nat
  OBVIOUS
<1> HIDE DEF Not
<1>1. PICK x \in Not : \A y \in Not : x <= y
  BY <1>0, LeastExists
<1>2. x \in 0 .. n /\ x \notin T
  BY <1>1 DEF Not
<1>3. x # 0 /\ x - 1 \in 0 .. n - 1
  BY <1>2
<1>4. x - 1 \in T
  BY <1>1, <1>3 DEF Not
<1>5. (x - 1) + 1 \in T
  BY <1>3, <1>4
<1> QED
  BY <1>2, <1>5

LEMMA NULIsNoDigit == NUL \notin DecimalDigits
BY DEF NUL, DecimalDigits, Digit

\* The digits at the head of the format end before its NUL.
LEMMA DigitsEnd ==
  ASSUME fmt \in Seq(Characters), fmt # <<>>, fmt[Len(fmt)] = NUL
  PROVE  /\ DigitsAhead \in 0 .. Len(fmt) - 1
         /\ \A j \in 1 .. DigitsAhead : fmt[j] \in DecimalDigits
<1> DEFINE T == {k \in 0 .. Len(fmt) - 1 : fmt[k + 1] \notin DecimalDigits}
<1>0. Len(fmt) \in Nat \ {0}
  OBVIOUS
<1>1. Len(fmt) - 1 \in T
  BY <1>0, NULIsNoDigit
<1>2. T \subseteq Nat
  BY <1>0
<1>3. PICK k \in T : \A j \in T : k <= j
  BY <1>1, <1>2, LeastExists
<1>4. k \in 0 .. Len(fmt) - 1 /\ fmt[k + 1] \notin DecimalDigits
  BY <1>3
<1>5. \A j \in 1 .. k : fmt[j] \in DecimalDigits
  <2> SUFFICES ASSUME NEW j \in 1 .. k, fmt[j] \notin DecimalDigits PROVE FALSE
    OBVIOUS
  <2>1. j - 1 \in 0 .. Len(fmt) - 1 /\ fmt[(j - 1) + 1] = fmt[j]
    BY <1>0, <1>4
  <2> QED
    BY <1>3, <1>4, <2>1
<1> QED
  BY <1>4, <1>5 DEF DigitsAhead

LEMMA DigitValueIsNat == \A ch \in DecimalDigits : DigitValue(ch) \in Nat
BY DEF DecimalDigits, DigitValue

\* A number in the format is one.
LEMMA NumberIsNat ==
  ASSUME fmt \in Seq(Characters), fmt # <<>>, fmt[Len(fmt)] = NUL
  PROVE  NumberAhead \in Nat
<1> DEFINE n == DigitsAhead
           Step(f, k) == IF k = 0 THEN 0 ELSE f[k - 1] * 10 + DigitValue(fmt[k])
           Upto(k) == \E f : f = [j \in 0 .. k |-> Step(f, j)]
           T == {k \in Nat : \E f : f = [j \in 0 .. k |-> Step(f, j)]}
<1>1. n \in Nat /\ \A j \in 1 .. n : DigitValue(fmt[j]) \in Nat
  BY DigitsEnd, DigitValueIsNat
<1> HIDE DEF n
\* There is such a function, by extending it from 0 on.
<1>2. \E f : f = [j \in 0 .. n |-> Step(f, j)]
  <2>1. 0 \in T
    <3>1. [j \in 0 .. 0 |-> 0] = [j \in 0 .. 0 |-> Step([i \in 0 .. 0 |-> 0], j)]
      OBVIOUS
    <3> QED
      BY <3>1
  <2>2. ASSUME NEW k \in 0 .. n - 1, k \in T
        PROVE  k + 1 \in T
    <3>0. k \in Nat /\ k + 1 \in Nat
      BY <1>1
    <3>1. PICK f : f = [j \in 0 .. k |-> Step(f, j)]
      BY <2>2
    <3> DEFINE v == Step(f, k + 1)
               g == [j \in 0 .. k + 1 |-> IF j = k + 1 THEN v ELSE f[j]]
    <3>2. \A j \in 0 .. k + 1 : g[j] = Step(g, j)
      <4> SUFFICES ASSUME NEW j \in 0 .. k + 1 PROVE g[j] = Step(g, j)
        OBVIOUS
      <4>1. CASE j = k + 1
        BY <3>0, <4>1
      <4>2. CASE j # k + 1
        <5>1. j \in 0 .. k /\ g[j] = f[j] /\ f[j] = Step(f, j)
          BY <3>0, <3>1, <4>2
        <5>2. j # 0 => g[j - 1] = f[j - 1]
          BY <3>0, <5>1
        <5> QED BY <5>1, <5>2
      <4> QED BY <4>1, <4>2
    <3>3. g = [j \in 0 .. k + 1 |-> Step(g, j)]
      BY <3>2
    <3> QED BY <3>0, <3>3
  <2> HIDE DEF T
  <2>3. \A k \in 0 .. n : k \in T
    BY <1>1, <2>1, <2>2, UpTo, Zenon
  <2>4. n \in T
    BY <1>1, <2>3
  <2> QED BY <2>4 DEF T
<1>3. PICK f : f = [j \in 0 .. n |-> Step(f, j)] /\ NumberAhead = f[n]
  BY <1>2 DEF NumberAhead, n
\* Its values are numbers.
<1>4. f[n] \in Nat
  <2> DEFINE U == {k \in 0 .. n : f[k] \in Nat}
  <2>1. 0 \in U
    BY <1>1, <1>3
  <2>2. \A k \in 0 .. n - 1 : k \in U => k + 1 \in U
    <3> SUFFICES ASSUME NEW k \in 0 .. n - 1, f[k] \in Nat PROVE k + 1 \in U
      OBVIOUS
    <3>1. k + 1 \in 0 .. n /\ k + 1 # 0 /\ (k + 1) - 1 = k /\ DigitValue(fmt[k + 1]) \in Nat
      BY <1>1
    <3>2. f[k + 1] = f[k] * 10 + DigitValue(fmt[k + 1])
      BY <1>3, <3>1
    <3> QED BY <3>1, <3>2
  <2> HIDE DEF U
  <2>3. \A k \in 0 .. n : k \in U
    BY <1>1, <2>1, <2>2, UpTo, Zenon
  <2> QED BY <1>1, <2>3 DEF U
<1> QED
  BY <1>3, <1>4

\* A digit is taken off a number by dividing it.
LEMMA QuotientBelow ==
  ASSUME NEW k \in Nat, NEW base \in 2 .. 16, k >= base
  PROVE  k \div base \in 0 .. k - 1
<1> DEFINE q == k \div base
<1>1. q \in Int /\ base * q <= k /\ k < base * (q + 1)
  OBVIOUS
<1> HIDE DEF q
<1>2. q >= 0
  <2> SUFFICES ASSUME q <= -1 PROVE FALSE
    BY <1>1
  <2> QED BY <1>1
<1>3. q < k
  BY <1>1, <1>2
<1> QED
  BY <1>1, <1>2, <1>3 DEF q

LEMMA DigitsAreChars ==
  ASSUME NEW num \in Nat, NEW base \in 2 .. 16
  PROVE  Digits(num, base) \in Seq(Characters)
<1> DEFINE Step(f, k) == IF k < base THEN <<Digit[k + 1]>>
                         ELSE Append(f[k \div base], Digit[(k % base) + 1])
           T == {k \in Nat : \E f : f = [j \in 0 .. k |-> Step(f, j)]}
<1>0. \A k \in Nat : k >= base => k \div base \in 0 .. k - 1
  BY QuotientBelow
<1>1. \A k \in Nat : k % base \in 0 .. 15
  OBVIOUS
\* There is such a function, by extending it from 0 on.
<1>2. \E f : f = [j \in 0 .. num |-> Step(f, j)]
  <2>1. 0 \in T
    <3> DEFINE g == [i \in 0 .. 0 |-> <<Digit[1]>>]
    <3>1. g = [j \in 0 .. 0 |-> Step(g, j)]
      OBVIOUS
    <3> QED
      BY <3>1
  <2>2. ASSUME NEW k \in 0 .. num - 1, k \in T
        PROVE  k + 1 \in T
    <3>0. k \in Nat /\ k + 1 \in Nat
      OBVIOUS
    <3>1. PICK f : f = [j \in 0 .. k |-> Step(f, j)]
      BY <2>2
    <3> DEFINE v == Step(f, k + 1)
               g == [j \in 0 .. k + 1 |-> IF j = k + 1 THEN v ELSE f[j]]
    <3>2. \A j \in 0 .. k + 1 : g[j] = Step(g, j)
      <4> SUFFICES ASSUME NEW j \in 0 .. k + 1 PROVE g[j] = Step(g, j)
        OBVIOUS
      <4>1. g[j] = Step(f, j)
        <5>1. CASE j = k + 1
          <6>1. g[j] = v
            BY <5>1
          <6> QED BY <5>1, <6>1
        <5>2. CASE j # k + 1
          <6>1. j \in 0 .. k
            BY <3>0, <5>2
          <6>2. g[j] = f[j] /\ f[j] = Step(f, j)
            BY <3>1, <5>2, <6>1
          <6> QED BY <6>2
        <5> QED BY <5>1, <5>2
      <4>2. ASSUME j >= base PROVE g[j \div base] = f[j \div base]
        <5> DEFINE q == j \div base
        <5>1. q \in 0 .. j - 1
          BY <1>0, <3>0, <4>2
        <5> HIDE DEF q
        <5>2. q \in 0 .. k + 1 /\ q # k + 1
          BY <3>0, <5>1
        <5>3. g[q] = f[q]
          BY <5>2
        <5> QED BY <5>3 DEF q
      <4> HIDE DEF g
      <4>3. CASE j < base
        BY <4>1, <4>3
      <4>4. CASE ~ (j < base)
        <5>1. j >= base
          BY <4>4
        <5> QED BY <4>1, <4>2, <4>4, <5>1
      <4> QED BY <4>3, <4>4
    <3>3. g = [j \in 0 .. k + 1 |-> Step(g, j)]
      BY <3>2
    <3> QED BY <3>0, <3>3
  <2> HIDE DEF T
  <2>3. \A k \in 0 .. num : k \in T
    BY <2>1, <2>2, UpTo, Zenon
  <2>4. num \in T
    BY <2>3
  <2> QED BY <2>4 DEF T
<1>3. PICK f : f = [j \in 0 .. num |-> Step(f, j)] /\ Digits(num, base) = f[num]
  BY <1>2 DEF Digits
\* Its values are sequences of digits.
<1>4. \A k \in 0 .. num : f[k] \in Seq(Characters)
  <2> DEFINE Not == {k \in 0 .. num : f[k] \notin Seq(Characters)}
  <2> SUFFICES ASSUME Not # {} PROVE FALSE
    OBVIOUS
  <2>0. Not \subseteq Nat
    OBVIOUS
  <2> HIDE DEF Not
  <2>1. PICK x \in Not : \A y \in Not : x <= y
    BY <2>0, LeastExists
  <2>2. x \in 0 .. num /\ f[x] \notin Seq(Characters) /\ f[x] = Step(f, x)
    BY <1>3, <2>1 DEF Not
  <2>3. Digit[(x % base) + 1] \in Characters /\ (x < base => Digit[x + 1] \in Characters)
    <3> DEFINE r == x % base
    <3>1. r \in 0 .. 15 /\ x \in Nat
      BY <1>1, <2>2
    <3> HIDE DEF r
    <3>2. r + 1 \in 1 .. 16 /\ (x < base => x + 1 \in 1 .. 16)
      BY <3>1
    <3>3. Digit[r + 1] \in Characters /\ (x < base => Digit[x + 1] \in Characters)
      BY <3>2, CharactersAssumption
    <3> QED BY <3>3 DEF r
  <2>4. x >= base => f[x \div base] \in Seq(Characters)
    BY <1>0, <2>1, <2>2 DEF Not
  <2> QED BY <2>2, <2>3, <2>4
<1> QED
  BY <1>3, <1>4

\* An argument read as unsigned is a number.
LEMMA UnsignedIsNat ==
  ASSUME NEW v \in Int
  PROVE  /\ getuint(v) \in Nat /\ getint(v) \in Int
         /\ v % 2^IntBits \in Nat /\ v % 2^LongLongBits \in Nat
<1>1. \A m \in Nat \ {0} : v % m \in Nat
  OBVIOUS
<1>2. /\ 2^Bits \in Nat \ {0} /\ 2^IntBits \in Nat \ {0} /\ 2^LongLongBits \in Nat \ {0}
      /\ 2^(Bits - 1) \in Nat \ {0}
  <2>1. /\ IntBits \in 0 .. LongLongBits /\ LongLongBits \in 0 .. LongLongBits
        /\ Bits \in 0 .. LongLongBits /\ LongLongBits \in Nat /\ Bits # 0
    BY FormatAssumption DEF Bits
  <2>2. Bits - 1 \in 0 .. LongLongBits
    BY <2>1
  <2> QED BY <2>1, <2>2, PowersAssumption
<1> DEFINE u == v % 2^Bits
<1>3. u \in Nat
  BY <1>1, <1>2
<1>4. getint(v) = IF u >= 2^(Bits - 1) THEN u - 2^Bits ELSE u
  BY DEF getint
<1>5. getuint(v) = u
  BY DEF getuint
<1> HIDE DEF u
<1>6. getint(v) \in Int
  BY <1>2, <1>3, <1>4
<1> QED
  BY <1>1, <1>2, <1>3, <1>5, <1>6

---------------------------------------------------------------------------
(* What is printed: characters and colours. *)

Text == Seq(Characters)
Printed == Seq(Characters \X Colours)

LEMMA ColoursAre == NoColour \in Colours
BY DEF NoColour, Colours

LEMMA WithIsPrinted ==
  ASSUME NEW clr \in Colours, NEW chars \in Text
  PROVE  With(clr, chars) \in Printed
BY DEF With, Text, Printed

LEMMA TimesIsText ==
  ASSUME NEW n \in Int, NEW ch \in Characters
  PROVE  Times(n, ch) \in Text
BY DEF Times, Text

LEMMA LengthIsNat == \A t \in Text : Len(t) \in Nat
BY DEF Text

LEMMA JoinedIsText ==
  ASSUME NEW t \in Text, NEW u \in Text
  PROVE  t \o u \in Text
BY DEF Text

LEMMA JoinedIsPrinted ==
  ASSUME NEW t \in Printed, NEW u \in Printed
  PROVE  t \o u \in Printed
BY DEF Printed

LEMMA WidthIsInt == ASSUME Types PROVE width \in Int /\ precision \in Int
BY DEF Types

LEMMA LessLength ==
  ASSUME NEW n \in Int, NEW t \in Text
  PROVE  n - Len(t) \in Int
BY DEF Text

LEMMA PadcIsChar == ASSUME Types PROVE padc \in Characters
BY CharactersAssumption DEF Types, Digit

LEMMA NumberIsPrinted ==
  ASSUME Types, NEW num \in Nat, NEW base \in 2 .. 16
  PROVE  Printnum(num, base) \in Printed
<1> DEFINE s == Digits(num, base)
<1>1. s \in Text
  BY DigitsAreChars DEF Text
<1>2. Printnum(num, base) = With(NoColour, Times(width - Len(s), padc) \o s)
  BY DEF Printnum
<1> HIDE DEF s
<1>3. Times(width - Len(s), padc) \in Text
  <2>1. width - Len(s) \in Int
    BY <1>1, WidthIsInt, LessLength, Zenon
  <2> QED BY <2>1, PadcIsChar, TimesIsText
<1> QED
  BY <1>1, <1>2, <1>3, WithIsPrinted, JoinedIsText, ColoursAre

LEMMA StringIsPrinted ==
  ASSUME Types, NEW s \in Text
  PROVE  StringChars(s, color) \in Printed
<1>1. Shown(s) \in Text
  <2> DEFINE n == IF precision >= 0 /\ precision < Len(s) THEN precision ELSE Len(s)
  <2>1. Len(s) \in Nat /\ precision \in Int
    BY LengthIsNat, WidthIsInt
  <2>2. n \in 0 .. Len(s)
    BY <2>1
  <2>3. Shown(s) = [k \in 1 .. n |-> IF altflag /\ s[k] \in Unprintable THEN "?" ELSE s[k]]
    BY DEF Shown
  <2> HIDE DEF n
  <2>4. "?" \in Characters
    BY CharactersAssumption
  <2>5. \A k \in 1 .. n : s[k] \in Characters
    BY <2>1, <2>2 DEF Text
  <2>6. \A k \in 1 .. n : (IF altflag /\ s[k] \in Unprintable THEN "?" ELSE s[k]) \in Characters
    BY <2>4, <2>5
  <2>7. n \in Nat
    BY <2>1, <2>2
  <2> QED BY <2>3, <2>6, <2>7 DEF Text
<1> DEFINE pad == width - Len(Shown(s))
<1>2. pad \in Int
  BY <1>1, WidthIsInt, LessLength, Zenon
<1>3. StringChars(s, color) = IF padc # "-" THEN With(color, Times(pad, padc) \o Shown(s))
                              ELSE With(color, Shown(s) \o Times(pad, " "))
  BY DEF StringChars
<1> HIDE DEF pad
<1>4. Times(pad, padc) \in Text /\ Times(pad, " ") \in Text
  BY <1>2, PadcIsChar, TimesIsText, CharactersAssumption
<1> QED
  BY <1>1, <1>3, <1>4, WithIsPrinted, JoinedIsText DEF Types

---------------------------------------------------------------------------
(* The inductive invariant: what is left of the format ends with its NUL,  *)
(* and the buffer holds the beginning of what was printed, up to its last  *)
(* place but one.                                                          *)

Ending(f) == f \in Text /\ f # <<>> /\ f[Len(f)] = NUL
Running == {"text", "colour", "escape"}

\* m holds the characters of o, or the first n of them.
Begins(m, o, n) ==
    \E k \in 0 .. Len(o) :
        /\ k <= n /\ (k = Len(o) \/ k = n)
        /\ m = [j \in 1 .. k |-> o[j][1]]

Reading == Ending(fmt) /\ seen \in Text
Counting == call \in Calls /\ b \in [mem : Text, cnt : Nat] /\ b.cnt = Len(out)
Filling ==
    /\ at = "call" => out = <<>> /\ b.mem = <<>>
    /\ at \in Running => HasPlace /\ Begins(b.mem, out, call.n - 1)
    /\ at = "return" => BufferHoldsPrefix
Inv == Types /\ Reading /\ Counting /\ Filling

\* Reading less than what is left leaves the NUL.
LEMMA ReadsKeeps ==
  ASSUME Ending(fmt), NEW n \in 0 .. Len(fmt) - 1, Reads(n)
  PROVE  Ending(fmt')
<1>1. Len(fmt) \in Nat /\ fmt \in Seq(Characters)
  BY DEF Ending, Text
<1>2. fmt' = SubSeq(fmt, n + 1, Len(fmt))
  BY DEF Reads
<1>3. /\ fmt' \in Seq(Characters) /\ Len(fmt') = Len(fmt) - n
      /\ \A i \in 1 .. Len(fmt) - n : fmt'[i] = fmt[i + n]
  BY <1>1, <1>2
<1>4. Len(fmt) - n \in 1 .. Len(fmt) /\ (Len(fmt) - n) + n = Len(fmt)
  BY <1>1
<1> QED
  BY <1>3, <1>4 DEF Ending, Text

LEMMA ReadsOne ==
  ASSUME Ending(fmt), Here # NUL, Reads(1)
  PROVE  Ending(fmt')
<1>1. Here = fmt[1] /\ fmt[Len(fmt)] = NUL /\ Len(fmt) \in Nat \ {0}
  BY DEF Ending, Text, Here
<1>2. 1 \in 0 .. Len(fmt) - 1
  BY <1>1
<1> QED
  BY <1>2, ReadsKeeps

\* A character put at the end of what was printed is at the end of the
\* buffer, unless that was full.
LEMMA FitsKeeps ==
  ASSUME NEW o \in Printed, NEW s \in Printed, NEW n \in Nat, NEW m \in Text,
         Begins(m, o, n)
  PROVE  /\ Begins(Fits(m \o [k \in DOMAIN s |-> s[k][1]], n), o \o s, n)
         /\ Fits(m \o [k \in DOMAIN s |-> s[k][1]], n) \in Text
<1> DEFINE c == [k \in DOMAIN s |-> s[k][1]]
           mc == m \o c
           os == o \o s
           lo == Len(o)
           ls == Len(s)
<1>1. PICK k \in 0 .. Len(o) : k <= n /\ (k = Len(o) \/ k = n) /\ m = [j \in 1 .. k |-> o[j][1]]
  BY DEF Begins
<1>2. /\ lo \in Nat /\ ls \in Nat /\ DOMAIN s = 1 .. ls
      /\ \A j \in 1 .. ls : s[j][1] \in Characters
      /\ o \in Seq(Characters \X Colours) /\ s \in Seq(Characters \X Colours)
  BY DEF Printed
<1>3. c \in Seq(Characters) /\ Len(c) = ls /\ \A j \in 1 .. ls : c[j] = s[j][1]
  BY <1>2
<1>a. k \in Nat /\ k <= lo /\ k <= n /\ (k = lo \/ k = n)
  BY <1>1, <1>2
<1>4. m \in Seq(Characters) /\ Len(m) = k /\ \A j \in 1 .. k : m[j] = o[j][1]
  BY <1>1, <1>a DEF Text
<1> HIDE DEF c, lo, ls
<1>b. c \in Seq(Characters) /\ m \in Seq(Characters) /\ Len(m) = k /\ Len(c) = ls
  BY <1>3, <1>4
<1>5. mc \in Text /\ Len(mc) = k + ls
  BY <1>b DEF Text
<1>6. \A j \in 1 .. k + ls : mc[j] = IF j <= k THEN m[j] ELSE c[j - k]
  BY <1>b
<1>7. Len(os) = lo + ls
  BY <1>2 DEF lo, ls
<1>8. \A j \in 1 .. lo + ls : os[j] = IF j <= lo THEN o[j] ELSE s[j - lo]
  BY <1>2 DEF lo, ls
<1> HIDE DEF mc, os
\* Where it is not full the buffer has all that was printed, and
\* else nothing after its first n characters counts.
<1>9. ASSUME NEW j \in 1 .. k + ls, k = lo \/ j <= k PROVE mc[j] = os[j][1]
  <2>1. CASE j <= k
    <3>1. j \in 1 .. k /\ j \in 1 .. lo + ls /\ j <= lo
      BY <1>2, <1>a, <2>1
    <3>2. mc[j] = m[j] /\ os[j] = o[j] /\ m[j] = o[j][1]
      BY <1>4, <1>6, <1>8, <2>1, <3>1
    <3> QED BY <3>2
  <2>2. CASE ~ (j <= k)
    <3>1. k = lo /\ j - k \in 1 .. ls /\ j \in 1 .. lo + ls /\ ~ (j <= lo)
      BY <1>2, <1>9, <1>a, <2>2
    <3>2. mc[j] = c[j - k] /\ os[j] = s[j - k] /\ c[j - k] = s[j - k][1]
      BY <1>3, <1>6, <1>8, <2>2, <3>1
    <3> QED BY <3>2
  <2> QED BY <2>1, <2>2
<1> DEFINE f == Fits(mc, n)
<1>10. CASE Len(mc) <= n
  <2>1. f = mc
    BY <1>10 DEF Fits
  <2>2. k = lo \/ ls = 0
    BY <1>2, <1>5, <1>10, <1>a
  <2> DEFINE l == k + ls
  <2>3. l \in 0 .. lo + ls /\ l <= n /\ (l = lo + ls \/ l = n)
    BY <1>2, <1>5, <1>10, <1>a, <2>2
  <2>4. \A j \in 1 .. l : mc[j] = os[j][1]
    <3> SUFFICES ASSUME NEW j \in 1 .. l PROVE mc[j] = os[j][1]
      OBVIOUS
    <3>1. k = lo \/ j <= k
      BY <1>2, <1>a, <2>2
    <3> QED BY <1>9, <3>1
  <2> HIDE DEF f, l
  <2>5. mc = [j \in 1 .. l |-> os[j][1]]
    BY <1>5, <2>4 DEF Text, l
  <2>6. l \in 0 .. Len(os) /\ l <= n /\ (l = Len(os) \/ l = n)
    BY <1>7, <2>3
  <2>7. Begins(mc, os, n)
    BY <2>5, <2>6 DEF Begins
  <2> QED BY <1>5, <2>1, <2>7 DEF mc, os, c, f
<1>11. CASE ~ (Len(mc) <= n)
  <2>1. f = SubSeq(mc, 1, n)
    BY <1>11 DEF Fits
  <2>2. n \in 0 .. Len(mc)
    BY <1>2, <1>5, <1>11, <1>a
  <2>3. f \in Text /\ Len(f) = n /\ \A j \in 1 .. n : f[j] = mc[j]
    BY <1>5, <2>1, <2>2 DEF Text
  <2> HIDE DEF f
  <2>4. \A j \in 1 .. n : f[j] = os[j][1]
    <3> SUFFICES ASSUME NEW j \in 1 .. n PROVE f[j] = os[j][1]
      OBVIOUS
    <3>1. j \in 1 .. k + ls /\ (k = lo \/ j <= k)
      BY <1>5, <1>a, <1>2, <2>2
    <3> QED BY <1>9, <2>3, <3>1
  <2>5. f = [j \in 1 .. n |-> os[j][1]]
    BY <2>3, <2>4 DEF Text
  <2>6. n \in 0 .. Len(os)
    BY <1>2, <1>5, <1>7, <1>11, <1>a
  <2>7. Begins(f, os, n)
    BY <2>5, <2>6 DEF Begins
  <2> QED BY <2>3, <2>7 DEF mc, os, c, f
<1> QED
  BY <1>10, <1>11

---------------------------------------------------------------------------
(* Each action keeps the invariant. *)

\* What is given to putch is counted, and goes to the buffer while it fits.
LEMMA PutchKeeps ==
  ASSUME Inv, at \in Running, at' \in Running, call' = call, NEW s \in Printed, Putch(s)
  PROVE  Counting' /\ Filling' /\ out' \in Printed
<1> DEFINE c == [k \in DOMAIN s |-> s[k][1]]
           n == call.n - 1
<1>1. /\ out \in Printed /\ b.mem \in Text /\ b.cnt = Len(out)
      /\ b.cnt \in Nat /\ Begins(b.mem, out, n)
  BY DEF Inv, Types, Counting, Filling, Text, Printed
<1>2. HasPlace /\ call.n >= 1 /\ call.n \in Int /\ n \in Nat
  BY CallsAssumption DEF Inv, Counting, Filling, HasPlace
<1>3. out' = out \o s /\ out' \in Printed
  BY <1>1, JoinedIsPrinted DEF Putch
<1>4. b' = [mem |-> Fits(b.mem \o c, n), cnt |-> b.cnt + Len(c)]
  BY DEF Putch, Sprintputch
<1>5. Len(c) = Len(s) /\ Len(s) \in Nat /\ Len(out \o s) = Len(out) + Len(s)
  BY <1>1 DEF Printed
<1> HIDE DEF n
<1>6. Begins(Fits(b.mem \o c, n), out \o s, n) /\ Fits(b.mem \o c, n) \in Text
  BY <1>1, <1>2, FitsKeeps
<1> HIDE DEF c
<1>7. b' \in [mem : Text, cnt : Nat] /\ b'.cnt = Len(out') /\ Begins(b'.mem, out', n)
  BY <1>1, <1>3, <1>4, <1>5, <1>6
<1>8. Counting'
  BY <1>7 DEF Counting, Inv
<1>9. Filling'
  BY <1>2, <1>7 DEF Filling, Running, n, HasPlace
<1> QED
  BY <1>3, <1>8, <1>9

\* A conversion prints, and the format is read on as text.
LEMMA Converts ==
  ASSUME Inv, at \in Running, at' = "text", UNCHANGED <<call, color, flags>>,
         NEW s \in Printed, Putch(s), Reading'
  PROVE  Inv'
<1>1. Counting' /\ Filling' /\ out' \in Printed
  BY PutchKeeps DEF Running
<1>2. Types'
  BY <1>1 DEF Inv, Types, Counting, flags, Printed, Text
<1> QED
  BY <1>1, <1>2 DEF Inv

\* Nothing is printed.
LEMMA PrintsNothing ==
  ASSUME Inv, at \in Running, at' \in Running, UNCHANGED <<call, out, b>>
  PROVE  Counting' /\ Filling'
BY DEF Inv, Counting, Filling, Running, HasPlace

LEMMA HereIsChar == ASSUME Inv PROVE Here \in Characters
BY DEF Inv, Reading, Ending, Text, Here

LEMMA OneCharIsPrinted ==
  ASSUME NEW clr \in Colours, NEW ch \in Characters
  PROVE  With(clr, <<ch>>) \in Printed
<1>1. <<ch>> \in Text
  BY DEF Text
<1> QED
  BY <1>1, WithIsPrinted

LEMMA TwoAreText ==
  ASSUME NEW c1 \in Characters, NEW c2 \in Characters
  PROVE  <<c1, c2>> \in Text
BY DEF Text

LEMMA SixAreText ==
  ASSUME NEW c1 \in Characters, NEW c2 \in Characters, NEW c3 \in Characters,
         NEW c4 \in Characters, NEW c5 \in Characters, NEW c6 \in Characters
  PROVE  <<c1, c2, c3, c4, c5, c6>> \in Text
<1> DEFINE t == <<c1, c2, c3, c4, c5, c6>>
<1>1. t = Append(Append(Append(Append(Append(Append(<<>>, c1), c2), c3), c4), c5), c6)
  OBVIOUS
<1>2. \A u \in Text, c \in Characters : Append(u, c) \in Text
  BY DEF Text
<1>3. <<>> \in Text
  BY DEF Text
<1> HIDE DEF t
<1> QED
  BY <1>1, <1>2, <1>3 DEF t

\* The words that vprintfmt prints of its own.
LEMMA WordsAreText ==
  /\ <<"(", "n", "u", "l", "l", ")">> \in Text
  /\ <<"e", "r", "r", "o", "r", " ">> \in Text
  /\ <<"0", "x">> \in Text
<1>1. /\ "(" \in Characters /\ "n" \in Characters /\ "u" \in Characters /\ "l" \in Characters
      /\ ")" \in Characters /\ "e" \in Characters /\ "r" \in Characters /\ "o" \in Characters
      /\ " " \in Characters /\ "0" \in Characters /\ "x" \in Characters
  BY CharactersAssumption
<1> QED
  BY <1>1, TwoAreText, SixAreText

LEMMA ColorIsColour == ASSUME Inv PROVE color \in Colours
BY DEF Inv, Types

LEMMA TextCharKeeps == ASSUME Inv, TextChar PROVE Inv'
<1>1. With(color, <<Here>>) \in Printed
  BY HereIsChar, ColorIsColour, OneCharIsPrinted
<1>2. Ending(fmt')
  BY ReadsOne DEF TextChar, Inv, Reading
<1>3. Reading'
  BY <1>2 DEF Reading, Inv, TextChar
<1> QED
  BY <1>1, <1>3, Converts DEF TextChar, Running

\* Break reads the character of the conversion.
LEMMA BreakKeeps ==
  ASSUME Inv, at = "escape", Here # NUL, Break, NEW s \in Printed, Putch(s)
  PROVE  Inv'
<1>1. Ending(fmt')
  BY ReadsOne DEF Break, Inv, Reading
<1>2. Reading'
  BY <1>1 DEF Reading, Inv, Break
<1> QED
  BY <1>2, Converts DEF Break, Running

LEMMA CharKeeps == ASSUME Inv, ArgumentsMatch, Char PROVE Inv'
<1>1. at = "escape" /\ Here = "c" /\ Here # NUL
  BY DEF Char, Escape, NUL
<1>2. Head(ap) \in Characters
  BY <1>1 DEF ArgumentsMatch
<1>3. With(color, <<Head(ap)>>) \in Printed
  BY <1>2, ColorIsColour, OneCharIsPrinted
<1> QED
  BY <1>1, <1>3, BreakKeeps DEF Char

LEMMA SignedDecimalKeeps == ASSUME Inv, ArgumentsMatch, SignedDecimal PROVE Inv'
<1>1. at = "escape" /\ Here = "d" /\ Here # NUL
  BY DEF SignedDecimal, Escape, NUL
<1>2. Head(ap) \in Int
  BY <1>1 DEF ArgumentsMatch
<1> DEFINE v == getint(Head(ap))
           minus == With(NoColour, <<"-">>) \o Printnum((-v) % 2^LongLongBits, 10)
<1>3. v \in Int
  BY <1>2, UnsignedIsNat
<1>4. IF v < 0 THEN Putch(minus) ELSE Putch(Printnum(v, 10))
  BY DEF SignedDecimal
<1> HIDE DEF v
<1>5. minus \in Printed
  <2>1. -v \in Int
    BY <1>3
  <2>2. (-v) % 2^LongLongBits \in Nat
    BY <2>1, UnsignedIsNat
  <2>3. Printnum((-v) % 2^LongLongBits, 10) \in Printed
    BY <2>2, NumberIsPrinted DEF Inv
  <2>4. With(NoColour, <<"-">>) \in Printed
    BY ColoursAre, CharactersAssumption, OneCharIsPrinted
  <2> QED BY <2>3, <2>4, JoinedIsPrinted
<1>6. ~ (v < 0) => Printnum(v, 10) \in Printed
  BY <1>3, NumberIsPrinted DEF Inv
<1> HIDE DEF minus
<1> QED
  BY <1>1, <1>4, <1>5, <1>6, BreakKeeps DEF SignedDecimal

LEMMA UnsignedKeeps == ASSUME Inv, ArgumentsMatch, Unsigned PROVE Inv'
<1>1. at = "escape" /\ Here \in {"u", "o", "x"} /\ Here # NUL
  BY DEF Unsigned, Escape, NUL
<1>2. Head(ap) \in Int
  BY <1>1 DEF ArgumentsMatch
<1> DEFINE base == CASE Here = "u" -> 10 [] Here = "o" -> 8 [] Here = "x" -> 16
<1>3. base \in 2 .. 16
  BY <1>1
<1>4. Putch(Printnum(getuint(Head(ap)), base))
  BY DEF Unsigned
<1> HIDE DEF base
<1>5. Printnum(getuint(Head(ap)), base) \in Printed
  BY <1>2, <1>3, UnsignedIsNat, NumberIsPrinted DEF Inv
<1> QED
  BY <1>1, <1>4, <1>5, BreakKeeps DEF Unsigned

LEMMA PointerKeeps == ASSUME Inv, ArgumentsMatch, Pointer PROVE Inv'
<1>1. at = "escape" /\ Here = "p" /\ Here # NUL
  BY DEF Pointer, Escape, NUL
<1>2. Head(ap) \in Int
  BY <1>1 DEF ArgumentsMatch
<1>3. Printnum(Head(ap) % 2^IntBits, 16) \in Printed
  BY <1>2, UnsignedIsNat, NumberIsPrinted DEF Inv
<1>4. With(NoColour, <<"0", "x">>) \in Printed
  BY ColoursAre, WordsAreText, WithIsPrinted
<1>5. With(NoColour, <<"0", "x">>) \o Printnum(Head(ap) % 2^IntBits, 16) \in Printed
  BY <1>3, <1>4, JoinedIsPrinted
<1> QED
  BY <1>1, <1>5, BreakKeeps DEF Pointer

LEMMA StringKeeps == ASSUME Inv, ArgumentsMatch, String PROVE Inv'
<1>1. at = "escape" /\ Here = "s" /\ Here # NUL
  BY DEF String, Escape, NUL
<1>2. Head(ap) \in Text \cup {NULL}
  BY <1>1 DEF ArgumentsMatch, Text
<1> DEFINE s == IF Head(ap) = NULL THEN <<"(", "n", "u", "l", "l", ")">> ELSE Head(ap)
<1>3. s \in Text
  BY <1>2, WordsAreText
<1>4. Putch(StringChars(s, color))
  BY DEF String
<1> HIDE DEF s
<1>5. StringChars(s, color) \in Printed
  BY <1>3, StringIsPrinted DEF Inv
<1> QED
  BY <1>1, <1>4, <1>5, BreakKeeps DEF String

LEMMA ErrorKeeps == ASSUME Inv, ArgumentsMatch, Error PROVE Inv'
<1>1. at = "escape" /\ Here = "e" /\ Here # NUL
  BY DEF Error, Escape, NUL
<1>2. Head(ap) \in Int
  BY <1>1 DEF ArgumentsMatch
<1> DEFINE err == Magnitude(Head(ap))
           number == With(color, <<"e", "r", "r", "o", "r", " ">>)
                         \o With(NoColour, Digits(err, 10))
<1>3. err \in Int
  BY <1>2 DEF Magnitude
<1>4. IF err < 0 THEN Putch(With(color, <<Undefined>>))
      ELSE IF err >= MAXERROR \/ err = 0 THEN Putch(number)
      ELSE Putch(With(color, error_string[err]))
  BY DEF Error
<1> HIDE DEF err
<1>5. With(color, <<Undefined>>) \in Printed
  BY ColorIsColour, CharactersAssumption, OneCharIsPrinted
<1>6. ~ (err < 0) => number \in Printed
  <2> SUFFICES ASSUME ~ (err < 0) PROVE number \in Printed
    OBVIOUS
  <2>1. Digits(err, 10) \in Text
    BY <1>3, DigitsAreChars DEF Text
  <2>2. <<"e", "r", "r", "o", "r", " ">> \in Text
    BY WordsAreText
  <2> QED BY <2>1, <2>2, ColorIsColour, ColoursAre, WithIsPrinted, JoinedIsPrinted
<1>7. ~ (err < 0) /\ ~ (err >= MAXERROR \/ err = 0) => With(color, error_string[err]) \in Printed
  <2> SUFFICES ASSUME ~ (err < 0), ~ (err >= MAXERROR \/ err = 0)
               PROVE  With(color, error_string[err]) \in Printed
    OBVIOUS
  <2>1. err \in 1 .. MAXERROR - 1
    BY <1>3, FormatAssumption
  <2>2. error_string[err] \in Text
    BY <2>1, FormatAssumption DEF Text
  <2> QED BY <2>2, ColorIsColour, WithIsPrinted
<1> HIDE DEF number
<1> QED
  BY <1>1, <1>4, <1>5, <1>6, <1>7, BreakKeeps DEF Error

LEMMA PercentSignKeeps == ASSUME Inv, PercentSign PROVE Inv'
<1>1. at = "escape" /\ Here = "%" /\ Here # NUL
  BY DEF PercentSign, Escape, NUL
<1>2. With(NoColour, <<"%">>) \in Printed
  BY ColoursAre, CharactersAssumption, OneCharIsPrinted
<1> QED
  BY <1>1, <1>2, BreakKeeps DEF PercentSign

\* The sequence is read again from after its %.
LEMMA UnrecognizedKeeps == ASSUME Inv, Unrecognized PROVE Inv'
<1>1. With(NoColour, <<"%">>) \in Printed
  BY ColoursAre, CharactersAssumption, OneCharIsPrinted
<1>2. fmt \in Seq(Characters) /\ fmt # <<>> /\ fmt[Len(fmt)] = NUL /\ seen \in Seq(Characters)
  BY DEF Inv, Reading, Ending, Text
<1> DEFINE f == seen \o fmt
<1>3. Ending(f)
  <2>1. /\ f \in Seq(Characters) /\ Len(f) = Len(seen) + Len(fmt)
        /\ Len(seen) \in Nat /\ Len(fmt) \in Nat \ {0}
    BY <1>2
  <2>2. f[Len(seen) + Len(fmt)] = fmt[Len(fmt)]
    BY <1>2, <2>1
  <2> QED BY <1>2, <2>1, <2>2 DEF Ending, Text
<1>4. fmt' = f /\ seen' = seen
  BY DEF Unrecognized
<1> HIDE DEF f
<1>5. Reading'
  BY <1>2, <1>3, <1>4 DEF Reading, Text
<1> QED
  BY <1>1, <1>5, Converts DEF Unrecognized, Running

\* A colour code, and what it makes of the colour.
LEMMA SetColourIsColour == ASSUME Inv, NEW c \in Nat PROVE SetColour(c) \in Colours
<1>1. color \in [fg : 0 .. 7, bg : 0 .. 7]
  BY DEF Inv, Types, Colours
<1>2. \A k \in Int : set_color(k) \in 0 .. 7
  BY DEF set_color
<1>3. c - 30 \in Int /\ c - 40 \in Int
  OBVIOUS
<1> QED
  BY <1>1, <1>2, <1>3 DEF SetColour, Colours

LEMMA ColourNumberKeeps == ASSUME Inv, ColourNumber PROVE Inv'
<1>1. NumberAhead \in Nat /\ DigitsAhead \in 0 .. Len(fmt) - 1 /\ Len(fmt) \in Nat
      /\ fmt[Len(fmt)] = NUL
  BY NumberIsNat, DigitsEnd DEF Inv, Reading, Ending, Text
<1> DEFINE n == IF fmt[DigitsAhead + 1] = ";" THEN DigitsAhead + 1 ELSE DigitsAhead
<1>2. n \in 0 .. Len(fmt) - 1
  <2>1. fmt[DigitsAhead + 1] = ";" => DigitsAhead + 1 # Len(fmt)
    BY <1>1 DEF NUL
  <2>2. DigitsAhead \in Nat /\ DigitsAhead <= Len(fmt) - 1
    BY <1>1
  <2>3. CASE fmt[DigitsAhead + 1] = ";"
    <3>1. n = DigitsAhead + 1 /\ Len(fmt) \in Nat /\ DigitsAhead + 1 # Len(fmt)
      BY <1>1, <2>1, <2>3
    <3> HIDE DEF n
    <3> QED BY <2>2, <3>1
  <2>4. CASE fmt[DigitsAhead + 1] # ";"
    <3>1. n = DigitsAhead
      BY <2>4
    <3> HIDE DEF n
    <3> QED BY <1>1, <3>1
  <2> QED BY <2>3, <2>4
<1>3. color' = SetColour(NumberAhead) /\ Reads(n)
  BY DEF ColourNumber
<1> HIDE DEF n
<1>4. color' \in Colours
  BY <1>1, <1>3, SetColourIsColour
<1>5. Ending(fmt')
  BY <1>2, <1>3, ReadsKeeps DEF Inv, Reading
<1>6. Reading'
  BY <1>5 DEF Reading, Inv, ColourNumber
<1>7. Counting' /\ Filling'
  BY PrintsNothing DEF ColourNumber, Running
<1>8. Types'
  BY <1>4 DEF Inv, Types, ColourNumber, flags
<1> QED
  BY <1>6, <1>7, <1>8 DEF Inv

\* The other steps that read the format and print nothing.
LEMMA BeginColourKeeps == ASSUME Inv, BeginColour PROVE Inv'
<1>1. Ending(fmt')
  BY ReadsOne DEF BeginColour, Inv, Reading, NUL
<1>2. Reading'
  BY <1>1 DEF Reading, Inv, BeginColour
<1>3. Counting' /\ Filling'
  BY PrintsNothing DEF BeginColour, Running
<1>4. Types'
  BY DEF Inv, Types, BeginColour, flags
<1> QED
  BY <1>2, <1>3, <1>4 DEF Inv

LEMMA EndColourKeeps == ASSUME Inv, EndColour PROVE Inv'
<1>1. Ending(fmt')
  BY ReadsOne DEF EndColour, Inv, Reading, NUL
<1>2. Reading'
  BY <1>1 DEF Reading, Inv, EndColour
<1>3. Counting' /\ Filling'
  BY PrintsNothing DEF EndColour, Running
<1>4. Types'
  BY DEF Inv, Types, EndColour, flags
<1> QED
  BY <1>2, <1>3, <1>4 DEF Inv

LEMMA PercentKeeps == ASSUME Inv, Percent PROVE Inv'
<1>1. Ending(fmt')
  BY ReadsOne DEF Percent, Inv, Reading, NUL
<1>2. seen' \in Text
  <2>1. <<>> \in Text
    BY DEF Text
  <2> QED BY <2>1 DEF Percent
<1>3. Counting' /\ Filling'
  BY PrintsNothing DEF Percent, Running
<1>4. width' \in Int /\ precision' \in Int /\ lflag' \in Nat /\ padc' \in {" ", "-", "0"}
  <2>1. width' = -1 /\ precision' = -1 /\ lflag' = 0 /\ padc' = " "
    BY Zenon DEF Percent
  <2>2. -1 \in Int /\ 0 \in Nat
    OBVIOUS
  <2> QED BY <2>1, <2>2, Zenon
<1>5. altflag' \in BOOLEAN
  BY Zenon DEF Percent
<1>6. Types'
  BY <1>4, <1>5, Zenon DEF Inv, Types, Percent
<1> QED
  BY <1>1, <1>2, <1>3, <1>6 DEF Inv, Reading

---------------------------------------------------------------------------
(* The flags of a sequence. *)

\* reswitch remembers what it reads.
LEMMA ReswitchKeeps ==
  ASSUME Inv, at = "escape", NEW n \in 0 .. Len(fmt) - 1, Reswitch(n)
  PROVE  Reading' /\ Counting' /\ Filling'
<1>1. fmt \in Seq(Characters) /\ Len(fmt) \in Nat /\ seen \in Seq(Characters)
  BY DEF Inv, Reading, Ending, Text
<1>2. SubSeq(fmt, 1, n) \in Seq(Characters)
  BY <1>1
<1>3. seen' \in Text
  BY <1>1, <1>2 DEF Reswitch, Text
<1>4. Ending(fmt')
  BY ReadsKeeps DEF Inv, Reading, Reswitch
<1>5. Counting' /\ Filling'
  BY PrintsNothing DEF Reswitch, Running
<1> QED
  BY <1>3, <1>4, <1>5 DEF Reading

LEMMA OneIsLeft == ASSUME Inv, Here # NUL PROVE 1 \in 0 .. Len(fmt) - 1
<1>1. Here = fmt[1] /\ fmt[Len(fmt)] = NUL /\ Len(fmt) \in Nat \ {0}
  BY DEF Inv, Reading, Ending, Text, Here
<1> QED
  BY <1>1

\* A flag of one character, which leaves flags of their types.
LEMMA FlagKeeps ==
  ASSUME Inv, at = "escape", Here # NUL, Reswitch(1),
         padc' \in {" ", "-", "0"}, width' \in Int, precision' \in Int,
         lflag' \in Nat, altflag' \in BOOLEAN
  PROVE  Inv'
<1>1. Reading' /\ Counting' /\ Filling'
  BY OneIsLeft, ReswitchKeeps
<1>2. Types'
  BY DEF Inv, Types, Reswitch
<1> QED
  BY <1>1, <1>2 DEF Inv

LEMMA FlagsAre ==
  ASSUME Inv
  PROVE  padc \in {" ", "-", "0"} /\ width \in Int /\ precision \in Int
         /\ lflag \in Nat /\ altflag \in BOOLEAN
BY DEF Inv, Types

LEMMA NumbersAre ==
  ASSUME Inv
  PROVE  width \in Int /\ precision \in Int /\ lflag \in Nat
BY FlagsAre, Zenon

LEMMA PadFlagKeeps == ASSUME Inv, PadFlag PROVE Inv'
<1>1. at = "escape" /\ Here \in {"-", "0"} /\ Here # NUL
  BY DEF PadFlag, Escape, NUL
<1>2. padc' \in {" ", "-", "0"} /\ width' \in Int /\ precision' \in Int
      /\ lflag' \in Nat /\ altflag' \in BOOLEAN
  BY <1>1, FlagsAre DEF PadFlag
<1> QED
  BY <1>1, <1>2, FlagKeeps DEF PadFlag

LEMMA DotKeeps == ASSUME Inv, Dot PROVE Inv'
<1>1. at = "escape" /\ Here = "." /\ Here # NUL
  BY DEF Dot, Escape, NUL
<1>2. width' \in Int
  <2>1. width' = IF width < 0 THEN 0 ELSE width
    BY Zenon DEF Dot
  <2> QED BY <2>1, NumbersAre
<1>3. padc' \in {" ", "-", "0"} /\ width' \in Int /\ precision' \in Int
      /\ lflag' \in Nat /\ altflag' \in BOOLEAN
  BY <1>2, FlagsAre, Zenon DEF Dot
<1> QED
  BY <1>1, <1>3, FlagKeeps DEF Dot

LEMMA HashKeeps == ASSUME Inv, Hash PROVE Inv'
<1>1. at = "escape" /\ Here = "#" /\ Here # NUL
  BY DEF Hash, Escape, NUL
<1>2. padc' \in {" ", "-", "0"} /\ width' \in Int /\ precision' \in Int
      /\ lflag' \in Nat /\ altflag' \in BOOLEAN
  BY FlagsAre DEF Hash
<1> QED
  BY <1>1, <1>2, FlagKeeps DEF Hash

LEMMA LongFlagKeeps == ASSUME Inv, LongFlag PROVE Inv'
<1>1. at = "escape" /\ Here = "l" /\ Here # NUL
  BY DEF LongFlag, Escape, NUL
<1>2. lflag' \in Nat
  <2>1. lflag' = lflag + 1
    BY Zenon DEF LongFlag
  <2> QED BY <2>1, NumbersAre
<1>3. padc' \in {" ", "-", "0"} /\ width' \in Int /\ precision' \in Int
      /\ lflag' \in Nat /\ altflag' \in BOOLEAN
  BY <1>2, FlagsAre, Zenon DEF LongFlag
<1> QED
  BY <1>1, <1>3, FlagKeeps DEF LongFlag

\* process_precision keeps numbers.
LEMMA PrecisionKeeps ==
  ASSUME Inv, NEW v \in Int, ProcessPrecision(v)
  PROVE  width' \in Int /\ precision' \in Int
BY NumbersAre DEF ProcessPrecision

LEMMA StarKeeps == ASSUME Inv, ArgumentsMatch, Star PROVE Inv'
<1>1. at = "escape" /\ Here = "*" /\ Here # NUL
  BY DEF Star, Escape, NUL
<1>2. Head(ap) \in Int
  BY <1>1 DEF ArgumentsMatch
<1>3. width' \in Int /\ precision' \in Int
  BY <1>2, PrecisionKeeps DEF Star
<1>4. padc' \in {" ", "-", "0"} /\ lflag' \in Nat /\ altflag' \in BOOLEAN
  BY DEF Star, Inv, Types
<1> QED
  BY <1>1, <1>3, <1>4, FlagKeeps DEF Star

LEMMA WidthDigitsKeeps == ASSUME Inv, WidthDigits PROVE Inv'
<1>1. NumberAhead \in Nat /\ DigitsAhead \in 0 .. Len(fmt) - 1
  BY NumberIsNat, DigitsEnd DEF Inv, Reading, Ending, Text
<1>2. Reading' /\ Counting' /\ Filling'
  BY <1>1, ReswitchKeeps DEF WidthDigits, Escape
<1>3. width' \in Int /\ precision' \in Int
  BY <1>1, PrecisionKeeps DEF WidthDigits
<1>4. Types'
  BY <1>3 DEF WidthDigits, Reswitch, Inv, Types
<1> QED
  BY <1>2, <1>4 DEF Inv

---------------------------------------------------------------------------
(* vsnprintf: its beginning and its end. *)

LEMMA VsnprintfKeeps == ASSUME Inv, Vsnprintf PROVE Inv'
<1>1. call \in Calls /\ out = <<>> /\ b.mem = <<>> /\ HasPlace
  BY DEF Inv, Counting, Filling, Vsnprintf
<1>2. Begins(b.mem, out, call.n - 1)
  <2>1. call.n - 1 >= 0 /\ call.n \in Int
    BY <1>1, CallsAssumption DEF HasPlace
  <2>2. 0 \in 0 .. Len(out) /\ 0 = Len(out) /\ b.mem = [j \in 1 .. 0 |-> out[j][1]]
    BY <1>1
  <2> QED BY <2>1, <2>2 DEF Begins
<1>3. /\ UNCHANGED <<call, fmt, color, seen, padc, width, precision, lflag, altflag, out, b>>
      /\ at' = "text"
  BY DEF Vsnprintf, flags
<1>4. Filling'
  BY <1>1, <1>2, <1>3 DEF Filling, Running, HasPlace
<1>5. Types' /\ Reading' /\ Counting'
  BY <1>3, Zenon DEF Inv, Types, Reading, Counting
<1> QED
  BY <1>4, <1>5 DEF Inv

LEMMA VsnprintfInvalidKeeps == ASSUME Inv, VsnprintfInvalid PROVE Inv'
<1>1. call \in Calls /\ b.mem = <<>> /\ ~HasPlace
  BY DEF Inv, Counting, Filling, VsnprintfInvalid
<1>2. /\ UNCHANGED <<call, fmt, color, seen, padc, width, precision, lflag, altflag, out, b>>
      /\ at' = "return"
  BY DEF VsnprintfInvalid, flags
<1>3. Filling'
  BY <1>1, <1>2 DEF Filling, Running, BufferHoldsPrefix, HasPlace
<1>4. Types' /\ Reading' /\ Counting'
  BY <1>2, Zenon DEF Inv, Types, Reading, Counting
<1> QED
  BY <1>3, <1>4 DEF Inv

\* The NUL takes the place that was kept for it.
LEMMA EndOfFormatKeeps == ASSUME Inv, EndOfFormat PROVE Inv'
<1>1. /\ b \in [mem : Text, cnt : Nat] /\ b.cnt = Len(out) /\ out \in Printed
      /\ call \in Calls /\ HasPlace /\ Begins(b.mem, out, call.n - 1)
  BY DEF Inv, Counting, Filling, Types, Printed, Running, EndOfFormat
<1>2. call.n \in Int /\ call.buf
  BY <1>1, CallsAssumption DEF HasPlace
<1>3. PICK k \in 0 .. Len(out) :
        /\ k <= call.n - 1 /\ (k = Len(out) \/ k = call.n - 1)
        /\ b.mem = [j \in 1 .. k |-> out[j][1]]
  BY <1>1 DEF Begins
<1>4. /\ UNCHANGED <<call, fmt, color, seen, padc, width, precision, lflag, altflag, out>>
      /\ at' = "return" /\ b' = [b EXCEPT !.mem = Append(@, NUL)] /\ rc' = b.cnt
  BY DEF EndOfFormat, flags
<1>5. b'.mem = Append(b.mem, NUL) /\ b'.cnt = b.cnt /\ b' \in [mem : Text, cnt : Nat]
  <2>1. NUL \in Characters
    BY CharactersAssumption
  <2>2. \A t \in Text : Append(t, NUL) \in Text
    BY <2>1 DEF Text
  <2> QED BY <1>1, <1>4, <2>2
<1>6. Len(b'.mem) <= call.n
  <2>1. Len(out) \in Nat
    BY <1>1 DEF Printed
  <2>2. b.mem \in Seq(Characters) /\ Len(b.mem) = k
    BY <1>1, <1>3, <2>1 DEF Text
  <2>3. Len(Append(b.mem, NUL)) = k + 1
    BY <2>2
  <2> QED BY <1>2, <1>3, <1>5, <2>1, <2>3
<1>7. BufferHoldsPrefix'
  <2>1. b'.mem = Append([j \in 1 .. k |-> out'[j][1]], NUL)
    BY <1>3, <1>4, <1>5
  <2>2. rc' = Len(out') /\ k \in 0 .. Len(out') /\ (k = Len(out') \/ k = call'.n - 1)
    BY <1>1, <1>3, <1>4
  <2>3. call'.buf /\ Len(b'.mem) <= call'.n
    BY <1>2, <1>4, <1>6
  <2> QED BY <2>1, <2>2, <2>3 DEF BufferHoldsPrefix
<1>8. Filling'
  BY <1>4, <1>7 DEF Filling, Running
<1>9. Counting' /\ Reading'
  BY <1>1, <1>4, <1>5 DEF Inv, Counting, Reading
<1>10. Types'
  BY <1>4, <1>5 DEF Inv, Types, Text
<1> QED
  BY <1>8, <1>9, <1>10 DEF Inv

LEMMA InitInv == Init => Inv
<1> SUFFICES ASSUME Init PROVE Inv
  OBVIOUS
<1>1. call \in Calls /\ call.fmt \in Seq(Characters) /\ call.color \in Colours /\ NUL \in Characters
  BY CallsAssumption, CharactersAssumption DEF Init
<1>2. fmt = Append(call.fmt, NUL) /\ seen = <<>> /\ color = call.color
  BY DEF Init
<1>3. Ending(fmt)
  BY <1>1, <1>2 DEF Ending, Text
<1>4. <<>> \in Text /\ <<>> \in Printed
  BY DEF Text, Printed
<1>5. /\ at = "call" /\ padc = " " /\ width = -1 /\ precision = -1 /\ lflag = 0
      /\ out = <<>> /\ b = [mem |-> <<>>, cnt |-> 0]
  BY Zenon DEF Init
<1>6. altflag \in BOOLEAN
  BY Zenon DEF Init
<1>7. -1 \in Int /\ 0 \in Nat /\ Len(<<>>) = 0
  OBVIOUS
<1>8. b.mem = <<>> /\ b.cnt = 0 /\ b \in [mem : Text, cnt : Nat]
  BY <1>4, <1>5
<1>9. Types
  BY <1>1, <1>2, <1>4, <1>5, <1>6, <1>7, <1>8, Zenon DEF Types, Text, Printed
<1>10. Reading
  BY <1>2, <1>3, <1>4 DEF Reading
<1>11. Counting
  BY <1>1, <1>5, <1>7, <1>8 DEF Counting
<1>12. Filling
  BY <1>5, <1>8 DEF Filling, Running
<1> QED
  BY <1>9, <1>10, <1>11, <1>12 DEF Inv

LEMMA NextKeeps == ASSUME Inv, ArgumentsMatch, [Next]_vars PROVE Inv'
<1>1. CASE UNCHANGED vars
  <2>1. Types' /\ Reading' /\ Counting'
    BY <1>1, Zenon DEF Inv, Types, Reading, Counting, vars, flags
  <2>2. Filling'
    BY <1>1 DEF Inv, Filling, BufferHoldsPrefix, HasPlace, vars, flags
  <2> QED BY <2>1, <2>2 DEF Inv
<1>2. CASE Vsnprintf \/ VsnprintfInvalid \/ EndOfFormat
  BY <1>2, VsnprintfKeeps, VsnprintfInvalidKeeps, EndOfFormatKeeps
<1>3. CASE TextChar \/ BeginColour \/ ColourNumber \/ EndColour \/ Percent
  BY <1>3, TextCharKeeps, BeginColourKeeps, ColourNumberKeeps, EndColourKeeps, PercentKeeps
<1>4. CASE PadFlag \/ WidthDigits \/ Star \/ Dot \/ Hash \/ LongFlag
  BY <1>4, PadFlagKeeps, WidthDigitsKeeps, StarKeeps, DotKeeps, HashKeeps, LongFlagKeeps
<1>5. CASE Char \/ SignedDecimal \/ Unsigned \/ Pointer \/ String \/ Error
  BY <1>5, CharKeeps, SignedDecimalKeeps, UnsignedKeeps, PointerKeeps, StringKeeps, ErrorKeeps
<1>6. CASE PercentSign \/ Unrecognized
  BY <1>6, PercentSignKeeps, UnrecognizedKeeps
<1> QED
  BY <1>1, <1>2, <1>3, <1>4, <1>5, <1>6, Zenon DEF Next

\* What the buffer holds while it fills is a beginning of the output.
LEMMA InvHoldsPrefix == ASSUME Inv PROVE BufferHoldsPrefix
<1>1. at \in {"call", "return"} \cup Running
  BY DEF Inv, Types, Running
<1>2. CASE at = "call"
  BY <1>2 DEF Inv, Filling, BufferHoldsPrefix
<1>3. CASE at \in Running
  <2>1. /\ call \in Calls /\ HasPlace /\ out \in Printed
        /\ b.mem \in Seq(Characters) /\ Begins(b.mem, out, call.n - 1)
    BY <1>3 DEF Inv, Types, Printed, Counting, Filling
  <2>2. PICK k \in 0 .. Len(out) : k <= call.n - 1 /\ b.mem = [j \in 1 .. k |-> out[j][1]]
    BY <2>1 DEF Begins
  <2>3. call.n \in Int /\ Len(out) \in Nat
    BY <2>1, CallsAssumption DEF Printed
  <2>4. Len(b.mem) = k
    BY <2>1, <2>2, <2>3
  <2>5. call.buf /\ Len(b.mem) <= call.n
    BY <2>1, <2>2, <2>3, <2>4 DEF HasPlace
  <2>6. at # "return"
    BY <1>3 DEF Running
  <2> QED BY <2>5, <2>6 DEF BufferHoldsPrefix
<1>4. CASE at = "return"
  BY <1>4 DEF Inv, Filling
<1> QED
  BY <1>1, <1>2, <1>3, <1>4

LEMMA InvHolds == Spec /\ []ArgumentsMatch => []Inv
<1>1. Inv /\ ArgumentsMatch /\ [Next]_vars => Inv'
  BY NextKeeps
<1> QED
  BY InitInv, <1>1, PTL DEF Spec

\* However the caller's format reads and whatever its numbers and strings are,
\* as long as it passes what its conversions read, the state stays of its
\* types: the colour is one that the display has, the flags, the width and the
\* precision of a sequence are what vprintfmt's locals can be, and only
\* characters with their colours are given to putch.
THEOREM TypeCorrect == Spec /\ []ArgumentsMatch => []TypeOK
<1>1. Inv => Types
  BY DEF Inv
<1>2. Types /\ ArgumentsMatch => TypeOK
  BY DEF TypeOK
<1> QED
  BY InvHolds, <1>1, <1>2, PTL

\* vsnprintf never writes past the n places it was given nor through a NULL,
\* whatever the format and the length of what it prints; when it returns the buffer holds the
\* beginning of the output and a NUL, and its value is the length the whole
\* output has.
THEOREM BufferIsSafe == Spec /\ []ArgumentsMatch => []BufferHoldsPrefix
<1>1. Inv => BufferHoldsPrefix
  BY InvHoldsPrefix
<1> QED
  BY InvHolds, <1>1, PTL
=========================================================================
