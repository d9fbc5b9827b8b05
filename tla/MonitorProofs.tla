------------------------- MODULE MonitorProofs -------------------------
(***************************************************************************)
(* Proofs about LineEditor and about Monitor, which extends it: for every  *)
(* screen, every buffer that LineFits admits, every prompt and every       *)
(* number of words.  readline's echo shows the line that it keeps, and     *)
(* runcmd's words in readline's buffer are the words of the line the user  *)
(* saw.                                                                    *)
(***************************************************************************)
EXTENDS Monitor, WellFoundedInduction, TLAPS

\* What may stand on the screen.
Chars == Input \cup Output \cup {Prompt[k] : k \in DOMAIN Prompt} \cup {Space, "o"}
Display == [cells : [Place -> Chars], pos : Place, mark : Place \cup {-1}]

LEMMA ScreenSize ==
  CRT_COLS \in Nat /\ CRT_COLS > 0 /\ CRT_SIZE \in Nat /\ CRT_SIZE >= 2 * CRT_COLS
<1>1. CRT_ROWS \in Nat /\ CRT_COLS \in Nat /\ CRT_ROWS >= 2 /\ CRT_COLS >= 1
  BY ScreenAssumption
<1>2. CRT_ROWS * CRT_COLS \in Nat
  BY <1>1
<1>3. CRT_ROWS * CRT_COLS >= 2 * CRT_COLS
  BY <1>1
<1> QED
  BY <1>1, <1>2, <1>3 DEF CRT_SIZE

LEMMA RowStartBounds ==
  ASSUME NEW p \in Nat
  PROVE  RowStart(p) \in Nat /\ RowStart(p) <= p
<1>1. p % CRT_COLS \in 0 .. CRT_COLS - 1
  BY ScreenSize
<1>2. p % CRT_COLS <= p
  BY ScreenSize
<1> QED
  BY <1>1, <1>2 DEF RowStart

---------------------------------------------------------------------------
(* The screen: what a character does to it. *)

Wide == [cells : [Place -> Chars], pos : 0 .. CRT_SIZE + CRT_COLS - 1,
         mark : Place \cup {-1}]

LEMMA WrittenWide ==
  ASSUME NEW d \in Display, NEW c \in Chars \cup {BS, "\t", "\n", "\r"}
  PROVE  Written(d, c) \in Wide \/ c = "\t"
<1>1. d.pos \in Place /\ d.cells \in [Place -> Chars] /\ d.mark \in Place \cup {-1}
  BY DEF Display
<1>2. Space \in Chars
  BY DEF Chars
<1>3. CASE c = BS
  <2>1. CASE d.pos = 0
    BY <1>1, <1>3, <2>1, ScreenSize DEF Written, Backspace, BS, Wide, Display, Place
  <2>2. CASE d.pos # 0
    <3>1. d.pos - 1 \in 0 .. CRT_SIZE + CRT_COLS - 1
      BY <1>1, <2>2, ScreenSize DEF Place
    <3>2. [d EXCEPT !.pos = @ - 1, !.cells[d.pos - 1] = Space] \in Wide
      BY <1>1, <1>2, <3>1 DEF Wide, Display
    <3> QED
      BY <1>3, <2>2, <3>2 DEF Written, Backspace, BS
  <2> QED
    BY <2>1, <2>2
<1>4. CASE c = "\n"
  <2>1. d.pos + CRT_COLS \in Nat /\ d.pos + CRT_COLS <= CRT_SIZE + CRT_COLS - 1
    BY <1>1, ScreenSize DEF Place
  <2>2. RowStart(d.pos + CRT_COLS) \in 0 .. CRT_SIZE + CRT_COLS - 1
    BY <2>1, RowStartBounds, ScreenSize
  <2>3. [d EXCEPT !.pos = RowStart(d.pos + CRT_COLS)] \in Wide
    BY <1>1, <2>2 DEF Wide, Display
  <2> QED
    BY <1>4, <2>3 DEF Written, BS
<1>5. CASE c = "\r"
  <2>1. RowStart(d.pos) \in 0 .. CRT_SIZE + CRT_COLS - 1
    BY <1>1, RowStartBounds, ScreenSize DEF Place
  <2>2. [d EXCEPT !.pos = RowStart(d.pos)] \in Wide
    BY <1>1, <2>1 DEF Wide, Display
  <2> QED
    BY <1>5, <2>2 DEF Written, BS
<1>6. CASE c \notin {BS, "\n", "\r", "\t"}
  <2>1. d.pos + 1 \in 0 .. CRT_SIZE + CRT_COLS - 1 /\ c \in Chars
    BY <1>1, <1>6, ScreenSize DEF Place
  <2>2. [d EXCEPT !.pos = @ + 1, !.cells[d.pos] = c] \in Wide
    BY <1>1, <2>1 DEF Wide, Display
  <2> QED
    BY <1>6, <2>2 DEF Written
<1> QED
  BY <1>3, <1>4, <1>5, <1>6

\* A cursor that has left the screen is on it again.
LEMMA ScrolledTyped ==
  ASSUME NEW d \in Wide
  PROVE  Scrolled(d) \in Display
<1>1. /\ d.pos \in 0 .. CRT_SIZE + CRT_COLS - 1 /\ d.cells \in [Place -> Chars]
      /\ d.mark \in Place \cup {-1}
  BY DEF Wide
<1>2. CASE d.pos < CRT_SIZE
  <2>1. d.pos \in Place
    BY <1>1, <1>2, ScreenSize DEF Place
  <2> QED
    BY <1>1, <1>2, <2>1 DEF Scrolled, Display, Wide
<1>3. CASE ~(d.pos < CRT_SIZE)
  <2> DEFINE c == [p \in Place |-> IF p + CRT_COLS < CRT_SIZE THEN d.cells[p + CRT_COLS] ELSE Space]
             m == IF d.mark < CRT_COLS THEN -1 ELSE d.mark - CRT_COLS
  <2>1. c \in [Place -> Chars]
    <3> SUFFICES ASSUME NEW p \in Place
                 PROVE  (IF p + CRT_COLS < CRT_SIZE THEN d.cells[p + CRT_COLS] ELSE Space) \in Chars
      OBVIOUS
    <3> QED
      BY <1>1, ScreenSize DEF Place, Chars
  <2>2. m \in Place \cup {-1}
    BY <1>1, ScreenSize DEF Place
  <2>3. d.pos - CRT_COLS \in Place
    BY <1>1, <1>3, ScreenSize DEF Place
  <2>4. Scrolled(d) = [cells |-> c, pos |-> d.pos - CRT_COLS, mark |-> m]
    BY <1>3 DEF Scrolled
  <2> QED
    BY <2>1, <2>2, <2>3, <2>4 DEF Display
<1> QED
  BY <1>2, <1>3

LEMMA PutTyped ==
  ASSUME NEW d \in Display, NEW c \in (Chars \cup {BS, "\n", "\r"}) \ {"\t"}
  PROVE  Put(d, c) \in Display
BY WrittenWide, ScrolledTyped DEF Put

LEMMA PutcTyped ==
  ASSUME NEW d \in Display, NEW c \in Chars \cup {BS, "\n", "\r"}
  PROVE  cga_putc(d, c) \in Display
<1>1. Space \in (Chars \cup {BS, "\n", "\r"}) \ {"\t"}
  BY DEF Chars, Space
<1>2. \A e \in Display : Put(e, Space) \in Display
  BY <1>1, PutTyped
<1>3. CASE c = "\t"
  BY <1>2, <1>3 DEF cga_putc
<1>4. CASE c # "\t"
  BY <1>4, PutTyped DEF cga_putc
<1> QED
  BY <1>3, <1>4

\* How far up the text moves when a graphic character is put at the cursor.
Rise(d) == IF d.pos + 1 = CRT_SIZE THEN CRT_COLS ELSE 0

\* The character follows the text, and all of it moves with its marks.
LEMMA GraphicFollows ==
  ASSUME NEW d \in Display, NEW c \in Chars, c \notin Control
  PROVE  LET e == cga_putc(d, c)
         IN  /\ e.pos = d.pos + 1 - Rise(d)
             /\ d.pos - Rise(d) \in Place
             /\ e.cells[d.pos - Rise(d)] = c
             /\ \A p \in Place : p + Rise(d) < d.pos => e.cells[p] = d.cells[p + Rise(d)]
             /\ d.mark >= Rise(d) => e.mark = d.mark - Rise(d)
<1> DEFINE w == [d EXCEPT !.pos = @ + 1, !.cells[d.pos] = c]
<1>1. d.pos \in Place /\ d.cells \in [Place -> Chars] /\ d.mark \in Place \cup {-1}
  BY DEF Display
<1>2. cga_putc(d, c) = Scrolled(w)
  <2>1. c # BS /\ c # "\n" /\ c # "\r" /\ c # "\t"
    BY DEF Control
  <2>2. Written(d, c) = w
    BY <2>1 DEF Written
  <2> QED
    BY <2>1, <2>2 DEF cga_putc, Put
<1>3. w.pos = d.pos + 1 /\ w.cells = [d.cells EXCEPT ![d.pos] = c] /\ w.mark = d.mark
  BY DEF Display
<1> HIDE DEF w
<1>4. CASE d.pos + 1 = CRT_SIZE
  <2>1. Scrolled(w).pos = d.pos + 1 - CRT_COLS
    BY <1>1, <1>3, <1>4, ScreenSize DEF Scrolled, Place
  <2>2. Scrolled(w).cells = [p \in Place |-> IF p + CRT_COLS < CRT_SIZE THEN w.cells[p + CRT_COLS] ELSE Space]
    BY <1>1, <1>3, <1>4, ScreenSize DEF Scrolled, Place
  <2>3. d.mark >= CRT_COLS => Scrolled(w).mark = d.mark - CRT_COLS
    BY <1>1, <1>3, <1>4, ScreenSize DEF Scrolled, Place
  <2>4. d.pos - CRT_COLS \in Place
    BY <1>1, <1>4, ScreenSize DEF Place
  <2>5. Scrolled(w).cells[d.pos - CRT_COLS] = c
    BY <1>1, <1>3, <1>4, <2>2, <2>4, ScreenSize DEF Place
  <2>6. \A p \in Place : p + CRT_COLS < d.pos => Scrolled(w).cells[p] = d.cells[p + CRT_COLS]
    BY <1>1, <1>3, <1>4, <2>2, ScreenSize DEF Place
  <2> QED
    BY <1>2, <1>4, <2>1, <2>3, <2>4, <2>5, <2>6 DEF Rise
<1>5. CASE d.pos + 1 # CRT_SIZE
  <2>1. Scrolled(w) = w
    BY <1>1, <1>3, <1>5, ScreenSize, SMTT(30) DEF Scrolled, Place
  <2> QED
    BY <1>1, <1>2, <1>3, <1>5, <2>1, ScreenSize DEF Rise, Place
<1> QED
  BY <1>4, <1>5

---------------------------------------------------------------------------
(* The line editor. *)

\* What the prompt has on the screen so far stands before the cursor.
PromptShown ==
    pc = "prompt" =>
        \A k \in 1 .. shown :
            display.pos >= k => display.cells[display.pos - k] = Prompt[shown - k + 1]

EInv == TypeOK /\ display \in Display /\ PromptShown /\ EchoMatchesLine

LEMMA InitEInv == Init => EInv
<1> SUFFICES ASSUME Init PROVE EInv
  OBVIOUS
<1>1. display \in Display
  BY ScreenSize DEF Init, Display, Chars, Place
<1>2. TypeOK
  BY <1>1, BufferAssumption, CharsAssumption DEF Init, TypeOK, Display
<1> QED
  BY <1>1, <1>2 DEF Init, EInv, PromptShown, EchoMatchesLine

\* Outside readline only the types matter.
LEMMA CallerKeeps ==
  ASSUME EInv, Readline \/ Caller
  PROVE  EInv'
<1>1. CASE Readline
  BY <1>1, CharsAssumption DEF Readline, EInv, TypeOK, PromptShown, EchoMatchesLine
<1>2. CASE CallerWrites
  BY <1>2 DEF CallerWrites, EInv, TypeOK, PromptShown, EchoMatchesLine
<1>3. ASSUME NEW c \in Output, PrintChar(c) PROVE EInv'
  <2>1. display' \in Display
    BY <1>3, PutcTyped DEF PrintChar, EInv, Chars
  <2>2. TypeOK'
    BY <1>3, <2>1 DEF PrintChar, EInv, TypeOK, Display
  <2> QED
    BY <1>3, <2>1, <2>2 DEF PrintChar, EInv, PromptShown, EchoMatchesLine
<1> QED
  BY <1>1, <1>2, <1>3 DEF Caller

LEMMA PromptCharKeeps ==
  ASSUME EInv, PromptChar
  PROVE  EInv'
<1> DEFINE c == Prompt[shown + 1]
           s == Rise(display)
<1>1. /\ display \in Display /\ shown \in Nat /\ shown + 1 \in DOMAIN Prompt /\ pc = "prompt"
      /\ display' = cga_putc(display, c) /\ shown' = shown + 1 /\ UNCHANGED <<buf, i, pc>>
  BY CharsAssumption DEF EInv, TypeOK, PromptChar
<1>2. c \in Chars /\ c \notin Control
  BY <1>1, CharsAssumption DEF Chars
<1>3. display' \in Display
  BY <1>1, <1>2, PutcTyped
<1>4. display.pos \in Place /\ s \in Nat
  BY <1>1, ScreenSize DEF Display, Rise
<1>5. /\ display'.pos = display.pos + 1 - s
      /\ display'.cells[display.pos - s] = c
      /\ \A p \in Place : p + s < display.pos => display'.cells[p] = display.cells[p + s]
  BY <1>1, <1>2, GraphicFollows
<1> HIDE DEF s, c
<1>6. PromptShown'
  <2> SUFFICES ASSUME NEW k \in 1 .. shown + 1, display'.pos >= k
               PROVE  display'.cells[display'.pos - k] = Prompt[shown + 1 - k + 1]
    BY <1>1 DEF PromptShown
  <2>1. CASE k = 1
    BY <1>1, <1>4, <1>5, <2>1 DEF Place, c
  <2>2. CASE k # 1
    <3>1. k - 1 \in 1 .. shown /\ display.pos >= k - 1
      BY <1>1, <1>4, <1>5, <2>2 DEF Place
    <3>2. display.cells[display.pos - (k - 1)] = Prompt[shown - (k - 1) + 1]
      BY <1>1, <3>1 DEF EInv, PromptShown
    <3> DEFINE p == display'.pos - k
    <3>3. p \in Place /\ p + s = display.pos - (k - 1) /\ p + s < display.pos
      BY <1>1, <1>4, <1>5, <2>2, ScreenSize DEF Place
    <3>4. display'.cells[p] = display.cells[p + s]
      BY <1>5, <3>3
    <3>5. shown - (k - 1) + 1 = shown + 1 - k + 1
      BY <1>1
    <3> QED
      BY <3>2, <3>3, <3>4, <3>5
  <2> QED
    BY <2>1, <2>2
<1>7. TypeOK'
  BY <1>1, <1>3, CharsAssumption DEF EInv, TypeOK, Display
<1> QED
  BY <1>1, <1>3, <1>6, <1>7 DEF EInv, EchoMatchesLine

LEMMA BeginLineKeeps ==
  ASSUME EInv, BeginLine
  PROVE  EInv'
<1>1. /\ display \in Display /\ pc = "prompt" /\ pc' = "readline" /\ i' = 0 /\ shown = Len(Prompt)
      /\ display' = [display EXCEPT !.mark = display.pos] /\ UNCHANGED <<buf, shown>>
  BY DEF EInv, BeginLine
<1>2. /\ display'.pos = display.pos /\ display'.cells = display.cells
      /\ display'.mark = display.pos /\ display.pos \in Place /\ display' \in Display
  BY <1>1 DEF Display
<1>3. \A k \in 1 .. Len(Prompt) :
        display'.mark >= k => display'.cells[display'.mark - k] = Prompt[Len(Prompt) - k + 1]
  BY <1>1, <1>2 DEF EInv, PromptShown
<1>4. EchoMatchesLine'
  BY <1>1, <1>2, <1>3, ScreenSize DEF EchoMatchesLine, Place
<1>5. TypeOK'
  BY <1>1, <1>2, BufferAssumption DEF EInv, TypeOK, Display
<1> QED
  BY <1>1, <1>2, <1>4, <1>5 DEF EInv, PromptShown

\* A line is shorter than the screen, so there is always a character to erase
\* before the cursor.
LEMMA EraseKeeps ==
  ASSUME EInv, NEW c, Erase(c)
  PROVE  EInv'
<1>1. /\ display \in Display /\ pc = "readline" /\ i \in Nat /\ i > 0 /\ i' = i - 1
      /\ display' = cga_putc(display, BS) /\ UNCHANGED <<buf, shown, pc>>
  BY DEF EInv, TypeOK, Erase, Erases, Got
<1>2. /\ display.mark \in Place /\ display.pos \in Place /\ display.cells \in [Place -> Chars]
      /\ display.pos = display.mark + i
  BY <1>1 DEF EInv, EchoMatchesLine, Display, Place
<1>3. display' = Scrolled(Backspace(display))
  <2>1. Written(display, BS) = Backspace(display)
    BY DEF Written, BS
  <2>2. BS # "\t"
    BY DEF BS
  <2> QED
    BY <1>1, <2>1, <2>2 DEF cga_putc, Put
<1> DEFINE b == [display EXCEPT !.pos = @ - 1, !.cells[display.pos - 1] = Space]
<1>4. Backspace(display) = b
  BY <1>1, <1>2 DEF Backspace, Place
<1>5. /\ b.pos = display.pos - 1 /\ b.mark = display.mark
      /\ b.cells = [display.cells EXCEPT ![display.pos - 1] = Space]
  BY <1>1 DEF Display
<1> HIDE DEF b
<1>6. display' = b
  BY <1>2, <1>3, <1>4, <1>5, ScreenSize DEF Scrolled, Place
<1>7. display' \in Display
  BY <1>1, PutcTyped
<1>8. EchoMatchesLine'
  <2>1. display'.mark >= 0 /\ display'.pos = display'.mark + i'
    BY <1>1, <1>2, <1>5, <1>6 DEF Place
  <2>2. ASSUME NEW k \in 0 .. i' - 1 PROVE display'.cells[display'.mark + k] = buf'[k]
    <3>1. k \in 0 .. i - 1 /\ display.mark + k \in Place /\ display.mark + k # display.pos - 1
      BY <1>1, <1>2, <2>2, ScreenSize DEF Place
    <3>2. display.cells[display.mark + k] = buf[k]
      BY <1>1, <3>1 DEF EInv, EchoMatchesLine
    <3> QED
      BY <1>1, <1>2, <1>5, <1>6, <3>1, <3>2
  <2>3. ASSUME NEW k \in 1 .. Len(Prompt), display'.mark >= k
        PROVE  display'.cells[display'.mark - k] = Prompt[Len(Prompt) - k + 1]
    <3>0. k \in Nat /\ k >= 1 /\ display.mark >= k
      BY <1>5, <1>6, <2>3, CharsAssumption
    <3>1. display.mark - k \in Place /\ display.mark - k # display.pos - 1 /\ display.mark >= k
      BY <1>1, <1>2, <3>0, ScreenSize DEF Place
    <3>2. display.cells[display.mark - k] = Prompt[Len(Prompt) - k + 1]
      BY <1>1, <3>1 DEF EInv, EchoMatchesLine
    <3> QED
      BY <1>1, <1>2, <1>5, <1>6, <3>1, <3>2
  <2> QED
    BY <2>1, <2>2, <2>3 DEF EchoMatchesLine
<1>9. TypeOK'
  BY <1>1, <1>7, BufferAssumption DEF EInv, TypeOK, Display
<1> QED
  BY <1>1, <1>7, <1>8, <1>9 DEF EInv, PromptShown

\* When the screen scrolls under the line, its beginning is not in the first
\* row: this is where LineFits is needed.
LEMMA InsertKeeps ==
  ASSUME EInv, NEW c, Insert(c)
  PROVE  EInv'
<1> DEFINE s == Rise(display)
<1>1. /\ display \in Display /\ pc = "readline" /\ i \in Nat /\ i < BUFLEN - 1 /\ i' = i + 1
      /\ display' = cga_putc(display, c) /\ buf' = [buf EXCEPT ![i] = c] /\ UNCHANGED <<shown, pc>>
      /\ buf \in [0 .. BUFLEN - 1 -> Graphic \cup {NUL}]
  BY DEF EInv, TypeOK, Insert, Got
<1>2. c \in Chars /\ c \notin Control /\ c \in Graphic
  BY DEF Insert, Got, Chars, Graphic
<1>3. /\ display.mark \in Place /\ display.pos \in Place /\ display.pos = display.mark + i
      /\ BUFLEN \in Nat
  BY <1>1, BufferAssumption DEF EInv, EchoMatchesLine, Display, Place
<1>4. s \in Nat /\ display.mark >= s
  BY <1>1, <1>3, LineFits, ScreenSize DEF Rise, Place
<1>5. /\ display'.pos = display.pos + 1 - s
      /\ display'.cells[display.pos - s] = c
      /\ \A p \in Place : p + s < display.pos => display'.cells[p] = display.cells[p + s]
      /\ display'.mark = display.mark - s
  BY <1>1, <1>2, <1>4, GraphicFollows
<1>6. display' \in Display
  BY <1>1, <1>2, PutcTyped
<1> HIDE DEF s
<1>7. EchoMatchesLine'
  <2>1. display'.mark >= 0 /\ display'.pos = display'.mark + i'
    BY <1>1, <1>3, <1>4, <1>5 DEF Place
  <2>2. ASSUME NEW k \in 0 .. i' - 1 PROVE display'.cells[display'.mark + k] = buf'[k]
    <3>1. CASE k = i
      <4>1. display'.mark + k = display.pos - s
        BY <1>1, <1>3, <1>4, <1>5, <3>1 DEF Place
      <4>2. buf'[k] = c
        BY <1>1, <1>3, <3>1
      <4> QED
        BY <1>5, <4>1, <4>2
    <3>2. CASE k # i
      <4> DEFINE p == display'.mark + k
      <4>1. k \in 0 .. i - 1
        BY <1>1, <2>2, <3>2
      <4>2. p \in Place /\ p + s = display.mark + k /\ p + s < display.pos
        <5>1. p = display.mark - s + k /\ display.mark \in Nat /\ display.pos < CRT_SIZE /\ k \in Nat
          BY <1>3, <1>5, <4>1, ScreenSize DEF Place
        <5>2. display.mark + k < display.pos
          BY <1>1, <1>3, <4>1, <5>1
        <5> QED
          BY <1>3, <1>4, <5>1, <5>2, ScreenSize DEF Place
      <4>3. display.cells[p + s] = buf[k]
        BY <1>1, <4>1, <4>2 DEF EInv, EchoMatchesLine
      <4>4. buf'[k] = buf[k]
        BY <1>1, <1>3, <3>2, <4>1
      <4> QED
        BY <1>5, <4>2, <4>3, <4>4
    <3> QED
      BY <3>1, <3>2
  <2>3. ASSUME NEW k \in 1 .. Len(Prompt), display'.mark >= k
        PROVE  display'.cells[display'.mark - k] = Prompt[Len(Prompt) - k + 1]
    <3> DEFINE p == display'.mark - k
    <3>0. /\ p = display.mark - s - k /\ display.mark - s >= k /\ display.mark \in Nat
          /\ display.mark <= display.pos /\ display.pos < CRT_SIZE /\ k \in Nat /\ k >= 1
      BY <1>1, <1>3, <1>5, <2>3, CharsAssumption, ScreenSize DEF Place
    <3>1. p \in Place /\ p + s = display.mark - k /\ p + s < display.pos /\ display.mark >= k
      BY <1>3, <1>4, <3>0, ScreenSize DEF Place
    <3>2. display.cells[p + s] = Prompt[Len(Prompt) - k + 1]
      BY <1>1, <3>1 DEF EInv, EchoMatchesLine
    <3> QED
      BY <1>5, <3>1, <3>2
  <2> QED
    BY <2>1, <2>2, <2>3 DEF EchoMatchesLine
<1>8. TypeOK'
  <2>1. buf' \in [0 .. BUFLEN - 1 -> Graphic \cup {NUL}]
    BY <1>1, <1>2
  <2> QED
    BY <1>1, <1>3, <1>6, <2>1 DEF EInv, TypeOK, Display
<1> QED
  BY <1>1, <1>6, <1>7, <1>8 DEF EInv, PromptShown

LEMMA EndLineKeeps ==
  ASSUME EInv, NEW c, EndLine(c)
  PROVE  EInv'
<1>1. display' \in Display
  BY PutcTyped DEF EInv, EndLine
<1>2. TypeOK'
  BY <1>1 DEF EInv, TypeOK, EndLine, Got, Display
<1> QED
  BY <1>1, <1>2 DEF EInv, EndLine, PromptShown, EchoMatchesLine

LEMMA NextEInv == EInv /\ [Next]_vars => EInv'
<1> SUFFICES ASSUME EInv, [Next]_vars PROVE EInv'
  OBVIOUS
<1>1. CASE Readline \/ Caller
  BY <1>1, CallerKeeps
<1>2. CASE Prompting
  BY <1>2, PromptCharKeeps, BeginLineKeeps DEF Prompting
<1>3. CASE UNCHANGED vars
  BY <1>3 DEF vars, EInv, TypeOK, PromptShown, EchoMatchesLine
<1>4. ASSUME NEW c \in Input, Erase(c) \/ Insert(c) \/ EndLine(c) \/ Ignored(c) PROVE EInv'
  <2>1. CASE Erase(c)
    BY <2>1, EraseKeeps
  <2>2. CASE Insert(c)
    BY <2>2, InsertKeeps
  <2>3. CASE EndLine(c)
    BY <2>3, EndLineKeeps
  <2>4. CASE Ignored(c)
    BY <2>4, <1>3 DEF Ignored
  <2> QED
    BY <1>4, <2>1, <2>2, <2>3, <2>4
<1> QED
  BY <1>1, <1>2, <1>3, <1>4 DEF Next, Typing

LEMMA EditorInvariant == Spec => []EInv
<1>1. Init => EInv
  BY InitEInv
<1>2. EInv /\ [Next]_vars => EInv'
  BY NextEInv
<1> QED
  BY <1>1, <1>2, PTL DEF Spec

\* Whatever is typed, and whatever was on the screen, what the user sees
\* between the prompt and the cursor is what readline holds: through the ends
\* of rows, scrolling and erasing.
THEOREM EchoCorrect == Spec => []EchoMatchesLine
<1>1. EInv => EchoMatchesLine
  BY DEF EInv
<1> QED
  BY <1>1, EditorInvariant, PTL

\* The cursor stays on the screen and the line in its buffer.
THEOREM TypeCorrect == Spec => []TypeOK
<1>1. EInv => TypeOK
  BY DEF EInv
<1> QED
  BY <1>1, EditorInvariant, PTL

---------------------------------------------------------------------------
(* Words of a sequence. *)

\* Where words begin, from two neighbours at a time.
Starts(s) ==
    {n \in 1 .. Len(s) : s[n] \notin Whitespace /\ (n = 1 \/ s[n - 1] \in Whitespace)}

LEMMA LeastOfSet ==
  ASSUME NEW T, T \subseteq Nat, T # {}
  PROVE  \E x \in T : \A y \in T : x <= y
<1> DEFINE R == OpToRel(<, Nat)
<1>1. IsWellFoundedOn(R, Nat)
  BY NatLessThanWellFounded
<1>2. \A x, y \in Nat : x < y => <<x, y>> \in R
  BY DEF OpToRel
<1> HIDE DEF R
<1>3. PICK x \in T : \A y \in T : ~ (<<y, x>> \in R)
  BY <1>1, WFMin
<1>4. \A y \in T : ~ (y < x)
  BY <1>2, <1>3
<1> QED
  BY <1>4

\* A word that begins somewhere ends somewhere.
LEMMA WordEnds ==
  ASSUME NEW S, NEW s \in Seq(S), NEW first \in Starts(s)
  PROVE  \E last \in first .. Len(s) : IsWord(s, first, last)
<1> DEFINE T == {n \in first .. Len(s) : n = Len(s) \/ s[n + 1] \in Whitespace}
<1>1. Len(s) \in Nat /\ first \in 1 .. Len(s)
  BY DEF Starts
<1>2. T \subseteq Nat /\ Len(s) \in T
  BY <1>1
<1>3. PICK last \in T : \A n \in T : last <= n
  BY <1>2, LeastOfSet
<1>4. last \in first .. Len(s) /\ (last = Len(s) \/ s[last + 1] \in Whitespace)
  OBVIOUS
<1>5. ASSUME NEW k \in first .. last PROVE s[k] \notin Whitespace
  <2>1. CASE k = first
    BY <2>1 DEF Starts
  <2>2. CASE k # first
    <3>1. k - 1 \in first .. Len(s) /\ ~ (last <= k - 1)
      BY <1>1, <1>4, <2>2
    <3>2. k - 1 \notin T
      BY <1>3, <3>1
    <3>3. (k - 1) + 1 = k
      BY <1>1
    <3> QED
      BY <3>1, <3>2, <3>3
  <2> QED
    BY <2>1, <2>2
<1>6. first = 1 \/ s[first - 1] \in Whitespace
  BY DEF Starts
<1> QED
  BY <1>4, <1>5, <1>6 DEF IsWord

LEMMA WordStartsAre ==
  ASSUME NEW S, NEW s \in Seq(S)
  PROVE  WordStarts(s) = Starts(s)
<1>1. Len(s) \in Nat /\ DOMAIN s = 1 .. Len(s)
  OBVIOUS
<1>2. ASSUME NEW first \in Starts(s) PROVE first \in WordStarts(s)
  BY <1>1, WordEnds DEF WordStarts, Starts
<1>3. ASSUME NEW first \in WordStarts(s) PROVE first \in Starts(s)
  <2>1. PICK last \in first .. Len(s) : IsWord(s, first, last)
    BY DEF WordStarts
  <2>2. first \in 1 .. Len(s)
    BY <1>1 DEF WordStarts
  <2>3. first \in first .. last
    BY <1>1, <2>1, <2>2
  <2> QED
    BY <2>1, <2>2, <2>3 DEF Starts, IsWord
<1> QED
  BY <1>2, <1>3

LEMMA OneWord ==
  ASSUME NEW S, NEW s \in Seq(S), NEW first \in 1 .. Len(s),
         NEW m \in first .. Len(s), NEW n \in first .. Len(s),
         IsWord(s, first, m), IsWord(s, first, n)
  PROVE  m = n
<1>1. Len(s) \in Nat
  OBVIOUS
<1>2. ~ (m < n)
  <2> SUFFICES ASSUME m < n PROVE FALSE
    OBVIOUS
  <2>1. m + 1 \in first .. n /\ m # Len(s)
    BY <1>1
  <2> QED
    BY <2>1 DEF IsWord
<1>3. ~ (n < m)
  <2> SUFFICES ASSUME n < m PROVE FALSE
    OBVIOUS
  <2>1. n + 1 \in first .. m /\ n # Len(s)
    BY <1>1
  <2> QED
    BY <2>1 DEF IsWord
<1> QED
  BY <1>1, <1>2, <1>3

\* A string ends at the first NUL from where it begins.
LEMMA StringIs ==
  ASSUME NEW start \in Nat, NEW end \in Nat, start <= end,
         DOMAIN buf \subseteq Nat, end \in DOMAIN buf, buf[end] = NUL,
         \A k \in start .. end - 1 : buf[k] # NUL
  PROVE  StringAt(buf, start) = [k \in 1 .. end - start |-> buf[start + k - 1]]
<1> DEFINE E(n) == n >= start /\ buf[n] = NUL /\ \A k \in start .. n - 1 : buf[k] # NUL
           c == CHOOSE n \in DOMAIN buf : E(n)
<1>1. c \in DOMAIN buf /\ E(c)
  <2>1. E(end)
    OBVIOUS
  <2> QED
    BY <2>1
<1>2. c = end
  <2>1. ~ (c < end)
    BY <1>1
  <2>2. ~ (end < c)
    BY <1>1
  <2> QED
    BY <1>1, <2>1, <2>2
<1> QED
  BY <1>2 DEF StringAt

---------------------------------------------------------------------------
(* The monitor. *)

\* Readline's line has no NUL in it: what runcmd finds first is its own.
LineGraphic == pc = "readline" => \A k \in 0 .. i - 1 : buf[k] \in Graphic

\* runcmd has the buffer to itself: up to next, white space is cut out of the
\* line that the user saw, and after it the line is as it was.
LineCut ==
    at # "prompt" =>
        /\ pc = "caller"
        /\ Len(line) = i
        /\ buf[i] = NUL
        /\ \A k \in 0 .. i - 1 :
            buf[k] = IF k < next /\ line[k + 1] \in Whitespace THEN NUL ELSE line[k + 1]

\* The words that begin before next are in argv.
WordsTaken ==
    /\ \A j, k \in DOMAIN argv : j < k => argv[j] < argv[k]
    /\ at = "gobble" =>
        /\ {argv[k] + 1 : k \in DOMAIN argv} = Starts(line) \cap 1 .. next
        /\ \/ next = 0 \/ next = i
           \/ line[next] \in Whitespace \/ line[next + 1] \in Whitespace
    /\ at = "scan" => {argv[k] + 1 : k \in DOMAIN argv} = Starts(line) \cap 1 .. next + 1
    /\ at = "command" /\ argv # <<>> =>
        next = i /\ {argv[k] + 1 : k \in DOMAIN argv} = Starts(line)

MInv ==
    /\ EInv /\ LineGraphic
    /\ at \in {"prompt", "gobble", "scan", "command"}
    /\ line \in Seq(Graphic)
    /\ next \in 0 .. Len(line)
    /\ argv \in Seq(0 .. Len(line) - 1) /\ Len(argv) < MAXARGS
    /\ LineCut /\ WordsTaken

LEMMA InitMInv == MInit => MInv
<1> SUFFICES ASSUME MInit PROVE MInv
  OBVIOUS
<1>1. EInv /\ LineGraphic
  BY InitEInv DEF MInit, Init, LineGraphic
<1>2. /\ at = "prompt" /\ next = 0 /\ argv = <<>> /\ line = <<>> /\ Len(argv) < MAXARGS
  BY MaxArgsAssumption DEF MInit
<1> QED
  BY <1>1, <1>2 DEF MInv, LineCut, WordsTaken

\* What readline and its callers do with buffer and screen.
LEMMA StepsOfEditor ==
  ASSUME MInv, [MNext]_mvars
  PROVE  [Next]_vars
<1>1. CASE MReadline
  BY <1>1 DEF MReadline, Next
<1>2. CASE Gobble
  <2>1. pc = "caller" /\ buf' \in [0 .. BUFLEN - 1 -> Graphic \cup {NUL}]
    BY <1>2 DEF Gobble, MInv, EInv, TypeOK, LineCut
  <2> QED
    BY <1>2, <2>1 DEF Gobble, Next, Caller, CallerWrites
<1>3. CASE CommandPrints
  BY <1>3 DEF CommandPrints, Next, Caller
<1>4. CASE TakeWord \/ TooManyWords \/ Scan \/ EndOfLine \/ CommandReturns
  BY <1>4 DEF TakeWord, TooManyWords, Scan, EndOfLine, CommandReturns
<1>5. CASE UNCHANGED mvars
  BY <1>5 DEF mvars
<1> QED
  BY <1>1, <1>2, <1>3, <1>4, <1>5 DEF MNext, Runcmd

LEMMA EditorKeeps ==
  ASSUME MInv, [MNext]_mvars
  PROVE  EInv'
BY StepsOfEditor, NextEInv DEF MInv

LEMMA GraphicChars == Graphic \cap {NUL, "\t", "\n", "\r"} = {} /\ NUL \notin Whitespace
BY CharsAssumption DEF Graphic, Control, Whitespace, NUL, Space

\* A step of readline that does not end the line.
LEMMA TypingKeeps ==
  ASSUME MInv, MReadline, at' = "prompt"
  PROVE  MInv'
<1>1. EInv'
  BY EditorKeeps DEF MNext
<1>2. UNCHANGED <<at, parser, line>> /\ at = "prompt"
  BY DEF MReadline
<1>3. LineGraphic'
  <2>1. CASE Readline \/ Prompting
    BY <2>1 DEF Readline, Prompting, PromptChar, BeginLine, LineGraphic
  <2>2. ASSUME NEW c \in Input, Erase(c) PROVE LineGraphic'
    BY <2>2 DEF Erase, Erases, LineGraphic, MInv, EInv, TypeOK
  <2>3. ASSUME NEW c \in Input, Insert(c) PROVE LineGraphic'
    <3>1. /\ c \in Graphic /\ pc = "readline" /\ buf' = [buf EXCEPT ![i] = c] /\ i' = i + 1
          /\ i \in 0 .. BUFLEN - 1 /\ DOMAIN buf = 0 .. BUFLEN - 1
      BY <2>3 DEF Insert, Got, Graphic, MInv, EInv, TypeOK
    <3>2. ASSUME NEW k \in 0 .. i' - 1 PROVE buf'[k] \in Graphic
      <4>1. CASE k = i
        BY <3>1, <4>1
      <4>2. CASE k # i
        <5>1. k \in 0 .. i - 1
          BY <3>1, <3>2, <4>2, BufferAssumption
        <5>2. buf'[k] = buf[k]
          BY <3>1, <4>2
        <5> QED
          BY <3>1, <5>1, <5>2 DEF MInv, LineGraphic
      <4> QED
        BY <4>1, <4>2
    <3> QED
      BY <3>2 DEF LineGraphic
  <2>4. ASSUME NEW c \in Input, EndLine(c) \/ Ignored(c) PROVE LineGraphic'
    BY <2>4 DEF EndLine, Ignored, vars, LineGraphic, MInv
  <2> QED
    BY <1>2, <2>1, <2>2, <2>3, <2>4 DEF MReadline, Typing
<1> QED
  BY <1>1, <1>2, <1>3 DEF MInv, LineCut, WordsTaken, parser

\* The line on the screen is the string that readline returns.
LEMMA EndLineKeepsM ==
  ASSUME MInv, MReadline, at' # "prompt"
  PROVE  MInv'
<1>1. EInv'
  BY EditorKeeps DEF MNext
<1>2. /\ pc' = "caller" /\ at' = "gobble" /\ next' = 0 /\ argv' = <<>> /\ line' = Shown
      /\ Typing
  BY DEF MReadline
<1>3. PICK c \in Input : EndLine(c)
  BY <1>2 DEF Typing, Erase, Insert, Ignored, Got, vars
<1>4. /\ pc = "readline" /\ i' = i /\ buf' = [buf EXCEPT ![i] = NUL]
      /\ i \in Nat /\ i \in 0 .. BUFLEN - 1 /\ DOMAIN buf = 0 .. BUFLEN - 1
  BY <1>3 DEF EndLine, Got, MInv, EInv, TypeOK
<1>5. /\ display.pos = display.mark + i /\ display.mark \in Int
      /\ \A k \in 0 .. i - 1 : display.cells[display.mark + k] = buf[k] /\ buf[k] \in Graphic
  BY <1>4, ScreenSize DEF MInv, EInv, EchoMatchesLine, LineGraphic, Display, Place
<1>6. display.pos - display.mark = i
  BY <1>4, <1>5
<1>7. line' = [k \in 1 .. i |-> buf[k - 1]]
  <2>1. ASSUME NEW k \in 1 .. i PROVE display.cells[display.mark + k - 1] = buf[k - 1]
    <3>1. k - 1 \in 0 .. i - 1 /\ display.mark + (k - 1) = display.mark + k - 1
      BY <1>4, <1>5
    <3> QED
      BY <1>5, <3>1
  <2> QED
    BY <1>2, <1>6, <2>1 DEF Shown
<1>8. line' \in Seq(Graphic) /\ Len(line') = i
  BY <1>4, <1>5, <1>7
<1>9. LineCut'
  BY <1>2, <1>4, <1>7, <1>8 DEF LineCut
<1>10. WordsTaken'
  BY <1>2 DEF WordsTaken
<1> QED
  BY <1>1, <1>2, <1>4, <1>8, <1>9, <1>10, MaxArgsAssumption DEF MInv, LineGraphic

LEMMA GobbleKeeps ==
  ASSUME MInv, Gobble
  PROVE  MInv'
<1>1. EInv'
  BY EditorKeeps DEF MNext, Runcmd
<1>2. /\ at = "gobble" /\ buf[next] \in Whitespace /\ buf' = [buf EXCEPT ![next] = NUL]
      /\ next' = next + 1 /\ UNCHANGED <<display, i, shown, pc, at, argv, line>>
  BY DEF Gobble
<1>3. /\ pc = "caller" /\ Len(line) = i /\ i \in 0 .. BUFLEN - 1 /\ DOMAIN buf = 0 .. BUFLEN - 1
      /\ line \in Seq(Graphic) /\ next \in 0 .. i /\ buf[i] = NUL
      /\ \A k \in 0 .. i - 1 :
            buf[k] = IF k < next /\ line[k + 1] \in Whitespace THEN NUL ELSE line[k + 1]
  BY <1>2 DEF MInv, EInv, TypeOK, LineCut
<1>4. next \in 0 .. i - 1 /\ line[next + 1] \in Whitespace
  BY <1>2, <1>3, GraphicChars
<1>5. LineCut'
  BY <1>2, <1>3, <1>4, BufferAssumption DEF LineCut
<1>6. WordsTaken'
  <2>1. Starts(line) \cap 1 .. next + 1 = Starts(line) \cap 1 .. next
    BY <1>3, <1>4 DEF Starts
  <2> QED
    BY <1>2, <1>4, <2>1 DEF MInv, WordsTaken
<1> QED
  BY <1>1, <1>2, <1>3, <1>4, <1>5, <1>6 DEF MInv, LineGraphic

LEMMA TakeWordKeeps ==
  ASSUME MInv, TakeWord
  PROVE  MInv'
<1>1. EInv'
  BY EditorKeeps DEF MNext, Runcmd
<1>2. /\ at = "gobble" /\ buf[next] \notin Whitespace \cup {NUL} /\ Len(argv) # MAXARGS - 1
      /\ argv' = Append(argv, next) /\ at' = "scan" /\ UNCHANGED <<vars, next, line>>
  BY DEF TakeWord
<1>3. /\ Len(line) = i /\ i \in Nat /\ line \in Seq(Graphic) /\ next \in 0 .. i /\ buf[i] = NUL
      /\ \A k \in 0 .. i - 1 :
            buf[k] = IF k < next /\ line[k + 1] \in Whitespace THEN NUL ELSE line[k + 1]
      /\ argv \in Seq(0 .. Len(line) - 1) /\ Len(argv) < MAXARGS /\ Len(argv) \in Nat
      /\ {argv[k] + 1 : k \in DOMAIN argv} = Starts(line) \cap 1 .. next
      /\ \A j, k \in DOMAIN argv : j < k => argv[j] < argv[k]
  BY <1>2 DEF MInv, EInv, TypeOK, LineCut, WordsTaken
<1>4. next \in 0 .. i - 1 /\ line[next + 1] \notin Whitespace
  BY <1>2, <1>3
<1>5. next + 1 \in Starts(line)
  <2>1. next = 0 \/ line[next] \in Whitespace
    BY <1>2, <1>4 DEF MInv, WordsTaken
  <2> QED
    BY <1>3, <1>4, <2>1 DEF Starts
<1>6. /\ DOMAIN argv' = 1 .. Len(argv) + 1 /\ argv'[Len(argv) + 1] = next
      /\ \A k \in DOMAIN argv : k \in DOMAIN argv' /\ argv'[k] = argv[k] /\ k < Len(argv) + 1
      /\ argv' \in Seq(0 .. Len(line) - 1) /\ Len(argv') = Len(argv) + 1
      /\ DOMAIN argv = 1 .. Len(argv)
  BY <1>2, <1>3, <1>4
<1>7. {argv'[k] + 1 : k \in DOMAIN argv'} = Starts(line) \cap 1 .. next + 1
  <2>1. ASSUME NEW k \in DOMAIN argv' PROVE argv'[k] + 1 \in Starts(line) \cap 1 .. next + 1
    <3>1. CASE k \in DOMAIN argv
      <4>1. argv[k] + 1 \in Starts(line) \cap 1 .. next
        BY <1>3, <3>1
      <4> QED
        BY <1>3, <1>6, <3>1, <4>1
    <3>2. CASE k = Len(argv) + 1
      BY <1>3, <1>5, <1>6, <3>2
    <3> QED
      BY <1>3, <1>6, <3>1, <3>2
  <2>2. ASSUME NEW n \in Starts(line) \cap 1 .. next + 1 PROVE \E k \in DOMAIN argv' : n = argv'[k] + 1
    <3>1. CASE n = next + 1
      <4>1. Len(argv) + 1 \in DOMAIN argv'
        BY <1>3, <1>6
      <4> QED
        BY <1>6, <3>1, <4>1
    <3>2. CASE n # next + 1
      <4>1. n \in {argv[k] + 1 : k \in DOMAIN argv}
        BY <1>3, <3>2
      <4> QED
        BY <1>6, <4>1
    <3> QED
      BY <3>1, <3>2
  <2> QED
    BY <2>1, <2>2
<1>8. ASSUME NEW j \in DOMAIN argv', NEW k \in DOMAIN argv', j < k PROVE argv'[j] < argv'[k]
  <2>1. j \in DOMAIN argv /\ argv'[j] = argv[j]
    BY <1>3, <1>6, <1>8
  <2>2. CASE k \in DOMAIN argv
    BY <1>3, <1>6, <1>8, <2>1, <2>2
  <2>3. CASE k = Len(argv) + 1
    <3>1. argv[j] + 1 \in 1 .. next /\ argv[j] \in Int
      BY <1>3, <2>1
    <3> QED
      BY <1>3, <1>6, <2>1, <2>3, <3>1
  <2> QED
    BY <1>3, <1>6, <2>2, <2>3
<1>9. WordsTaken'
  BY <1>2, <1>7, <1>8 DEF WordsTaken
<1> QED
  BY <1>1, <1>2, <1>3, <1>6, <1>9, MaxArgsAssumption DEF MInv, LineGraphic, LineCut, vars

LEMMA ScanKeeps ==
  ASSUME MInv, Scan
  PROVE  MInv'
<1>1. EInv'
  BY EditorKeeps DEF MNext, Runcmd
<1>2. at = "scan" /\ UNCHANGED <<vars, argv, line>>
  BY DEF Scan
<1>3. /\ Len(line) = i /\ i \in Nat /\ line \in Seq(Graphic) /\ next \in 0 .. i /\ buf[i] = NUL
      /\ \A k \in 0 .. i - 1 :
            buf[k] = IF k < next /\ line[k + 1] \in Whitespace THEN NUL ELSE line[k + 1]
      /\ {argv[k] + 1 : k \in DOMAIN argv} = Starts(line) \cap 1 .. next + 1
  <2>1. {argv[k] + 1 : k \in DOMAIN argv} = Starts(line) \cap 1 .. next + 1
    BY <1>2 DEF MInv, WordsTaken
  <2>2. i \in Nat
    BY DEF MInv, EInv, TypeOK
  <2> QED
    BY <1>2, <2>1, <2>2 DEF MInv, LineCut
<1>4. CASE buf[next] \notin Whitespace \cup {NUL} /\ next' = next + 1 /\ at' = at
  <2>1. next \in 0 .. i - 1 /\ line[next + 1] \notin Whitespace
    BY <1>3, <1>4
  <2>2. next + 2 \notin Starts(line)
    BY <1>3, <2>1 DEF Starts
  <2>3. Starts(line) \cap 1 .. next + 1 = Starts(line) \cap 1 .. next' + 1
    BY <1>3, <1>4, <2>1, <2>2
  <2>4. WordsTaken'
    BY <1>2, <1>3, <1>4, <2>3 DEF MInv, WordsTaken
  <2>5. ASSUME NEW k \in 0 .. i - 1
        PROVE  buf[k] = IF k < next + 1 /\ line[k + 1] \in Whitespace THEN NUL ELSE line[k + 1]
    BY <1>3, <2>1, <2>5
  <2>6. LineCut'
    BY <1>2, <1>4, <2>5 DEF MInv, LineCut, vars
  <2> QED
    BY <1>1, <1>2, <1>3, <1>4, <2>1, <2>4, <2>6 DEF MInv, LineGraphic, vars
<1>5. CASE buf[next] \in Whitespace \cup {NUL} /\ at' = "gobble" /\ next' = next
  <2>1. next = i \/ line[next + 1] \in Whitespace
    <3>1. ASSUME next # i, line[next + 1] \notin Whitespace PROVE FALSE
      <4>1. next \in 0 .. i - 1 /\ line[next + 1] \in Graphic
        BY <1>3, <3>1
      <4> QED
        BY <1>3, <1>5, <3>1, <4>1, GraphicChars
    <3> QED
      BY <3>1
  <2>2. next + 1 \notin Starts(line)
    BY <1>3, <2>1 DEF Starts
  <2>3. Starts(line) \cap 1 .. next + 1 = Starts(line) \cap 1 .. next
    BY <1>3, <2>2
  <2>4. WordsTaken'
    BY <1>2, <1>3, <1>5, <2>1, <2>3 DEF MInv, WordsTaken, vars
  <2> QED
    BY <1>1, <1>2, <1>5, <2>4 DEF MInv, LineGraphic, LineCut, vars
<1> QED
  BY <1>4, <1>5 DEF Scan

LEMMA WordsEnd ==
  ASSUME MInv, TooManyWords \/ EndOfLine
  PROVE  MInv'
<1>1. EInv'
  BY EditorKeeps DEF MNext, Runcmd
<1>2. at = "gobble" /\ at' = "command" /\ UNCHANGED <<vars, next, line>>
  BY DEF TooManyWords, EndOfLine, parser
<1>3. /\ Len(line) = i /\ i \in Nat /\ line \in Seq(Graphic) /\ next \in 0 .. i
      /\ \A k \in 0 .. i - 1 :
            buf[k] = IF k < next /\ line[k + 1] \in Whitespace THEN NUL ELSE line[k + 1]
      /\ {argv[k] + 1 : k \in DOMAIN argv} = Starts(line) \cap 1 .. next
  BY <1>2 DEF MInv, EInv, TypeOK, LineCut, WordsTaken
<1>4. CASE TooManyWords
  <2>1. argv' = <<>> /\ Len(argv') = 0
    BY <1>4 DEF TooManyWords
  <2>2. WordsTaken'
    BY <1>2, <2>1 DEF WordsTaken
  <2> QED
    BY <1>1, <1>2, <2>1, <2>2, MaxArgsAssumption DEF MInv, LineGraphic, LineCut, vars
<1>5. CASE EndOfLine
  <2>1. buf[next] = NUL /\ argv' = argv
    BY <1>5 DEF EndOfLine, parser
  <2>2. next = i
    <3> SUFFICES ASSUME next # i PROVE FALSE
      OBVIOUS
    <3>1. next \in 0 .. i - 1 /\ line[next + 1] \in Graphic
      BY <1>3
    <3> QED
      BY <1>3, <2>1, <3>1, GraphicChars
  <2>3. Starts(line) \cap 1 .. next = Starts(line)
    BY <1>3, <2>2 DEF Starts
  <2>4. WordsTaken'
    BY <1>2, <1>3, <2>1, <2>2, <2>3 DEF MInv, WordsTaken, vars
  <2> QED
    BY <1>1, <1>2, <2>1, <2>4 DEF MInv, LineGraphic, LineCut, vars
<1> QED
  BY <1>4, <1>5

LEMMA CommandKeeps ==
  ASSUME MInv, CommandPrints \/ CommandReturns
  PROVE  MInv'
<1>1. EInv'
  BY EditorKeeps DEF MNext
<1>2. CASE CommandPrints
  BY <1>1, <1>2 DEF CommandPrints, PrintChar, parser, MInv, LineGraphic, LineCut, WordsTaken
<1>3. CASE CommandReturns
  BY <1>1, <1>3 DEF CommandReturns, vars, parser, MInv, LineGraphic, LineCut, WordsTaken
<1> QED
  BY <1>2, <1>3

LEMMA NextMInv == MInv /\ [MNext]_mvars => MInv'
<1> SUFFICES ASSUME MInv, [MNext]_mvars PROVE MInv'
  OBVIOUS
<1>1. CASE MReadline
  BY <1>1, TypingKeeps, EndLineKeepsM
<1>2. CASE Runcmd
  BY <1>2, GobbleKeeps, TakeWordKeeps, ScanKeeps, WordsEnd DEF Runcmd
<1>3. CASE CommandPrints \/ CommandReturns
  BY <1>3, CommandKeeps
<1>4. CASE UNCHANGED mvars
  BY <1>4, EditorKeeps DEF mvars, vars, parser, MInv, LineGraphic, LineCut, WordsTaken
<1> QED
  BY <1>1, <1>2, <1>3, <1>4 DEF MNext

LEMMA MonitorInvariant == MSpec => []MInv
<1>1. MInit => MInv
  BY InitMInv
<1>2. MInv /\ [MNext]_mvars => MInv'
  BY NextMInv
<1> QED
  BY <1>1, <1>2, PTL DEF MSpec

---------------------------------------------------------------------------
\* The monitor is a caller of readline as LineEditor has it: it prints and
\* writes into the buffer only between two lines.
THEOREM MonitorUsesEditor == MSpec => Spec
<1>1. MInit => Init
  BY DEF MInit
<1>2. MInv /\ [MNext]_mvars => [Next]_vars
  BY StepsOfEditor
<1> QED
  BY <1>1, <1>2, MonitorInvariant, PTL DEF MSpec, Spec

\* The line on the screen is the line in the buffer, also when commands print
\* and runcmd writes into the buffer.
THEOREM EchoInMonitor == MSpec => []EchoMatchesLine
BY MonitorUsesEditor, EchoCorrect, PTL

\* runcmd stays inside the string it was given, and argv inside its array.
THEOREM MonitorTypeCorrect == MSpec => []MTypeOK
<1>1. MInv => MTypeOK
  BY DEF MInv, MTypeOK, EInv
<1> QED
  BY <1>1, MonitorInvariant, PTL

\* A word of a line that is cut at all its white space is a string.
LEMMA WordIsString ==
  ASSUME line \in Seq(Graphic), Len(line) = i, i \in DOMAIN buf, DOMAIN buf = 0 .. BUFLEN - 1,
         buf[i] = NUL,
         \A k \in 0 .. i - 1 : buf[k] = IF line[k + 1] \in Whitespace THEN NUL ELSE line[k + 1],
         NEW start \in Nat, start + 1 \in Starts(line)
  PROVE  StringAt(buf, start) = WordAt(line, start + 1)
<1> DEFINE first == start + 1
<1>1. first \in 1 .. Len(line) /\ i \in Nat /\ i <= BUFLEN - 1 /\ BUFLEN \in Nat
  BY BufferAssumption DEF Starts
<1>2. PICK last \in first .. Len(line) : IsWord(line, first, last)
  BY WordEnds
<1>3. last \in Nat /\ start <= last /\ last <= i
  BY <1>1, <1>2
<1>4. WordAt(line, first) = SubSeq(line, first, last)
  <2> DEFINE e == CHOOSE n \in first .. Len(line) : IsWord(line, first, n)
  <2>1. e \in first .. Len(line) /\ IsWord(line, first, e)
    BY <1>2
  <2>2. e = last
    BY <1>1, <1>2, <2>1, OneWord
  <2> QED
    BY <2>2 DEF WordAt
<1>5. last \in DOMAIN buf /\ buf[last] = NUL
  <2>1. last = i \/ line[last + 1] \in Whitespace
    BY <1>2 DEF IsWord
  <2>2. last \in DOMAIN buf
    BY <1>1, <1>3
  <2>3. CASE last = i
    BY <2>3
  <2>4. CASE last # i
    <3>1. last \in 0 .. i - 1
      BY <1>1, <1>3, <2>4
    <3> QED
      BY <2>1, <2>2, <2>4, <3>1
  <2> QED
    BY <2>2, <2>3, <2>4
<1>6. ASSUME NEW n \in start .. last - 1 PROVE buf[n] = line[n + 1] /\ buf[n] # NUL
  <2>1. n + 1 \in first .. last /\ n \in 0 .. i - 1
    BY <1>1, <1>3
  <2>2. line[n + 1] \notin Whitespace /\ line[n + 1] \in Graphic
    BY <1>1, <1>2, <2>1 DEF IsWord
  <2> QED
    BY <2>1, <2>2, GraphicChars
<1>7. StringAt(buf, start) = [n \in 1 .. last - start |-> buf[start + n - 1]]
  <2>1. DOMAIN buf \subseteq Nat
    BY <1>1
  <2>2. \A n \in start .. last - 1 : buf[n] # NUL
    BY <1>6
  <2> QED
    BY <1>3, <1>5, <2>1, <2>2, StringIs
<1>8. SubSeq(line, first, last) = [n \in 1 .. last - start |-> line[n + first - 1]]
  <2>1. 1 + last - first = last - start
    BY <1>3
  <2>2. SubSeq(line, first, last) = [n \in 1 .. 1 + last - first |-> line[n + first - 1]]
    BY <1>1, <1>3
  <2> QED
    BY <2>1, <2>2
<1>9. ASSUME NEW n \in 1 .. last - start PROVE buf[start + n - 1] = line[n + first - 1]
  <2>1. start + n - 1 \in start .. last - 1 /\ (start + n - 1) + 1 = n + first - 1
    BY <1>3
  <2> QED
    BY <1>6, <2>1
<1> QED
  BY <1>4, <1>7, <1>8, <1>9

LEMMA WordsOfLine == MInv => ArgumentsAreWords
<1> SUFFICES ASSUME MInv, at = "command", argv # <<>>
             PROVE  /\ {argv[k] + 1 : k \in DOMAIN argv} = WordStarts(line)
                    /\ \A k \in DOMAIN argv :
                        /\ k > 1 => argv[k - 1] < argv[k]
                        /\ StringAt(buf, argv[k]) = WordAt(line, argv[k] + 1)
  BY DEF ArgumentsAreWords
<1>1. /\ Len(line) = i /\ i \in Nat /\ line \in Seq(Graphic) /\ next = i /\ buf[i] = NUL
      /\ i \in DOMAIN buf /\ DOMAIN buf \subseteq Nat
      /\ \A k \in 0 .. i - 1 :
            buf[k] = IF line[k + 1] \in Whitespace THEN NUL ELSE line[k + 1]
      /\ {argv[k] + 1 : k \in DOMAIN argv} = Starts(line)
      /\ argv \in Seq(0 .. Len(line) - 1)
      /\ DOMAIN buf = 0 .. BUFLEN - 1
  BY DEF MInv, EInv, TypeOK, LineCut, WordsTaken
<1>2. WordStarts(line) = Starts(line)
  BY <1>1, WordStartsAre
<1>3. ASSUME NEW k \in DOMAIN argv, k > 1 PROVE argv[k - 1] < argv[k]
  <2>1. k - 1 \in DOMAIN argv /\ k - 1 < k
    BY <1>1, <1>3
  <2> QED
    BY <2>1 DEF MInv, WordsTaken
<1>4. ASSUME NEW k \in DOMAIN argv PROVE StringAt(buf, argv[k]) = WordAt(line, argv[k] + 1)
  <2>1. argv[k] \in Nat /\ argv[k] + 1 \in Starts(line)
    BY <1>1
  <2> QED
    BY <1>1, <2>1, WordIsString
<1> QED
  BY <1>1, <1>2, <1>3, <1>4

\* A command gets the words of the line the user saw when he pressed Enter,
\* and nothing of what the buffer held before or of what was erased.
THEOREM CommandsGetWords == MSpec => []ArgumentsAreWords
BY WordsOfLine, MonitorInvariant, PTL

===========================================================================
