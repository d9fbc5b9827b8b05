---------------------------- MODULE CgaScreen ----------------------------
(***************************************************************************)
(* cga_putc of lab/kern/console.c: the text screen and its cursor, as      *)
(* functions of a display to a display.  Colours, and the copies that      *)
(* cons_putc sends to the serial and the parallel port, are left out.      *)
(* A mark, for the properties, names a place in the text: it moves with    *)
(* the text when the screen scrolls, and is -1 once that place is gone.    *)
(***************************************************************************)
EXTENDS Integers, Sequences

CONSTANTS CRT_ROWS, CRT_COLS

ASSUME ScreenAssumption == CRT_ROWS \in Nat \ {0, 1} /\ CRT_COLS \in Nat \ {0}

CRT_SIZE == CRT_ROWS * CRT_COLS
Place    == 0 .. CRT_SIZE - 1
Space    == " "
BS       == "BS"

\* When the cursor leaves the screen, every row moves up, and the last one is
\* blank.
Scrolled(d) ==
    IF d.pos < CRT_SIZE THEN d
    ELSE [cells |-> [p \in Place |->
                        IF p + CRT_COLS < CRT_SIZE THEN d.cells[p + CRT_COLS] ELSE Space],
          pos   |-> d.pos - CRT_COLS,
          mark  |-> IF d.mark < CRT_COLS THEN -1 ELSE d.mark - CRT_COLS]

Backspace(d) ==
    IF d.pos = 0 THEN d ELSE [d EXCEPT !.pos = @ - 1, !.cells[d.pos - 1] = Space]

RowStart(pos) == pos - (pos % CRT_COLS)

Written(d, c) ==
    CASE c = BS   -> Backspace(d)
      [] c = "\n" -> [d EXCEPT !.pos = RowStart(@ + CRT_COLS)]
      [] c = "\r" -> [d EXCEPT !.pos = RowStart(@)]
      [] OTHER    -> [d EXCEPT !.pos = @ + 1, !.cells[d.pos] = c]

Put(d, c) == Scrolled(Written(d, c))

\* A tab is five spaces, each put on its own.
cga_putc(d, c) ==
    IF c = "\t" THEN Put(Put(Put(Put(Put(d, Space), Space), Space), Space), Space)
    ELSE Put(d, c)
=========================================================================
