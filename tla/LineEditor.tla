--------------------------- MODULE LineEditor ---------------------------
(***************************************************************************)
(* readline of lab/lib/readline.c on the screen of CgaScreen: it echoes    *)
(* what getchar returns and keeps the line in a static buffer.  Between    *)
(* two lines its caller prints, and writes into that buffer.  getchar      *)
(* returns any character (ConsoleInput, Keyboard), never 0 and, on a       *)
(* console, never an error.                                                *)
(***************************************************************************)
EXTENDS CgaScreen

CONSTANTS
    BUFLEN,
    Prompt,     \* what cprintf shows first
    Input,      \* characters getchar may return
    Output      \* characters the caller may print

NUL == "NUL"
DEL == "DEL"        \* '\x7f': a graphic character for cga_putc, and >= ' '
Control == {BS, "\t", "\n", "\r", "^A"}       \* those below ' '

ASSUME BufferAssumption == BUFLEN \in Nat \ {0}
\* A line never fills the screen.  (1023 characters and 25 rows of 80.)
ASSUME LineFits == BUFLEN - 1 <= CRT_SIZE - CRT_COLS

\* getchar never returns 0, and the prompt is a string of graphic characters.
ASSUME CharsAssumption ==
    /\ NUL \notin Input
    /\ Len(Prompt) \in Nat /\ DOMAIN Prompt = 1 .. Len(Prompt)
    /\ \A k \in DOMAIN Prompt : Prompt[k] \notin Control

VARIABLES
    display,    \* crt_buf and crt_pos; the mark is where the line begins
    buf, i,     \* the line
    shown,      \* how much of the prompt is on the screen
    pc          \* "caller", "prompt" or "readline"

vars == <<display, buf, i, shown, pc>>

Graphic == Input \ Control

\* cga_init takes the cursor and the text the BIOS left.
Init ==
    /\ display \in [cells : {[p \in Place |-> c] : c \in {Space, "o"}},
                    pos : Place, mark : {-1}]
    /\ buf = [k \in 0 .. BUFLEN - 1 |-> NUL]
    /\ i = 0
    /\ shown = 0
    /\ pc = "caller"

PrintChar(c) ==
    /\ pc = "caller"
    /\ display' = cga_putc(display, c)
    /\ UNCHANGED <<buf, i, shown, pc>>

Readline ==
    /\ pc = "caller"
    /\ pc' = "prompt"
    /\ shown' = 0
    /\ UNCHANGED <<display, buf, i>>

\* cprintf("%s", prompt)
PromptChar ==
    /\ pc = "prompt"
    /\ shown < Len(Prompt)
    /\ display' = cga_putc(display, Prompt[shown + 1])
    /\ shown' = shown + 1
    /\ UNCHANGED <<buf, i, pc>>

BeginLine ==
    /\ pc = "prompt"
    /\ shown = Len(Prompt)
    /\ display' = [display EXCEPT !.mark = display.pos]
    /\ i' = 0
    /\ pc' = "readline"
    /\ UNCHANGED <<buf, shown>>

Got(c) == pc = "readline" /\ c \in Input

Erases(c) == c \in {BS, DEL} /\ i > 0

\* Mutant: an erased character stays on the screen.
EraseSilently(c) ==
    /\ Got(c)
    /\ Erases(c)
    /\ i' = i - 1
    /\ UNCHANGED <<display, buf, shown, pc>>

Erase(c) ==
    /\ Got(c)
    /\ Erases(c)
    /\ display' = cga_putc(display, BS)
    /\ i' = i - 1
    /\ UNCHANGED <<buf, shown, pc>>

\* Mutant: the buffer may be filled to its last place.
InsertLast(c) ==
    /\ Got(c)
    /\ ~Erases(c)
    /\ c \notin Control
    /\ i < BUFLEN
    /\ display' = cga_putc(display, c)
    /\ buf' = [buf EXCEPT ![i] = c]
    /\ i' = i + 1
    /\ UNCHANGED <<shown, pc>>

Insert(c) ==
    /\ Got(c)
    /\ ~Erases(c)
    /\ c \notin Control
    /\ i < BUFLEN - 1
    /\ display' = cga_putc(display, c)
    /\ buf' = [buf EXCEPT ![i] = c]
    /\ i' = i + 1
    /\ UNCHANGED <<shown, pc>>

\* Mutant: the line is not ended.
EndLineOpen(c) ==
    /\ Got(c)
    /\ c \in {"\n", "\r"}
    /\ display' = cga_putc(display, "\n")
    /\ pc' = "caller"
    /\ UNCHANGED <<buf, i, shown>>

EndLine(c) ==
    /\ Got(c)
    /\ c \in {"\n", "\r"}
    /\ display' = cga_putc(display, "\n")
    /\ buf' = [buf EXCEPT ![i] = NUL]
    /\ pc' = "caller"
    /\ UNCHANGED <<i, shown>>

\* Anything else is dropped without an echo: other control characters, an
\* erase with nothing to erase, a character that does not fit.
Ignored(c) ==
    /\ Got(c)
    /\ ~Erases(c)
    /\ c \in Control => c \notin {"\n", "\r"}
    /\ c \notin Control => i >= BUFLEN - 1
    /\ UNCHANGED vars

\* readline returned its own buffer.
CallerWrites ==
    /\ pc = "caller"
    /\ buf' \in [0 .. BUFLEN - 1 -> Graphic \cup {NUL}]
    /\ UNCHANGED <<display, i, shown, pc>>

Typing == \E c \in Input : Erase(c) \/ Insert(c) \/ EndLine(c) \/ Ignored(c)
Caller == CallerWrites \/ \E c \in Output : PrintChar(c)
Prompting == PromptChar \/ BeginLine

Next == Readline \/ Prompting \/ Typing \/ Caller

Spec == Init /\ [][Next]_vars

---------------------------------------------------------------------------
\* Types: after every character the cursor is on the screen, and the line
\* leaves room for its NUL.
TypeOK ==
    /\ DOMAIN display.cells = Place
    /\ display.pos \in Place
    /\ display.mark \in Place \cup {-1}
    /\ buf \in [0 .. BUFLEN - 1 -> Graphic \cup {NUL}]
    /\ i \in 0 .. BUFLEN - 1
    /\ shown \in 0 .. Len(Prompt)
    /\ pc \in {"caller", "prompt", "readline"}

\* What the user sees is what readline holds: the whole line is on the
\* screen, from the end of the prompt to the cursor, through line ends,
\* scrolling and erasing; and erasing stops at the prompt, which stays.
EchoMatchesLine ==
    pc = "readline" =>
        /\ display.mark >= 0
        /\ display.pos = display.mark + i
        /\ \A k \in 0 .. i - 1 : display.cells[display.mark + k] = buf[k]
        /\ \A k \in 1 .. Len(Prompt) :
            display.mark >= k => display.cells[display.mark - k] = Prompt[Len(Prompt) - k + 1]

Shown == [k \in 1 .. display.pos - display.mark |-> display.cells[display.mark + k - 1]]
=========================================================================
