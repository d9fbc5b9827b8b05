-------------------------- MODULE ShellInput --------------------------
(***************************************************************************)
(* How main of hw/hw1/shell/sh.c gets its lines: getcmd reads through a    *)
(* stdio buffer, a child inherits a copy of what is left in that buffer    *)
(* together with the open file, whose offset it shares with the shell.     *)
(* When a child ends by exit, its stdio gives back what it has not read:   *)
(* it moves the offset of a regular file back by that much (a terminal or  *)
(* a pipe cannot seek).  Shell says what the commands do otherwise; here a *)
(* command is what it does with the shell's standard input.              *)
(***************************************************************************)
EXTENDS Integers, Sequences

CONSTANTS
    Inputs,     \* pairs: what is typed, sent or stands in a file, and its kind
    nbuf,       \* size of main's buf
    BUFSIZ,     \* size of the stdio buffer
    MaxStrays,  \* bound: left sides that are still running
    Parse(_),   \* parsecmd of a line
    EndsAs(_, _)    \* how a process may end that runs a tree: one of Fate

Kinds == {"tty", "pipe", "file"}
\* How a process ends that has the shell's standard input: by exit, which
\* gives back, by becoming a program, or with another input in its place.
Fate == {"exit", "program", "other"}

NUL == "NUL"
Least(set) == CHOOSE x \in set : \A y \in set : x <= y

ASSUME InputsAssumption == Inputs \subseteq Seq(STRING) \X Kinds
\* buf has room for a character and its NUL, and stdio's buffer for one.
ASSUME BuffersAssumption ==
    nbuf \in Nat \ {0, 1} /\ BUFSIZ \in Nat \ {0} /\ MaxStrays \in Nat

VARIABLES
    text, kind, \* the input, and "tty", "pipe" or "file"
    offset,     \* how much of it was taken: the offset of the open file
    unread,     \* main's stdio buffer
    buf,        \* main's buf, as a string
    line,       \* what fgets has put into it
    child,      \* the process main waits for, or none
    strays,     \* left sides of pipelines that have the same standard input
    pc,         \* "getcmd", "fgets", "main", "wait" or "done"
    ran,        \* history: what main did with its lines, until astray
    moved,      \* history: "no", "yes" when another process has moved the
                \* offset, "astray" when main has read after that
    breaks      \* history: the places where another process stopped reading

source == <<text, kind>>
inputVars == <<source, offset, unread, buf, line, child, strays, pc, ran, moved, breaks>>

None == [fate |-> "none", unread |-> <<>>]

InputInit ==
    /\ \E i \in Inputs : text = i[1] /\ kind = i[2]
    /\ offset = 0
    /\ unread = <<>> /\ buf = <<>> /\ line = <<>>
    /\ child = None /\ strays = <<>>
    /\ pc = "getcmd"
    /\ ran = <<>>
    /\ moved = "no"
    /\ breaks = {}

Others == <<source, child, strays, moved, breaks>>

---------------------------------------------------------------------------
(* getcmd *)

\* Mutant: the buffer is not cleared before fgets.
GetcmdKeepsBuf ==
    /\ pc = "getcmd"
    /\ line' = <<>>
    /\ pc' = "fgets"
    /\ UNCHANGED <<offset, unread, buf, ran, Others>>

\* memset, and fgets is called.
Getcmd ==
    /\ pc = "getcmd"
    /\ buf' = <<>>
    /\ line' = <<>>
    /\ pc' = "fgets"
    /\ UNCHANGED <<offset, unread, ran, Others>>

\* fgets stops after a newline and when one place is left for the NUL.
\* Mutant: getcmd does not use the last place of buf.
CompleteEarly(l) == l # <<>> /\ (l[Len(l)] = "\n" \/ Len(l) = nbuf - 2)
Complete(l) == l # <<>> /\ (l[Len(l)] = "\n" \/ Len(l) = nbuf - 1)

\* It copies up to there what the stdio buffer has.
Taken == Least({k \in 1 .. Len(unread) :
                k = Len(unread) \/ unread[k] = "\n" \/ Len(line) + k = nbuf - 1})

Take ==
    /\ pc = "fgets"
    /\ unread # <<>>
    /\ ~Complete(line)
    /\ LET k == Taken
       IN  /\ line' = line \o SubSeq(unread, 1, k)
           /\ unread' = SubSeq(unread, k + 1, Len(unread))
    /\ UNCHANGED <<offset, buf, pc, ran, Others>>

\* A read returns a buffer full of a file, the next line of a terminal, and of
\* a pipe as much as is there.
Amounts ==
    LET left == Len(text) - offset
        full == Least({BUFSIZ, left})
        newline == {i \in 1 .. full : text[offset + i] = "\n"}
    IN  CASE kind = "file" -> {full}
          [] kind = "tty"  -> {IF newline = {} THEN full ELSE Least(newline)}
          [] kind = "pipe" -> 1 .. full

Refill ==
    /\ pc = "fgets"
    /\ unread = <<>>
    /\ ~Complete(line)
    /\ offset < Len(text)
    /\ \E k \in Amounts :
        /\ unread' = SubSeq(text, offset + 1, offset + k)
        /\ offset' = offset + k
    /\ moved' = IF moved = "yes" THEN "astray" ELSE moved
    /\ UNCHANGED <<source, buf, line, child, strays, pc, ran, breaks>>

CString(l) == SubSeq(l, 1, Least({i \in 1 .. Len(l) + 1 : i = Len(l) + 1 \/ l[i] = NUL}) - 1)

\* At the end of the input fgets leaves what it has, or all of buf as it was.
FgetsReturns ==
    /\ pc = "fgets"
    /\ Complete(line) \/ (unread = <<>> /\ offset = Len(text))
    /\ buf' = IF line = <<>> THEN buf ELSE CString(line)
    /\ moved' = IF moved = "yes" /\ ~Complete(line) THEN "astray" ELSE moved
    /\ pc' = "main"
    /\ UNCHANGED <<source, offset, unread, line, child, strays, ran, breaks>>

---------------------------------------------------------------------------
(* main *)

\* getcmd returns -1, and main exits.
NoMoreLines ==
    /\ pc = "main"
    /\ buf = <<>>
    /\ pc' = "done"
    /\ UNCHANGED <<offset, unread, buf, line, ran, Others>>

IsCd == Len(buf) >= 3 /\ SubSeq(buf, 1, 3) = <<"c", "d", " ">>

Did(what) == ran' = IF moved = "astray" THEN ran ELSE Append(ran, what)

\* The last character is cut off, whether it is a newline or not.
CdLine ==
    /\ pc = "main"
    /\ IsCd
    /\ Did([type |-> "cd", dir |-> SubSeq(buf, 4, Len(buf) - 1)])
    /\ pc' = "getcmd"
    /\ UNCHANGED <<offset, unread, buf, line, Others>>

Process(fate) == [fate |-> fate, unread |-> unread]

\* The child parses the line and runs it; of a pipeline the left side, a child
\* of the child, keeps the input.  A fork that fails leaves nothing to wait for.
ForkLine ==
    /\ pc = "main"
    /\ buf # <<>> /\ ~IsCd
    /\ \E cmd \in {Parse(buf)} :
           /\ Did(cmd)
           /\ \/ child' = None /\ UNCHANGED strays
              \/ /\ \E fate \in Fate : EndsAs(cmd, fate) /\ child' = Process(fate)
                 /\ UNCHANGED strays
              \/ /\ cmd.type = "|"
                 /\ Len(strays) < MaxStrays
                 /\ child' = Process("other")
                 /\ \E fate \in Fate :
                       EndsAs(cmd.left, fate) /\ strays' = Append(strays, Process(fate))
    /\ pc' = "wait"
    /\ UNCHANGED <<source, offset, unread, buf, line, moved, breaks>>

WaitForChild ==
    /\ pc = "wait"
    /\ child = None
    /\ pc' = "getcmd"
    /\ UNCHANGED <<offset, unread, buf, line, ran, Others>>

Main == Getcmd \/ Take \/ Refill \/ FgetsReturns \/ NoMoreLines \/ CdLine \/ ForkLine \/ WaitForChild

---------------------------------------------------------------------------
(* The processes.  A program may read from the input it shares.          *)

Moves == moved' = IF moved = "no" THEN "yes" ELSE moved

\* Mutant: stdio seeks back although the file is too short for it.
EndsAnyway(p) ==
    LET gives == p.fate = "exit" /\ kind = "file" /\ p.unread # <<>>
    IN  /\ offset' = IF gives THEN offset - Len(p.unread) ELSE offset
        /\ IF gives THEN Moves ELSE UNCHANGED moved

\* exit of p: stdio seeks back, relative to where the offset is by now; a seek
\* to before the file fails.
Ends(p) ==
    LET gives == p.fate = "exit" /\ kind = "file" /\ p.unread # <<>> /\ offset >= Len(p.unread)
    IN  /\ offset' = IF gives THEN offset - Len(p.unread) ELSE offset
        /\ IF gives THEN Moves ELSE UNCHANGED moved

\* A program asks for as much as it likes, down to a character (`dd bs=1`), and
\* gets that or less: of a terminal never more than the rest of the line.  What
\* it reads and gives back before it ends counts as not read.
Asked == {k \in 1 .. Len(text) - offset :
            kind = "tty" => \A i \in 1 .. k - 1 : text[offset + i] # "\n"}

Reads(p) ==
    /\ p.fate = "program"
    /\ \E k \in Asked :
        /\ offset' = offset + k
        /\ breaks' = (breaks \ {offset}) \cup {offset + k}
    /\ Moves
    /\ UNCHANGED <<child, strays>>

ChildRuns ==
    /\ child # None
    /\ \/ Ends(child) /\ child' = None /\ UNCHANGED <<strays, breaks>>
       \/ Reads(child)
    /\ UNCHANGED <<source, unread, buf, line, pc, ran>>

Dropped(s, i) == SubSeq(s, 1, i - 1) \o SubSeq(s, i + 1, Len(s))

Stray(i) ==
    /\ i \in DOMAIN strays
    /\ \/ Ends(strays[i]) /\ strays' = Dropped(strays, i) /\ UNCHANGED <<child, breaks>>
       \/ Reads(strays[i])
    /\ UNCHANGED <<source, unread, buf, line, pc, ran>>

\* The shell has ended; its strays may go on.
Ended == pc = "done" /\ UNCHANGED inputVars

InputNext == Main \/ ChildRuns \/ (\E i \in 1 .. MaxStrays : Stray(i)) \/ Ended

InputSpec == InputInit /\ [][InputNext]_inputVars

---------------------------------------------------------------------------
\* Types: a line fits its buffer with its NUL, and no seek leaves the file.
InputTypeOK ==
    /\ offset \in 0 .. Len(text)
    /\ Len(line) < nbuf /\ Len(buf) < nbuf /\ Len(unread) <= BUFSIZ
    /\ child.fate \in {"none"} \cup Fate
    /\ Len(strays) <= MaxStrays
    /\ pc \in {"getcmd", "fgets", "main", "wait", "done"}

\* A line of the input, or what another process left of one: from after a
\* newline, or from where that process stopped, to the next newline or the end.
IsLine(s, e) ==
    /\ s = 0 \/ text[s] = "\n" \/ s \in breaks
    /\ e = Len(text) \/ text[e] = "\n"
    /\ \A j \in s + 1 .. e - 1 : text[j] # "\n"

\* The piece of number m that it is cut into if it is longer than buf.
Piece(s, e, m) == SubSeq(text, s + m * (nbuf - 1) + 1, Least({e, s + (m + 1) * (nbuf - 1)}))

\* On a terminal whose lines fit the stdio buffer, whoever reads and whenever:
\* main executes what is left of one line, up to its end (or a piece of that if
\* it is longer than buf), and never parts of two lines.  It is the whole line
\* unless another process read a part of that very line and stopped there.
LinesStayWhole ==
    /\ kind = "tty"
    /\ pc = "main" /\ buf # <<>>
    /\ \A i \in BUFSIZ .. Len(text) : \E j \in i - BUFSIZ + 1 .. i : text[j] = "\n"
    => \E s, m \in 0 .. Len(text), e \in 1 .. Len(text) :
          IsLine(s, e) /\ s + m * (nbuf - 1) < e /\ buf = CString(Piece(s, e, m))
=========================================================================
