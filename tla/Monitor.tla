---------------------------- MODULE Monitor ----------------------------
(***************************************************************************)
(* The kernel monitor (lab/kern/monitor.c): monitor reads a line with      *)
(* readline, runcmd cuts it into words where it stands, in readline's      *)
(* buffer, and a command prints what it has to say.  No command returns a  *)
(* negative number, so monitor never ends.                                 *)
(***************************************************************************)
EXTENDS LineEditor

CONSTANT MAXARGS

ASSUME MaxArgsAssumption == MAXARGS \in Nat \ {0, 1}

Whitespace == {"\t", "\r", "\n", Space}

VARIABLES
    at,     \* "prompt", "gobble", "scan" or "command"
    next,   \* runcmd's buf: what it looks at, as an index
    argv,   \* where the words begin; argc is its length
    line    \* history: the line the user saw when he ended it

parser == <<next, argv>>
mvars  == <<vars, at, parser, line>>

MInit == Init /\ at = "prompt" /\ next = 0 /\ argv = <<>> /\ line = <<>>

MReadline ==
    /\ at = "prompt"
    /\ \/ (Readline \/ Prompting) /\ UNCHANGED <<at, parser, line>>
       \/ /\ Typing
          /\ \/ /\ pc' = "readline"
                /\ UNCHANGED <<at, parser, line>>
             \/ /\ pc' = "caller"
                /\ at' = "gobble"
                /\ next' = 0
                /\ argv' = <<>>
                /\ line' = Shown

\* Mutant: white space is skipped and stays.
GobbleSkips ==
    /\ at = "gobble"
    /\ buf[next] \in Whitespace
    /\ next' = next + 1
    /\ UNCHANGED <<vars, at, argv, line>>

Gobble ==
    /\ at = "gobble"
    /\ buf[next] \in Whitespace
    /\ buf' = [buf EXCEPT ![next] = NUL]
    /\ next' = next + 1
    /\ UNCHANGED <<display, i, shown, pc, at, argv, line>>

TakeWord ==
    /\ at = "gobble"
    /\ buf[next] \notin Whitespace \cup {NUL}
    /\ Len(argv) # MAXARGS - 1
    /\ argv' = Append(argv, next)
    /\ at' = "scan"
    /\ UNCHANGED <<vars, next, line>>

\* The message about them is the only thing the line does.
TooManyWords ==
    /\ at = "gobble"
    /\ buf[next] \notin Whitespace \cup {NUL}
    /\ Len(argv) = MAXARGS - 1
    /\ at' = "command"
    /\ argv' = <<>>
    /\ UNCHANGED <<vars, next, line>>

Scan ==
    /\ at = "scan"
    /\ \/ /\ buf[next] \notin Whitespace \cup {NUL}
          /\ next' = next + 1
          /\ UNCHANGED at
       \/ /\ buf[next] \in Whitespace \cup {NUL}
          /\ at' = "gobble"
          /\ UNCHANGED next
    /\ UNCHANGED <<vars, argv, line>>

EndOfLine ==
    /\ at = "gobble"
    /\ buf[next] = NUL
    /\ at' = "command"
    /\ UNCHANGED <<vars, parser, line>>

\* A command, or the message about one that is unknown or about too many
\* words; an empty line prints nothing.
CommandPrints ==
    /\ at = "command"
    /\ \E c \in Output : PrintChar(c)
    /\ UNCHANGED <<at, parser, line>>

CommandReturns ==
    /\ at = "command"
    /\ at' = "prompt"
    /\ UNCHANGED <<vars, parser, line>>

Runcmd == Gobble \/ TakeWord \/ TooManyWords \/ Scan \/ EndOfLine

MNext == MReadline \/ Runcmd \/ CommandPrints \/ CommandReturns

MSpec == MInit /\ [][MNext]_mvars

---------------------------------------------------------------------------
\* Types; runcmd stays inside the string it was given.
MTypeOK ==
    /\ TypeOK
    /\ at \in {"prompt", "gobble", "scan", "command"}
    /\ next \in 0 .. Len(line)
    /\ Len(argv) < MAXARGS
    /\ \A k \in DOMAIN argv : argv[k] \in 0 .. Len(line) - 1

(* The words of a line, from their positions alone. *)
IsWord(s, first, last) ==
    /\ \A k \in first .. last : s[k] \notin Whitespace
    /\ first = 1 \/ s[first - 1] \in Whitespace
    /\ last = Len(s) \/ s[last + 1] \in Whitespace
WordAt(s, first) ==
    SubSeq(s, first, CHOOSE last \in first .. Len(s) : IsWord(s, first, last))
WordStarts(s) == {first \in DOMAIN s : \E last \in first .. Len(s) : IsWord(s, first, last)}

StringAt(b, start) ==
    LET end == CHOOSE n \in DOMAIN b : n >= start /\ b[n] = NUL /\ \A k \in start .. n - 1 : b[k] # NUL
    IN  [k \in 1 .. end - start |-> b[start + k - 1]]

\* A command sees the words of the line the user saw when he pressed Enter,
\* all of them, in order, each a string of its own, or none if they are too
\* many: they are strings inside readline's static buffer, which held longer
\* lines before, and nothing of those, or of what was erased, is among them.
ArgumentsAreWords ==
    at = "command" /\ argv # <<>> =>
        /\ {argv[k] + 1 : k \in DOMAIN argv} = WordStarts(line)
        /\ \A k \in DOMAIN argv :
            /\ k > 1 => argv[k - 1] < argv[k]
            /\ StringAt(buf, argv[k]) = WordAt(line, argv[k] + 1)
=========================================================================
