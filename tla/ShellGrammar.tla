-------------------------- MODULE ShellGrammar --------------------------
(***************************************************************************)
(* What a command line and a whole input mean, without a parser: lines cut *)
(* at their bars, words and redirections picked by their places.  It is    *)
(* the reference for the parser and for main's reading of lines            *)
(* (hw/hw1/shell/sh.c).                                                    *)
(***************************************************************************)
EXTENDS Naturals, SequencesExt

CONSTANTS MAXARGS, nbuf

Blank == {" ", "\n"}
Special == {"<", "|", ">"}

Error == [type |-> "error"]
First(set, default) == IF set = {} THEN default ELSE Min(set)

\* A token begins at each symbol and where a word begins, and a word goes on
\* to the next blank or symbol.
Ordinary(t, i) == t[i] \notin Blank \cup Special
Starts(t) ==
    SelectSeq([i \in DOMAIN t |-> i],
              LAMBDA i : \/ t[i] \in Special
                         \/ Ordinary(t, i) /\ (i = 1 \/ ~Ordinary(t, i - 1)))
WordAt(t, i) ==
    SubSeq(t, i, First({j \in i .. Len(t) : ~Ordinary(t, j)}, Len(t) + 1) - 1)

\* One stage: the words that follow no redirection are its arguments, and the
\* redirections enclose it, the first one innermost.
Stage(t) ==
    LET starts == Starts(t)
        redirs == SelectSeq([k \in DOMAIN starts |-> k], LAMBDA k : t[starts[k]] \in Special)
        target(k) == k + 1
        named == \A k \in ToSet(redirs) :
                    target(k) \in DOMAIN starts /\ Ordinary(t, starts[target(k)])
        args == SelectSeq([k \in DOMAIN starts |-> k], LAMBDA k :
                    k \notin ToSet(redirs) /\ k - 1 \notin ToSet(redirs))
        words == [k \in DOMAIN args |-> WordAt(t, starts[args[k]])]
    IN  IF ~named \/ Len(words) >= MAXARGS THEN Error
        ELSE FoldLeft(LAMBDA cmd, k : [type |-> t[starts[k]], file |-> WordAt(t, starts[k + 1]),
                                       cmd |-> cmd],
                      [type |-> "exec", argv |-> words], redirs)

RECURSIVE Command(_)
Command(t) ==
    LET bar == First({i \in DOMAIN t : t[i] = "|"}, 0)
        left == Stage(SubSeq(t, 1, bar - 1))
        right == Command(SubSeq(t, bar + 1, Len(t)))
    IN  IF bar = 0 THEN Stage(t)
        ELSE IF Error \in {left, right} THEN Error
        ELSE [type |-> "|", left |-> left, right |-> right]

\* What main makes of a line; cd is told by its first three characters.
Meaning(t) ==
    IF Len(t) >= 3 /\ SubSeq(t, 1, 3) = <<"c", "d", " ">>
    THEN [type |-> "cd", dir |-> SubSeq(t, 4, Len(t) - 1)]
    ELSE Command(t)

---------------------------------------------------------------------------
\* An input is cut after each newline, and before a line is longer than the
\* buffer.
RECURSIVE Pieces(_)
Pieces(text) ==
    IF text = <<>> THEN <<>>
    ELSE LET newline == First({i \in DOMAIN text : text[i] = "\n"}, Len(text))
             len == Min({newline, nbuf - 1})
         IN  <<SubSeq(text, 1, len)>> \o Pieces(SubSeq(text, len + 1, Len(text)))

\* A NUL ends a line early, and an empty line ends the input.
UpToNUL(t) == SubSeq(t, 1, First({i \in DOMAIN t : t[i] = "NUL"}, Len(t) + 1) - 1)

Commands(text) ==
    LET lines == [k \in DOMAIN Pieces(text) |-> UpToNUL(Pieces(text)[k])]
        last == First({k \in DOMAIN lines : lines[k] = <<>>}, Len(lines) + 1) - 1
    IN  [k \in 1 .. last |-> Meaning(lines[k])]
=========================================================================
