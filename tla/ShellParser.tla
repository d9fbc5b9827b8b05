-------------------------- MODULE ShellParser --------------------------
(***************************************************************************)
(* The parser of hw/hw1/shell/sh.c: from the characters of a line to a     *)
(* command tree, by recursive descent.  gettoken and peek always leave     *)
(* *ps where a token begins or the line ends, so here *ps is what is left  *)
(* of the line's tokens, and a parsing function returns its tree, or its   *)
(* redirections and words, with the tokens it leaves.                      *)
(***************************************************************************)
EXTENDS Naturals, SequencesExt

CONSTANT MAXARGS    \* places of argv, the null pointer included

NUL == "NUL"
whitespace == {" ", "\n"}
symbols == {"<", "|", ">"}

CharAt(line, s) == IF s <= Len(line) THEN line[s] ELSE NUL
InWord(c) == c \notin whitespace \cup symbols \cup {NUL}

\* How far a word that begins at s goes.
RECURSIVE WordEnd(_, _)
WordEnd(line, s) ==
    IF InWord(CharAt(line, s)) THEN WordEnd(line, s + 1) ELSE s - 1

\* The tokens from s on, as calls of gettoken return them; the last is the NUL.
RECURSIVE gettoken(_, _)
gettoken(line, s) ==
    LET c == CharAt(line, s)
        eq == IF InWord(c) THEN WordEnd(line, s) ELSE s
    IN  IF c = NUL THEN <<[type |-> NUL, word |-> <<>>]>>
        ELSE IF c \in whitespace THEN gettoken(line, s + 1)
        ELSE <<[type |-> IF c \in symbols THEN c ELSE "a", word |-> SubSeq(line, s, eq)]>>
             \o gettoken(line, eq + 1)

peek(ps, toks) == Head(ps).type \in toks

---------------------------------------------------------------------------
execcmd(argv) == [type |-> "exec", argv |-> argv]
redircmd(cmd, file, type) == [type |-> type, file |-> file, cmd |-> cmd]
pipecmd(left, right) == [type |-> "|", left |-> left, right |-> right]

\* A message on stderr and exit(-1), from any depth: no tree comes back.
Exits == [type |-> "error"]

\* What the turns of a loop add, and what is left of the line.
Parsed(argv, redirs, ps) == [argv |-> argv, redirs |-> redirs, ps |-> ps]
Joined(p, q) == Parsed(p.argv \o q.argv, p.redirs \o q.redirs, q.ps)

\* Mutant: only one redirection in a place.
parseredirsOnce(ps) ==
    IF ~peek(ps, {"<", ">"}) THEN Parsed(<<>>, <<>>, ps)
    ELSE IF ps[2].type # "a" THEN Exits
    ELSE Parsed(<<>>, <<[type |-> ps[1].type, file |-> ps[2].word]>>, SubSeq(ps, 3, Len(ps)))

\* The redirections, the first one innermost.
RECURSIVE parseredirs(_)
parseredirs(ps) ==
    IF ~peek(ps, {"<", ">"}) THEN Parsed(<<>>, <<>>, ps)
    ELSE IF ps[2].type # "a" THEN Exits                     \* missing file
    ELSE LET rest == parseredirs(SubSeq(ps, 3, Len(ps)))
         IN  IF rest = Exits THEN Exits
             ELSE Joined(Parsed(<<>>, <<[type |-> ps[1].type, file |-> ps[2].word]>>, ps), rest)

\* The turns of parseexec's loop, with argc words read before.
RECURSIVE Words(_, _)
Words(ps, argc) ==
    IF peek(ps, {"|"}) \/ ps[1].type = NUL THEN Parsed(<<>>, <<>>, ps)
    ELSE IF ps[1].type # "a" THEN Exits                     \* syntax error
    ELSE IF argc + 1 >= MAXARGS THEN Exits                  \* too many args
    ELSE LET redirs == parseredirs(Tail(ps))
             rest == Words(redirs.ps, argc + 1)
         IN  IF redirs = Exits \/ rest = Exits THEN Exits
             ELSE Joined(Parsed(<<ps[1].word>>, redirs.redirs, ps), rest)

\* The exec node is made first and wrapped, and gets its words as they come.
Tree(p) ==
    [cmd |-> FoldLeft(LAMBDA cmd, r : redircmd(cmd, r.file, r.type), execcmd(p.argv), p.redirs),
     ps |-> p.ps]

parseexec(ps) ==
    LET first == parseredirs(ps)
        rest == Words(first.ps, 0)
    IN  IF first = Exits \/ rest = Exits THEN Exits ELSE Tree(Joined(first, rest))

\* parseline is parsepipe.
RECURSIVE parsepipe(_)
parsepipe(ps) ==
    LET left == parseexec(ps)
        right == parsepipe(Tail(left.ps))
    IN  IF left = Exits THEN Exits
        ELSE IF ~peek(left.ps, {"|"}) THEN left
        ELSE IF right = Exits THEN Exits
        ELSE [cmd |-> pipecmd(left.cmd, right.cmd), ps |-> right.ps]

\* What is left after the command is an error.
parsecmd(line) ==
    LET p == parsepipe(gettoken(line, 1))
    IN  IF p = Exits THEN Exits
        ELSE IF p.ps[1].type # NUL THEN Exits
        ELSE p.cmd

---------------------------------------------------------------------------
\* runcmd: how a process may end that runs a tree and has the shell's standard
\* input at first.  Under a redirection of it, and to the right of a bar, it
\* has another.
RECURSIVE MayEnd(_, _)
MayEnd(cmd, fate) ==
    CASE cmd.type = "error" -> fate = "exit"
      [] cmd.type = "exec" -> fate = "exit" \/ (fate = "program" /\ cmd.argv # <<>>)
      [] cmd.type = ">" -> fate = "exit" \/ MayEnd(cmd.cmd, fate)
      [] cmd.type = "<" -> fate = "other"
      [] cmd.type = "|" -> fate \in {"exit", "other"}
=========================================================================
