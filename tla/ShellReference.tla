------------------------- MODULE ShellReference -------------------------
(***************************************************************************)
(* What a command line means, without processes: a reference definition    *)
(* that runs the stages of a pipeline one after the other.  It follows the *)
(* order in which runcmd (hw/hw1/shell/sh.c) takes a tree apart.           *)
(***************************************************************************)
EXTENDS Sequences

CONSTANTS Program, Dirs

\* The outcome of a stage: what it leaves on its standard output, what was said
\* on standard error, and the files.
Outcome(out, err, file) == [out |-> out, err |-> err, file |-> file]
Fails(message, file) == Outcome(<<>>, <<message>>, file)

FileNamed(file, key, contents) ==
    [k \in DOMAIN file \cup {key} |-> IF k = key THEN contents ELSE file[k]]

ProgramOutput(prog, input) ==
    prog.out \o CASE prog.reads = "none" -> <<>>
                  [] prog.reads = "one"  -> SubSeq(input, 1, IF input = <<>> THEN 0 ELSE 1)
                  [] prog.reads = "all"  -> input

RECURSIVE Run(_, _, _, _)
Run(cmd, input, file, cwd) ==
    CASE cmd.type = "exec" ->
            IF cmd.argv0 = "none" THEN Outcome(<<>>, <<>>, file)
            ELSE IF cmd.argv0 \notin DOMAIN Program THEN Fails("exec", file)
            ELSE LET prog == Program[cmd.argv0]
                 IN  Outcome(ProgramOutput(prog, input), prog.err, file)
      [] cmd.type = "<" ->
            IF <<cwd, cmd.file>> \in DOMAIN file
            THEN Run(cmd.cmd, file[<<cwd, cmd.file>>], file, cwd)
            ELSE Fails("open", file)
      [] cmd.type = ">" ->
            LET key == <<cwd, cmd.file>>
                r == Run(cmd.cmd, input, FileNamed(file, key, <<>>), cwd)
            IN  Outcome(<<>>, r.err, FileNamed(r.file, key, r.file[key] \o r.out))
      [] cmd.type = "|" ->
            LET left == Run(cmd.left, input, file, cwd)
                right == Run(cmd.right, left.out, left.file, cwd)
            IN  [right EXCEPT !.err = left.err \o @]
      [] cmd.type = "syntax" -> Fails("syntax", file)

\* What a whole session leaves on the terminal and in the files.
RECURSIVE Session(_, _, _)
Session(lines, before, cwd) ==
    IF lines = <<>> THEN before
    ELSE LET line == Head(lines)
             after(r) == Outcome(before.out \o r.out, before.err \o r.err, r.file)
             rest(sofar, dir) == Session(Tail(lines), sofar, dir)
         IN  CASE line.type # "cd" -> rest(after(Run(line, <<>>, before.file, cwd)), cwd)
               [] line.type = "cd" /\ line.dir \in Dirs    -> rest(before, line.dir)
               [] line.type = "cd" /\ line.dir \notin Dirs ->
                    rest(after(Fails("cd", before.file)), cwd)
=========================================================================
