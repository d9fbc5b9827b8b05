-------------------------- MODULE MCShellInput --------------------------
(***************************************************************************)
(* Inputs of the shell for TLC: every short line over the characters that  *)
(* the parser tells apart, and sessions of several lines.                  *)
(***************************************************************************)
EXTENDS ShellInput, SequencesExt

CONSTANT MAXARGS

Parser == INSTANCE ShellParser
Grammar == INSTANCE ShellGrammar

MCParse(chars) == Parser!parsecmd(chars)
MCEndsAs(cmd, fate) == Parser!MayEnd(cmd, fate)

ShortLines == SeqOf({"a", " ", "|", "<", ">"}, 5)

nl == "\n"
Sessions ==
    {<<"a", nl, "b", "b", nl>>, <<"a", nl, nl, "b">>, <<"a", nl, "b", " ", "a", nl, nl>>,
     <<"a", "|", "b", nl, "b", "b", nl, "a", nl>>, <<"a", nl, "b", "|", "a", nl, "b", nl>>,
     <<"c", "d", " ", "a", nl, "a", nl>>, <<"c", "d", " ", "a">>, <<"a", nl, "c", "d", " ">>,
     <<"c", "d", nl, " ", "c", "d", " ", "a", nl>>,
     <<"a", NUL, "b", nl, "a", nl>>, <<"a", nl, NUL, "b", nl, "a", nl>>,
     <<"a", "a", "a", "a", "a", "a", "a", "a", "a", "a", nl, "b", nl>>,
     <<"c", "d", " ", "a", "a", "a", "a", "a", "a", nl>>,
     <<"a", " ", "b", ">", "a", " ", "b", nl>>, <<"a", "|", "b", "|", "a", "b", "<", "b">>,
     <<">", "a", "<", "b", " ", "a", nl>>, <<"a", nl, ">", "b", nl, "|", nl, "b", nl>>}

MCInputs == (ShortLines \X {"file"}) \cup (Sessions \X {"tty", "pipe", "file"})

---------------------------------------------------------------------------
\* The shell does what the lines say, each once, in order, whole up to the size
\* of its buffer, until it has run all it read before another process moved the
\* offset; and it ends when it has done them all.  (A child that exits gives
\* back lines that the shell still has: read again, they are run again, or
\* pieces of them, as every exit moves the offset further back.)
CommandsAsTyped ==
    pc \in {"wait", "done"} =>
        LET commands == Grammar!Commands(text)
        IN  /\ IsPrefix(ran, commands)
            /\ pc = "done" /\ moved = "no" => ran = commands
=========================================================================
