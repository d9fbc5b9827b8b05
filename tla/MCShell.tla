----------------------------- MODULE MCShell -----------------------------
(***************************************************************************)
(* Instances of Shell for TLC: a handful of programs, and sessions that    *)
(* meet every form of command, alone and combined.                         *)
(***************************************************************************)
EXTENDS Shell, TLC

Reference == INSTANCE ShellReference
Seqs == INSTANCE SequencesExt

MCProgram ==
    [gen  |-> [err |-> <<>>, out |-> <<"a", "b", "c">>, reads |-> "none"],
     word |-> [err |-> <<>>, out |-> <<"w">>, reads |-> "none"],
     moan |-> [err |-> <<"oh", "no">>, out |-> <<"m">>, reads |-> "none"],
     cat  |-> [err |-> <<>>, out |-> <<>>, reads |-> "all"],
     head |-> [err |-> <<>>, out |-> <<>>, reads |-> "one"],
     true |-> [err |-> <<>>, out |-> <<>>, reads |-> "none"]]

MCDirs == {"/", "d"}
MCInitFiles == (<<"/", "y">> :> <<"a", "b">>) @@ (<<"d", "y">> :> <<"c">>)

---------------------------------------------------------------------------
(* Command trees, as the parser builds them. *)

Cmd(name)        == [type |-> "exec", argv0 |-> name]
From(f, cmd)     == [type |-> "<", file |-> f, cmd |-> cmd]
To(f, cmd)       == [type |-> ">", file |-> f, cmd |-> cmd]
Bar(left, right) == [type |-> "|", left |-> left, right |-> right]
CdTo(dir)        == [type |-> "cd", dir |-> dir]
SyntaxError      == [type |-> "syntax"]

gen  == Cmd("gen")
word == Cmd("word")
moan == Cmd("moan")
cat  == Cmd("cat")
head == Cmd("head")

\* Every form of command on a line of its own.
OneLine ==
    {gen, Cmd("absent"), Cmd("none"), SyntaxError, cat,
     From("y", cat), From("absent", cat), From("y", To("z", cat)),
     To("z", To("z1", gen)), To("y", From("y", cat)),
     Bar(gen, cat), Bar(gen, head), Bar(gen, Cmd("true")),
     Bar(gen, Cmd("absent")), Bar(Cmd("absent"), cat), Bar(Cmd("none"), cat),
     Bar(word, From("y", cat)), Bar(To("z", gen), cat),
     Bar(moan, cat), Bar(moan, moan), To("z", moan),
     Bar(From("absent", cat), To("z", cat))}

ThreeStages == {Bar(gen, Bar(cat, cat)), Bar(gen, Bar(head, cat)), Bar(gen, Bar(cat, head)),
                Bar(gen, Bar(To("z", cat), cat)), Bar(gen, Bar(cat, Bar(cat, cat)))}

\* t.sh: write a file, feed it through a pipeline into another, show that one.
TestScript == <<To("z", gen), Bar(From("z", cat), To("z1", cat)), From("z1", cat)>>

\* Sessions in which a left side may outlive its line; none of them reads or
\* writes a file that such a left side writes.
Stragglers ==
    {<<Bar(gen, Cmd("true")), word>>,
     <<Bar(gen, head), Bar(gen, cat)>>,
     <<Bar(gen, head), Bar(gen, head), Bar(gen, cat)>>,
     <<Bar(To("z", gen), Cmd("true")), CdTo("d"), From("z", cat)>>,
     <<Bar(Cmd("absent"), Cmd("true")), moan>>,
     <<Bar(From("absent", cat), Cmd("true")), CdTo("absent"), word>>,
     <<Bar(moan, Cmd("true")), SyntaxError, word>>}

Directories ==
    {<<CdTo("d"), From("y", cat)>>,
     <<CdTo("absent"), From("y", cat)>>,
     <<CdTo("d"), To("z", gen), CdTo("/"), From("z", cat)>>}

RaceFree == {<<l>> : l \in OneLine \cup ThreeStages}
                \cup {TestScript} \cup Stragglers \cup Directories

\* Lines that pass data through the file system behind the shell's back: the
\* left side is not waited for.
Racy ==
    {<<Bar(To("z", gen), Cmd("true")), From("z", cat)>>,
     <<Bar(To("z", gen), Cmd("true")), To("z", word)>>,
     <<Bar(To("z", gen), From("z", cat))>>}

WithFailures == {<<l>> : l \in OneLine} \cup Racy \cup
    {<<l, word>> : l \in ThreeStages} \cup Stragglers

AllSessions == RaceFree \cup WithFailures

---------------------------------------------------------------------------
\* What was written to one of the terminal's descriptors, in order.
On(n) == LET writes == SelectSeq(console, LAMBDA w : w.fd = n)
         IN  [i \in DOMAIN writes |-> writes[i].text]

\* A session without failing calls that passes no data through the file
\* system behind the shell's back: whenever the shell prompts and nothing
\* runs any more, the terminal and the files are what running the lines one
\* stage after the other leaves: no interleaving of the stages loses, repeats
\* or reorders what flows through a pipe, every redirection lands on the
\* descriptor it names, and each failure is reported once, at some time.
OutputAsSequential ==
    (/\ At(main, "getcmd")
     /\ \A c \in Child : proc[c] = Unused
     /\ failures = 0
     /\ typed \o lines \in RaceFree) =>
        LET expected == Reference!Session(typed, Reference!Outcome(<<>>, <<>>, InitFiles), "/")
        IN  /\ On(1) = expected.out
            /\ Seqs!ToBag(On(2)) = Seqs!ToBag(expected.err)
            /\ file = expected.file
=========================================================================
