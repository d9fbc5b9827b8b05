------------------------------ MODULE Shell ------------------------------
(***************************************************************************)
(* The shell of hw/hw1/shell/sh.c: main reads a line, forks a child that   *)
(* runs the parsed command (runcmd) and waits for it.  runcmd is modelled  *)
(* system call by system call, so that the stages of a pipeline interleave *)
(* while they set up their descriptors, run, block on a pipe and exit.     *)
(*                                                                         *)
(* The kernel and the programs are not under src/: the process table, file *)
(* descriptors, pipes and files below are what sh.c relies on them for.    *)
(* Lines come from a terminal, already parsed into trees.                  *)
(***************************************************************************)
EXTENDS Naturals, Sequences, FiniteSets

CONSTANTS
    Scripts,    \* the sequences of lines a user may type, as command trees
    Program,    \* what execvp finds: name -> [err, out, reads]
    InitFiles,  \* files at the start: <<directory, name>> -> contents
    Dirs,       \* directories chdir can enter
    MaxPid,     \* size of the process table; pid 1 is the shell
    PipeCap,    \* tokens a pipe holds
    MaxFail     \* bound: fork, pipe and open calls that fail for a reason
                \* that is not in the model

ASSUME BoundsAssumption ==
    /\ MaxPid \in Nat \ {0} /\ PipeCap \in Nat \ {0} /\ MaxFail \in Nat
ASSUME ProgramAssumption ==
    \A name \in DOMAIN Program : Program[name].reads \in {"none", "one", "all"}

main  == 1
Child == 2 .. MaxPid
Pid   == 1 .. MaxPid
init  == 0                    \* adopts and reaps orphans

PipeId == 1 .. MaxPid         \* a process creates a pipe only when it forks
Hole   == "hole"              \* what a write past the end leaves behind

VARIABLES
    lines,      \* the lines main has not read yet
    typed,      \* history: the lines main has read
    proc,       \* process table: pid -> record
    pipe,       \* contents of the pipes
    file,       \* <<directory, name>> -> contents
    console,    \* what reached the terminal, the prompts left out
    failures    \* fork, pipe and open calls that failed

input == <<lines, typed>>
vars == <<input, proc, pipe, file, console, failures>>

---------------------------------------------------------------------------
(* Descriptors and processes. *)

tty        == [kind |-> "tty"]
ReadEnd(i) == [kind |-> "r", pipe |-> i]
WriteEnd(i) == [kind |-> "w", pipe |-> i]
\* Only a process that goes on to exec opens files: no offset is ever shared.
Opened(mode, key, pos) == [kind |-> mode, key |-> key, pos |-> pos]

NoProg == [err |-> <<>>, out |-> <<>>, reads |-> "none"]
Unused == [st |-> "unused", parent |-> init, pc |-> "none", cmd |-> <<>>,
           fd |-> <<>>, pfd |-> <<0, 0>>, cwd |-> "/", prog |-> NoProg]
Zombie(parent) == [Unused EXCEPT !.st = "zombie", !.parent = parent]

Live(p) == proc[p].st = "live"
At(p, label) == Live(p) /\ proc[p].pc = label

FdsOf(p) == DOMAIN proc[p].fd
Descriptors == UNION {{proc[p].fd[n] : n \in FdsOf(p)} : p \in {q \in Pid : Live(q)}}
Readers(i) == ReadEnd(i) \in Descriptors
Writers(i) == WriteEnd(i) \in Descriptors

LowestFree(fds) == CHOOSE n \in 0 .. 8 : n \notin fds /\ \A m \in 0 .. n-1 : m \in fds
Put(fd, n, d) == [m \in DOMAIN fd \cup {n} |-> IF m = n THEN d ELSE fd[m]]
Without(fd, n) == [m \in DOMAIN fd \ {n} |-> fd[m]]

\* p ends: its descriptors close, its children go to init, which reaps them;
\* it stays a zombie until its own parent waits for it.
ExitTable(p) ==
    [q \in Pid |->
        CASE q = p /\ proc[p].parent = init -> Unused
          [] q = p /\ proc[p].parent # init -> Zombie(proc[p].parent)
          [] q # p /\ proc[q].parent = p /\ Live(q) -> [proc[q] EXCEPT !.parent = init]
          [] q # p /\ proc[q].parent = p /\ ~Live(q) -> Unused
          [] OTHER -> proc[q]]

Exit(p) == proc' = ExitTable(p) /\ UNCHANGED <<input, pipe, file, console, failures>>

\* What the terminal shows: tokens of standard output, messages of standard
\* error.  runcmd redirects 0 and 1 only, so 2 is the terminal in every process.
Written(t)       == [fd |-> 1, text |-> t]
Message(m)       == [fd |-> 2, text |-> m]

\* p says on standard error what went wrong, and exits.
ExitSaying(p, message) ==
    /\ console' = Append(console, Message(message))
    /\ proc' = ExitTable(p)
    /\ UNCHANGED <<input, pipe, file>>

\* A call of runcmd fails for a reason that is not in the model.
FailsAnyhow == failures < MaxFail /\ failures' = failures + 1

\* p goes on at label, after a call that changed nothing but p's record.
Goto(p, label, changed) ==
    /\ proc' = [proc EXCEPT ![p] = [changed EXCEPT !.pc = label]]
    /\ UNCHANGED <<input, pipe, file, console, failures>>

---------------------------------------------------------------------------
Init ==
    /\ lines \in Scripts
    /\ typed = <<>>
    /\ proc = [p \in Pid |->
                IF p = main
                THEN [Unused EXCEPT !.st = "live", !.pc = "getcmd",
                                    !.fd = [n \in 0 .. 2 |-> tty]]
                ELSE Unused]
    /\ pipe = [i \in PipeId |-> <<>>]
    /\ file = InitFiles
    /\ console = <<>>
    /\ failures = 0

---------------------------------------------------------------------------
(* fork1: the child is a copy of its parent that goes on at childLabel.    *)
(* When fork fails, fork1 only says so on standard error: it returns -1    *)
(* and the caller goes on where a parent would.                            *)

ForkSucceeds(p, parentLabel, childLabel) ==
    /\ \E c \in Child :
        /\ proc[c] = Unused
        /\ \A d \in Child : d < c => proc[d] # Unused
        /\ proc' = [proc EXCEPT
                ![p].pc = parentLabel,
                ![c] = [proc[p] EXCEPT !.parent = p, !.pc = childLabel]]
    /\ UNCHANGED <<input, pipe, file, console, failures>>

CanFail(p) == failures < MaxFail \/ \A c \in Child : proc[c] # Unused

ForkFails(p, parentLabel) ==
    /\ CanFail(p)
    /\ failures' = failures + 1
    /\ console' = Append(console, Message("fork"))
    /\ proc' = [proc EXCEPT ![p].pc = parentLabel]
    /\ UNCHANGED <<input, pipe, file>>

Fork1(p, parentLabel, childLabel) ==
    \/ ForkSucceeds(p, parentLabel, childLabel)
    \/ ForkFails(p, parentLabel)

---------------------------------------------------------------------------
(* main *)

\* getcmd returns -1 at the end of the input, and main exits.
EndOfInput ==
    /\ At(main, "getcmd")
    /\ lines = <<>>
    /\ Exit(main)

\* cd runs in the shell itself; a chdir that fails leaves it where it was.
Cd ==
    /\ At(main, "getcmd")
    /\ lines # <<>>
    /\ Head(lines).type = "cd"
    /\ lines' = Tail(lines)
    /\ typed' = Append(typed, Head(lines))
    /\ \/ /\ Head(lines).dir \in Dirs
          /\ proc' = [proc EXCEPT ![main].cwd = Head(lines).dir]
          /\ UNCHANGED console
       \/ /\ Head(lines).dir \notin Dirs
          /\ console' = Append(console, Message("cd"))
          /\ UNCHANGED proc
    /\ UNCHANGED <<pipe, file, failures>>

ReadLine ==
    /\ At(main, "getcmd")
    /\ lines # <<>>
    /\ Head(lines).type # "cd"
    /\ lines' = Tail(lines)
    /\ typed' = Append(typed, Head(lines))
    /\ proc' = [proc EXCEPT ![main].pc = "fork", ![main].cmd = Head(lines)]
    /\ UNCHANGED <<pipe, file, console, failures>>

ForkCommand ==
    /\ At(main, "fork")
    /\ Fork1(main, "wait", "runcmd")

\* wait returns at once when there is no child to wait for (fork1 failed).
Wait ==
    /\ At(main, "wait")
    /\ \/ \E c \in Child :
            /\ proc[c] = Zombie(main)
            /\ proc' = [proc EXCEPT ![c] = Unused, ![main].pc = "getcmd",
                                    ![main].cmd = <<>>]
       \/ /\ \A c \in Child : proc[c].parent # main
          /\ proc' = [proc EXCEPT ![main].pc = "getcmd", ![main].cmd = <<>>]
    /\ UNCHANGED <<input, pipe, file, console, failures>>

---------------------------------------------------------------------------
(* runcmd, in process p *)

Runs(p, type) == At(p, "runcmd") /\ proc[p].cmd.type = type

\* parsecmd, in the child: a line that does not parse.
ParseFails(p) ==
    /\ Runs(p, "syntax")
    /\ ExitSaying(p, "syntax")
    /\ UNCHANGED failures

\* A command without a word.
NothingToRun(p) ==
    /\ Runs(p, "exec")
    /\ proc[p].cmd.argv0 = "none"
    /\ Exit(p)

Exec(p) ==
    /\ Runs(p, "exec")
    /\ proc[p].cmd.argv0 \in DOMAIN Program
    /\ Goto(p, "program",
            [proc[p] EXCEPT !.prog = Program[proc[p].cmd.argv0], !.cmd = <<>>])

\* execvp returns when there is no such program; runcmd ends in exit(0).
ExecFails(p) ==
    /\ Runs(p, "exec")
    /\ proc[p].cmd.argv0 \notin DOMAIN Program \cup {"none"}
    /\ ExitSaying(p, "exec")
    /\ UNCHANGED failures

RedirFd(type) == IF type = "<" THEN 0 ELSE 1

\* Mutant: the file is opened without closing the old descriptor first.
RedirCloseForgotten(p) ==
    /\ Runs(p, "<") \/ Runs(p, ">")
    /\ Goto(p, "open", proc[p])

RedirClose(p) ==
    /\ Runs(p, "<") \/ Runs(p, ">")
    /\ Goto(p, "open",
            [proc[p] EXCEPT !.fd = Without(@, RedirFd(proc[p].cmd.type))])

\* The path is looked up in the directory of the process that opens it.
RedirKey(p) == <<proc[p].cwd, proc[p].cmd.file>>

\* open gives the lowest free descriptor: the one RedirClose just closed.
RedirOpen(p) ==
    LET lowest == LowestFree(FdsOf(p))
        opened(mode) == [proc[p] EXCEPT !.fd = Put(@, lowest, Opened(mode, RedirKey(p), 0)),
                                        !.cmd = @.cmd]
    IN  /\ At(p, "open")
        /\ \/ /\ proc[p].cmd.type = "<"
              /\ RedirKey(p) \in DOMAIN file
              /\ Goto(p, "runcmd", opened("in"))
           \/ /\ proc[p].cmd.type = ">"
              /\ file' = Put(file, RedirKey(p), <<>>)
              /\ proc' = [proc EXCEPT ![p] = [opened("out") EXCEPT !.pc = "runcmd"]]
              /\ UNCHANGED <<input, pipe, console, failures>>

\* There is no such file to read, or open fails in some other way.
RedirOpenFails(p) ==
    /\ At(p, "open")
    /\ \/ /\ proc[p].cmd.type = "<"
          /\ RedirKey(p) \notin DOMAIN file
          /\ UNCHANGED failures
       \/ FailsAnyhow
    /\ ExitSaying(p, "open")

Pipe(p) ==
    /\ Runs(p, "|")
    /\ \E i \in PipeId :
        /\ ~Readers(i) /\ ~Writers(i)
        /\ \A j \in 1 .. i-1 : Readers(j) \/ Writers(j)
        /\ pipe' = [pipe EXCEPT ![i] = <<>>]
        /\ LET r == LowestFree(FdsOf(p))
               w == LowestFree(FdsOf(p) \cup {r})
           IN  proc' = [proc EXCEPT
                    ![p].fd = Put(Put(@, r, ReadEnd(i)), w, WriteEnd(i)),
                    ![p].pfd = <<r, w>>,
                    ![p].pc = "fork"]
    /\ UNCHANGED <<input, file, console, failures>>

PipeFails(p) ==
    /\ Runs(p, "|")
    /\ FailsAnyhow
    /\ ExitSaying(p, "pipe")

\* Mutant: the child takes the right side, so main waits for the left one.
PipeForkSwapped(p) ==
    /\ p # main
    /\ At(p, "fork")
    /\ Fork1(p, "left", "right")

\* The child will run the left side and the parent, or the caller of a fork1
\* that failed, the right one.
PipeFork(p) ==
    /\ p # main
    /\ At(p, "fork")
    /\ Fork1(p, "right", "left")

Close(p, n, label) == Goto(p, label, [proc[p] EXCEPT !.fd = Without(@, n)])
Dup2(p, from, to, label) ==
    Goto(p, label, [proc[p] EXCEPT !.fd = Put(@, to, proc[p].fd[from])])
CloseAndRun(p, n, cmd) ==
    Goto(p, "runcmd", [proc[p] EXCEPT !.fd = Without(@, n), !.cmd = cmd, !.pfd = <<0, 0>>])

LeftSide(p) ==
    \/ At(p, "left")       /\ Close(p, proc[p].pfd[1], "left dup2")
    \/ At(p, "left dup2")  /\ Dup2(p, proc[p].pfd[2], 1, "left close")
    \/ At(p, "left close") /\ CloseAndRun(p, proc[p].pfd[2], proc[p].cmd.left)

\* Mutant: the write end stays open in the reader.
RightSideKeepsWriteEnd(p) ==
    \/ At(p, "right")       /\ Goto(p, "right dup2", proc[p])
    \/ At(p, "right dup2")  /\ Dup2(p, proc[p].pfd[1], 0, "right close")
    \/ At(p, "right close") /\ CloseAndRun(p, proc[p].pfd[1], proc[p].cmd.right)

\* Mutant: the read end stays open twice in the reader.
RightSideKeepsReadEnd(p) ==
    \/ At(p, "right")       /\ Close(p, proc[p].pfd[2], "right dup2")
    \/ At(p, "right dup2")  /\ Dup2(p, proc[p].pfd[1], 0, "right close")
    \/ At(p, "right close") /\ Goto(p, "runcmd",
                                    [proc[p] EXCEPT !.cmd = @.right, !.pfd = <<0, 0>>])

RightSide(p) ==
    \/ At(p, "right")       /\ Close(p, proc[p].pfd[2], "right dup2")
    \/ At(p, "right dup2")  /\ Dup2(p, proc[p].pfd[1], 0, "right close")
    \/ At(p, "right close") /\ CloseAndRun(p, proc[p].pfd[1], proc[p].cmd.right)

Runcmd(p) ==
    \/ ParseFails(p) \/ NothingToRun(p) \/ Exec(p) \/ ExecFails(p)
    \/ RedirClose(p) \/ RedirOpen(p) \/ RedirOpenFails(p)
    \/ Pipe(p) \/ PipeFails(p) \/ PipeFork(p)
    \/ LeftSide(p) \/ RightSide(p)

---------------------------------------------------------------------------
(* A program complains on standard error if it does, writes what it has to *)
(* write, then reads a token from its standard input and copies it, until  *)
(* it has read enough or meets the end of its input.  Nobody types data at *)
(* the terminal.                                                           *)

Stdin(p)  == proc[p].fd[0]
Stdout(p) == proc[p].fd[1]

SaidMessage(p) == [proc[p] EXCEPT !.prog.err = Tail(@)]

ProgramComplains(p) ==
    /\ At(p, "program")
    /\ proc[p].prog.err # <<>>
    /\ console' = Append(console, Message(Head(proc[p].prog.err)))
    /\ proc' = [proc EXCEPT ![p] = SaidMessage(p)]
    /\ UNCHANGED <<input, pipe, file, failures>>

AtWork(p) == At(p, "program") /\ proc[p].prog.err = <<>>

WroteToken(p) == [proc[p] EXCEPT !.prog.out = Tail(@)]
ReadToken(p, t) == [proc[p] EXCEPT !.prog.out = <<t>>,
                                   !.prog.reads = IF @ = "one" THEN "none" ELSE @]

\* A write at position pos: past the end of a file someone else truncated it
\* leaves a hole.
WriteAt(s, pos, t) ==
    [i \in 1 .. (IF pos < Len(s) THEN Len(s) ELSE pos + 1) |->
        IF i = pos + 1 THEN t ELSE IF i <= Len(s) THEN s[i] ELSE Hole]

ProgramWrites(p) ==
    /\ AtWork(p)
    /\ proc[p].prog.out # <<>>
    /\ LET t == Head(proc[p].prog.out)
           out == Stdout(p)
       IN  \/ /\ out.kind = "tty"
              /\ console' = Append(console, Written(t))
              /\ proc' = [proc EXCEPT ![p] = WroteToken(p)]
              /\ UNCHANGED <<pipe, file>>
           \/ /\ out.kind = "out"
              /\ file' = [file EXCEPT ![out.key] = WriteAt(@, out.pos, t)]
              /\ proc' = [proc EXCEPT ![p] = [WroteToken(p) EXCEPT
                        !.fd = Put(@, 1, Opened("out", out.key, out.pos + 1))]]
              /\ UNCHANGED <<pipe, console>>
           \/ /\ out.kind = "w"
              /\ Readers(out.pipe)
              /\ Len(pipe[out.pipe]) < PipeCap
              /\ pipe' = [pipe EXCEPT ![out.pipe] = Append(@, t)]
              /\ proc' = [proc EXCEPT ![p] = WroteToken(p)]
              /\ UNCHANGED <<file, console>>
           \/ /\ out.kind = "w"         \* SIGPIPE
              /\ ~Readers(out.pipe)
              /\ proc' = ExitTable(p)
              /\ UNCHANGED <<pipe, file, console>>
    /\ UNCHANGED <<input, failures>>

WantsInput(p) ==
    /\ AtWork(p)
    /\ proc[p].prog.out = <<>>
    /\ proc[p].prog.reads # "none"

ProgramReads(p) ==
    /\ WantsInput(p)
    /\ LET in == Stdin(p)
       IN  \/ /\ in.kind = "in"
              /\ in.pos < Len(file[in.key])
              /\ proc' = [proc EXCEPT ![p] =
                    [ReadToken(p, file[in.key][in.pos + 1]) EXCEPT
                        !.fd = Put(@, 0, Opened("in", in.key, in.pos + 1))]]
              /\ UNCHANGED pipe
           \/ /\ in.kind = "r"
              /\ pipe[in.pipe] # <<>>
              /\ pipe' = [pipe EXCEPT ![in.pipe] = Tail(@)]
              /\ proc' = [proc EXCEPT ![p] = ReadToken(p, Head(pipe[in.pipe]))]
    /\ UNCHANGED <<input, file, console, failures>>

\* A pipe is at its end when it is empty and nobody can write to it.
AtEof(p) ==
    \/ Stdin(p).kind = "tty"
    \/ Stdin(p).kind = "in" /\ Stdin(p).pos >= Len(file[Stdin(p).key])
    \/ Stdin(p).kind = "r" /\ pipe[Stdin(p).pipe] = <<>> /\ ~Writers(Stdin(p).pipe)

ProgramEnds(p) ==
    /\ AtWork(p)
    /\ proc[p].prog.out = <<>>
    /\ proc[p].prog.reads = "none" \/ AtEof(p)
    /\ Exit(p)

ProgramStep(p) == ProgramComplains(p) \/ ProgramWrites(p) \/ ProgramReads(p) \/ ProgramEnds(p)

---------------------------------------------------------------------------
MainStep == EndOfInput \/ Cd \/ ReadLine \/ ForkCommand \/ Wait
Step(p) == Runcmd(p) \/ ProgramStep(p)

Next == MainStep \/ \E p \in Child : Step(p)

Spec == Init /\ [][Next]_vars

\* The kernel schedules every process that can run.
FairSpec == Spec /\ WF_vars(MainStep) /\ \A p \in Child : WF_vars(Step(p))

---------------------------------------------------------------------------
Labels == {"none", "getcmd", "fork", "wait", "runcmd", "open", "program",
           "left", "left dup2", "left close", "right", "right dup2", "right close"}

\* Types: descriptors name pipes and files that exist, a process below the
\* shell has a parent that is still there, or init, and five descriptors are
\* enough however long the pipeline: each stage gives back the pair it made.
TypeOK ==
    /\ failures \in Nat
    /\ \A p \in Pid :
        /\ proc[p].st \in {"unused", "live", "zombie"}
        /\ proc[p].pc \in Labels
        /\ proc[p].parent # init => Live(proc[p].parent)
        /\ FdsOf(p) \subseteq 0 .. 4
        /\ \A n \in FdsOf(p) :
            LET d == proc[p].fd[n]
            IN  \/ d = tty
                \/ d.kind \in {"r", "w"} /\ d.pipe \in PipeId
                \/ d.kind \in {"in", "out"} /\ d.key \in DOMAIN file /\ d.pos \in Nat
    /\ \A i \in PipeId : Len(pipe[i]) <= PipeCap

\* No leaked pipe end: a program starts with descriptors 0, 1 and 2 only, 0
\* readable and 1 writable.  An end left open by any of the close and dup2
\* calls of runcmd, in either process, would keep a reader from its end of
\* file or a writer from its SIGPIPE.
ProgramsHoldOnlyStdio ==
    \A p \in Child : At(p, "program") =>
        /\ FdsOf(p) = 0 .. 2
        /\ proc[p].fd[0].kind \in {"tty", "r", "in"}
        /\ proc[p].fd[1].kind \in {"tty", "w", "out"}
        /\ proc[p].fd[2] = tty

\* Standard output reaches the terminal from one process only, the last stage
\* of the line that main waits for; so once the shell prompts again, nothing
\* that still runs for an earlier line puts output there: a left side, which
\* the shell does not wait for, writes to a pipe or a file.  Standard error is
\* the terminal in every process: messages may appear after the prompt, from a
\* left side whose exec, open, pipe or fork fails or whose program complains
\* (`absent | true`), and those of main's own cd and fork1.
OutputOnlyBeforePrompt ==
    [][console' # console =>
         \/ console'[Len(console')].fd = 2
         \/ /\ At(main, "wait")
            /\ \E p \in Child : ProgramWrites(p) /\ proc[p].parent = main]_vars

\* sh.c:40 says of fork1 "Fork but exits on failure".
ForkFailureExits ==
    [][\A p \in Pid : \A label \in {"wait", "right"} :
            ForkFails(p, label) => ~Live(p)']_vars

\* The shell reaches the end of any input and leaves no process behind: no
\* stage of a pipeline waits for ever, whatever calls fail.
Quiesces == <>[](\A p \in Pid : proc[p] = Unused)
=========================================================================
