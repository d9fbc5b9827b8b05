--------------------------- MODULE ShellProofs ---------------------------
(***************************************************************************)
(* Proofs about Shell and ShellInput.                                      *)
(*                                                                         *)
(* Shell: for every session, every set of programs, every                  *)
(* size of the process table and of a pipe, a program starts with its      *)
(* three descriptors and no pipe end besides, nothing but the line that    *)
(* the shell waits for writes to the terminal, and the tables of           *)
(* processes, descriptors and pipes stay of their types.                   *)
(*                                                                         *)
(* All need what runcmd relies on at each of its system calls: which       *)
(* descriptors a process holds there (Disciplined), so that open and pipe  *)
(* return the numbers that close and dup2 expect.  The types need besides  *)
(* whom a process may have as its parent, and what a descriptor may name   *)
(* (TInv).                                                                 *)
(*                                                                         *)
(* ShellInput: for every input, every size of main's buffer and of         *)
(* stdio's, buf and the stdio buffer are never overrun and no seek leaves  *)
(* the file; and main never executes parts of two lines of a terminal.     *)
(* That needs that what fgets and stdio hold is the rest of one line, from *)
(* where a piece begins, and that the offset is between lines (InputInv).  *)
(***************************************************************************)
EXTENDS Shell, ShellInput, WellFoundedInduction, TLAPS

Fields == {"st", "parent", "pc", "cmd", "fd", "pfd", "cwd", "prog"}

\* The process table is a table of records.
Table == proc = [p \in Pid |-> proc[p]] /\ \A p \in Pid : DOMAIN proc[p] = Fields

\* Descriptor n may be d: 3 and 4 are the pair that pipe made.
Fits(n, d) ==
    /\ n = 0 => d.kind \in {"tty", "r", "in"}
    /\ n = 1 => d.kind \in {"tty", "w", "out"}
    /\ n = 2 => d = tty
    /\ n = 3 => d.kind = "r"
    /\ n = 4 => d.kind = "w"

ChildLabels == {"runcmd", "open", "program", "fork",
                "left", "left dup2", "left close", "right", "right dup2", "right close"}

\* The descriptors of a child at each of its labels.
HoldsAt(label, cmd, fd, pfd) ==
    /\ label \in ChildLabels
    /\ label \in {"runcmd", "program"} => DOMAIN fd = {0, 1, 2}
    /\ label = "open" => \/ cmd.type = "<" /\ DOMAIN fd = {1, 2}
                         \/ cmd.type = ">" /\ DOMAIN fd = {0, 2}
    /\ label \in {"fork", "left", "right"} => DOMAIN fd = {0, 1, 2, 3, 4}
    /\ label \in {"left dup2", "left close"} => DOMAIN fd = {0, 1, 2, 4}
    /\ label \in {"right dup2", "right close"} => DOMAIN fd = {0, 1, 2, 3}
    /\ label \notin {"runcmd", "program", "open"} => pfd[1] = 3 /\ pfd[2] = 4
    /\ \A n \in DOMAIN fd : Fits(n, fd[n])

Disciplined(r) == HoldsAt(r.pc, r.cmd, r.fd, r.pfd)

\* Who is at label with fd will write to the terminal, unless redirected again.
OnTerminal(label, fd) ==
    label \notin {"left", "left dup2"} /\ 1 \in DOMAIN fd /\ fd[1].kind = "tty"

MainHoldsStdio ==
    Live(main) => /\ proc[main].pc \in {"getcmd", "fork", "wait"}
                  /\ proc[main].fd = [n \in 0 .. 2 |-> tty]

ChildrenDisciplined == \A p \in Child : Live(p) => Disciplined(proc[p])

\* Only the child that main waits for is on the terminal.
LastStageOnTerminal ==
    \A p \in Child : Live(p) /\ OnTerminal(proc[p].pc, proc[p].fd) => proc[p].parent = main
OneChildOfMain ==
    \A p, q \in Child : proc[p].parent = main /\ proc[q].parent = main => p = q
MainWaitsForIt == \A p \in Child : proc[p].parent = main => At(main, "wait")

IInv ==
    /\ Table
    /\ MainHoldsStdio
    /\ ChildrenDisciplined
    /\ LastStageOnTerminal
    /\ OneChildOfMain
    /\ MainWaitsForIt

---------------------------------------------------------------------------
(* Descriptors *)

LEMMA Pids == /\ main \in Pid /\ main \notin Child /\ Child \subseteq Pid
              /\ \A p \in Pid : p = main \/ p \in Child
              /\ init \notin Pid
  BY BoundsAssumption DEF main, Pid, Child, init

\* open, pipe and dup2 take the lowest descriptor that is free.
LEMMA LowestIs ==
    ASSUME NEW fds, NEW k \in 0 .. 8, k \notin fds, \A m \in 0 .. k-1 : m \in fds
    PROVE  LowestFree(fds) = k
<1> DEFINE P(n) == n \notin fds /\ \A m \in 0 .. n-1 : m \in fds
<1>1. P(k)
  OBVIOUS
<1>2. \A n \in 0 .. 8 : P(n) => n = k
  BY <1>1, SMT
<1> HIDE DEF P
<1>3. LowestFree(fds) = CHOOSE n \in 0 .. 8 : P(n)
  BY DEF LowestFree, P
<1> QED
  BY <1>1, <1>2, <1>3

LEMMA LowestAtEachCall ==
    /\ LowestFree({1, 2}) = 0 /\ LowestFree({0, 2}) = 1
    /\ LowestFree({0, 1, 2}) = 3 /\ LowestFree({0, 1, 2} \cup {3}) = 4
<1>1. LowestFree({1, 2}) = 0
  BY LowestIs
<1>2. LowestFree({0, 2}) = 1
  <2>1. \A m \in 0 .. 1-1 : m \in {0, 2}
    OBVIOUS
  <2> QED BY <2>1, LowestIs
<1>3. LowestFree({0, 1, 2}) = 3
  <2>1. \A m \in 0 .. 3-1 : m \in {0, 1, 2}
    OBVIOUS
  <2> QED BY <2>1, LowestIs
<1>4. LowestFree({0, 1, 2} \cup {3}) = 4
  <2>1. \A m \in 0 .. 4-1 : m \in {0, 1, 2} \cup {3}
    OBVIOUS
  <2> QED BY <2>1, LowestIs
<1> QED
  BY <1>1, <1>2, <1>3, <1>4

LEMMA PutFits ==
    ASSUME NEW fd, NEW n, NEW d, \A m \in DOMAIN fd : Fits(m, fd[m]), Fits(n, d)
    PROVE  /\ DOMAIN Put(fd, n, d) = DOMAIN fd \cup {n}
           /\ Put(fd, n, d)[n] = d
           /\ \A m \in DOMAIN fd : m # n => Put(fd, n, d)[m] = fd[m]
           /\ \A m \in DOMAIN Put(fd, n, d) : Fits(m, Put(fd, n, d)[m])
  BY DEF Put

LEMMA PutPair ==
    ASSUME NEW fd, DOMAIN fd = {0, 1, 2}, \A m \in DOMAIN fd : Fits(m, fd[m]),
           NEW d, NEW e, Fits(3, d), Fits(4, e)
    PROVE  LET two == Put(Put(fd, 3, d), 4, e)
           IN  /\ DOMAIN two = {0, 1, 2, 3, 4} /\ two[1] = fd[1]
               /\ \A m \in DOMAIN two : Fits(m, two[m])
<1> DEFINE one == Put(fd, 3, d)
           two == Put(one, 4, e)
<1>1. DOMAIN one = {0, 1, 2, 3} /\ one[3] = d /\ \A m \in {0, 1, 2} : one[m] = fd[m]
  BY DEF Put
<1> HIDE DEF one
<1>2. DOMAIN two = {0, 1, 2, 3, 4} /\ two[4] = e /\ \A m \in {0, 1, 2, 3} : two[m] = one[m]
  BY <1>1 DEF Put
<1> HIDE DEF two
<1>3. \A m \in {0, 1, 2} : two[m] = fd[m]
  BY <1>1, <1>2
<1>4. \A m \in DOMAIN two : m \in {0, 1, 2} \/ m = 3 \/ m = 4
  BY <1>2
<1>5. \A m \in {0, 1, 2} : Fits(m, two[m])
  BY <1>3, Zenon
<1>6. Fits(3, two[3]) /\ Fits(4, two[4])
  <2>1. two[3] = d
    BY <1>1, <1>2
  <2> QED BY <1>2, <2>1, Zenon
<1>7. \A m \in DOMAIN two : Fits(m, two[m])
  BY <1>4, <1>5, <1>6, Zenon
<1> QED
  BY <1>2, <1>3, <1>7 DEF one, two

LEMMA WithoutFits ==
    ASSUME NEW fd, NEW n, \A m \in DOMAIN fd : Fits(m, fd[m])
    PROVE  /\ DOMAIN Without(fd, n) = DOMAIN fd \ {n}
           /\ \A m \in DOMAIN fd : m # n => Without(fd, n)[m] = fd[m]
           /\ \A m \in DOMAIN Without(fd, n) : Fits(m, Without(fd, n)[m])
  BY DEF Without

---------------------------------------------------------------------------
(* Steps of one process *)

\* A live child changes its own record and stays as its label demands.
LEMMA ChildStep ==
    ASSUME IInv, NEW p \in Child, Live(p), NEW r, DOMAIN r = Fields,
           proc' = [proc EXCEPT ![p] = r],
           r.st = "live", r.parent = proc[p].parent,
           Disciplined(r),
           OnTerminal(r.pc, r.fd) => OnTerminal(proc[p].pc, proc[p].fd)
    PROVE  IInv'
<1>1. p \in Pid /\ p # main /\ main \in Pid
  BY Pids
<1>2. proc'[p] = r /\ \A q \in Pid : q # p => proc'[q] = proc[q]
  BY <1>1, Zenon DEF IInv, Table
<1>3. Table'
  BY <1>1, <1>2, Zenon DEF IInv, Table
<1>4. \A q \in Pid : proc'[q].parent = proc[q].parent
  BY <1>2, Zenon
<1>5. \A q \in Child : q \in Pid
  BY Pids
<1>6. MainHoldsStdio'
  BY <1>1, <1>2, Zenon DEF IInv, MainHoldsStdio, Live
<1>7. ChildrenDisciplined'
  BY <1>2, <1>5, Zenon DEF IInv, ChildrenDisciplined, Live
<1>8. LastStageOnTerminal'
  BY <1>2, <1>4, <1>5, Zenon DEF IInv, LastStageOnTerminal, Live
<1>9. OneChildOfMain'
  BY <1>4, <1>5, Zenon DEF IInv, OneChildOfMain
<1>10. MainWaitsForIt'
  <2>1. proc'[main] = proc[main]
    BY <1>1, <1>2, Zenon
  <2> QED BY <1>4, <1>5, <2>1, Zenon DEF IInv, MainWaitsForIt, At, Live
<1> QED
  BY <1>3, <1>6, <1>7, <1>8, <1>9, <1>10 DEF IInv

\* Main goes on, and at a label other than "wait" nothing is its child.
LEMMA MainGoesOn ==
    ASSUME IInv, Live(main), NEW r, DOMAIN r = Fields,
           proc' = [proc EXCEPT ![main] = r],
           r.st = "live", r.fd = proc[main].fd, r.pc \in {"getcmd", "fork", "wait"},
           r.pc = "wait" \/ \A q \in Child : proc[q].parent # main
    PROVE  IInv'
<1>1. main \in Pid
  BY Pids
<1>2. proc'[main] = r /\ \A q \in Pid : q # main => proc'[q] = proc[q]
  BY <1>1, Zenon DEF IInv, Table
<1>3. Table'
  BY <1>1, <1>2, Zenon DEF IInv, Table
<1>4. \A q \in Child : proc'[q] = proc[q]
  BY <1>2, Pids
<1>6. MainHoldsStdio'
  BY <1>1, <1>2, Zenon DEF IInv, MainHoldsStdio, Live
<1>7. ChildrenDisciplined' /\ LastStageOnTerminal' /\ OneChildOfMain'
  BY <1>4, ZenonT(30) DEF IInv, ChildrenDisciplined, LastStageOnTerminal, OneChildOfMain, Live
<1>8. MainWaitsForIt'
  BY <1>2, <1>4, Zenon DEF MainWaitsForIt, At, Live
<1> QED
  BY <1>3, <1>6, <1>7, <1>8 DEF IInv

\* exit: the others keep what they hold, and lose at most their parent.
LEMMA ExitStep ==
    ASSUME IInv, NEW p \in Pid, proc' = ExitTable(p),
           p = main => \A q \in Child : proc[q].parent # main
    PROVE  IInv'
<1>0. Unused.st = "unused" /\ Unused.parent = init /\ DOMAIN Unused = Fields
  BY DEF Unused, Fields
<1>1. /\ DOMAIN Zombie(proc[p].parent) = Fields
      /\ Zombie(proc[p].parent).st = "zombie"
      /\ Zombie(proc[p].parent).parent = proc[p].parent
  BY <1>0, Zenon DEF Zombie, Fields
<1>2. \A q \in Pid : LET e == [proc[q] EXCEPT !.parent = init]
                     IN  /\ DOMAIN e = Fields /\ e.st = proc[q].st /\ e.parent = init
                         /\ e.pc = proc[q].pc /\ e.fd = proc[q].fd /\ e.cmd = proc[q].cmd
                         /\ e.pfd = proc[q].pfd
  BY Zenon DEF IInv, Table, Fields
<1>3. main \in Pid /\ init # main /\ Child \subseteq Pid
  BY Pids
<1>4. proc'[p] \in {Unused, Zombie(proc[p].parent)}
  BY Zenon DEF ExitTable
<1>5. \A q \in Pid : q # p => proc'[q] \in {proc[q], Unused, [proc[q] EXCEPT !.parent = init]}
  BY Zenon DEF ExitTable
<1>6. \A q \in Pid : q # p /\ proc[q].parent # p => proc'[q] = proc[q]
  BY Zenon DEF ExitTable
<1>7. Table'
  <2>1. \A q \in Pid : DOMAIN proc'[q] = Fields
    BY <1>0, <1>1, <1>2, <1>4, <1>5, Zenon DEF IInv, Table
  <2>2. proc' = [q \in Pid |-> proc'[q]]
    BY Zenon DEF ExitTable
  <2> QED BY <2>1, <2>2 DEF Table
<1>8. \A q \in Pid : Live(q)' =>
        /\ Live(q) /\ q # p
        /\ proc'[q].pc = proc[q].pc /\ proc'[q].fd = proc[q].fd
        /\ proc'[q].cmd = proc[q].cmd /\ proc'[q].pfd = proc[q].pfd
  <2> SUFFICES ASSUME NEW q \in Pid, Live(q)'
               PROVE  /\ Live(q) /\ q # p
                      /\ proc'[q].pc = proc[q].pc /\ proc'[q].fd = proc[q].fd
                      /\ proc'[q].cmd = proc[q].cmd /\ proc'[q].pfd = proc[q].pfd
    OBVIOUS
  <2>1. proc'[q] # Unused /\ proc'[q] # Zombie(proc[p].parent)
    BY <1>0, <1>1, Zenon DEF Live
  <2>2. q # p
    BY <2>1, <1>4, Zenon
  <2>3. proc'[q] = proc[q] \/ proc'[q] = [proc[q] EXCEPT !.parent = init]
    BY <2>1, <2>2, <1>5, Zenon
  <2> QED BY <2>2, <2>3, <1>2, Zenon DEF Live
<1>9. \A q \in Pid : proc'[q].parent = main => proc[q].parent = main
  <2> SUFFICES ASSUME NEW q \in Pid, proc'[q].parent = main
               PROVE  proc[q].parent = main
    OBVIOUS
  <2>1. CASE q = p
    BY <2>1, <1>0, <1>1, <1>3, <1>4, Zenon
  <2>2. CASE q # p
    BY <2>2, <1>0, <1>2, <1>3, <1>5, Zenon
  <2> QED BY <2>1, <2>2
<1>10. MainHoldsStdio'
  BY <1>3, <1>8, Zenon DEF IInv, MainHoldsStdio
<1>11. ChildrenDisciplined'
  BY <1>3, <1>8, Zenon DEF IInv, ChildrenDisciplined, Disciplined
<1>12. LastStageOnTerminal'
  <2> SUFFICES ASSUME NEW q \in Child, Live(q)', OnTerminal(proc'[q].pc, proc'[q].fd)
               PROVE  proc'[q].parent = main
    BY DEF LastStageOnTerminal
  <2>1. Live(q) /\ q # p /\ OnTerminal(proc[q].pc, proc[q].fd)
    BY <1>3, <1>8, Zenon
  <2>2. proc[q].parent = main
    BY <2>1 DEF IInv, LastStageOnTerminal
  <2>3. p # main
    BY <2>2
  <2> QED BY <1>3, <1>6, <2>1, <2>2, <2>3
<1>13. OneChildOfMain'
  BY <1>3, <1>9, Zenon DEF IInv, OneChildOfMain
<1>14. MainWaitsForIt'
  <2> SUFFICES ASSUME NEW q \in Child, proc'[q].parent = main
               PROVE  At(main, "wait")'
    BY DEF MainWaitsForIt
  <2>1. proc[q].parent = main /\ At(main, "wait")
    BY <1>3, <1>9 DEF IInv, MainWaitsForIt
  <2>2. p # main
    BY <2>1
  <2>3. proc'[main] = proc[main] \/ proc'[main] = [proc[main] EXCEPT !.parent = init]
    <3>1. CASE proc[main].parent # p
      BY <3>1, <2>2, <1>3, <1>6
    <3>2. CASE proc[main].parent = p
      BY <3>2, <2>1, <2>2, <1>3, Zenon DEF ExitTable, At
    <3> QED BY <3>1, <3>2
  <2> QED BY <2>1, <2>3, <1>2, <1>3, Zenon DEF At, Live
<1> QED
  BY <1>7, <1>10, <1>11, <1>12, <1>13, <1>14 DEF IInv

---------------------------------------------------------------------------
(* fork1 *)

\* The new process is a copy, at a label where it may hold what it was given.
LEMMA ForkStep ==
    ASSUME IInv, NEW p \in Pid, Live(p), NEW c \in Child, proc[c] = Unused,
           NEW parentLabel, NEW childLabel,
           proc' = [proc EXCEPT
                ![p].pc = parentLabel,
                ![c] = [proc[p] EXCEPT !.parent = p, !.pc = childLabel]],
           HoldsAt(childLabel, proc[p].cmd, proc[p].fd, proc[p].pfd),
           \/ p = main /\ parentLabel = "wait" /\ \A q \in Child : proc[q].parent # main
           \/ /\ p # main
              /\ HoldsAt(parentLabel, proc[p].cmd, proc[p].fd, proc[p].pfd)
              /\ OnTerminal(parentLabel, proc[p].fd) => OnTerminal(proc[p].pc, proc[p].fd)
              /\ ~OnTerminal(childLabel, proc[p].fd)
    PROVE  IInv'
<1>1. /\ c \in Pid /\ p # c /\ main \in Pid /\ c # main /\ Child \subseteq Pid
      /\ \A q \in Pid : q = main \/ q \in Child
  BY Pids DEF Live, Unused
<1>2. /\ DOMAIN proc'[p] = Fields /\ proc'[p].st = proc[p].st /\ proc'[p].pc = parentLabel
      /\ proc'[p].parent = proc[p].parent /\ proc'[p].cmd = proc[p].cmd
      /\ proc'[p].fd = proc[p].fd /\ proc'[p].pfd = proc[p].pfd
  BY <1>1, Zenon DEF IInv, Table, Fields
<1>3. /\ DOMAIN proc'[c] = Fields /\ proc'[c].st = proc[p].st /\ proc'[c].pc = childLabel
      /\ proc'[c].parent = p /\ proc'[c].cmd = proc[p].cmd
      /\ proc'[c].fd = proc[p].fd /\ proc'[c].pfd = proc[p].pfd
  BY <1>1, Zenon DEF IInv, Table, Fields
<1>4. \A q \in Pid : q # p /\ q # c => proc'[q] = proc[q]
  BY <1>1, Zenon DEF IInv, Table
<1>5. Table'
  <2>1. proc' = [q \in Pid |-> proc'[q]]
    BY Zenon DEF IInv, Table
  <2>2. \A q \in Pid : DOMAIN proc'[q] = Fields
    BY <1>2, <1>3, <1>4, Zenon DEF IInv, Table
  <2> QED BY <2>1, <2>2 DEF Table
<1>6. MainHoldsStdio'
  <2>1. CASE p = main
    BY <2>1, <1>2, Zenon DEF IInv, MainHoldsStdio, Live
  <2>2. CASE p # main
    BY <2>2, <1>1, <1>4, Zenon DEF IInv, MainHoldsStdio, Live
  <2> QED BY <2>1, <2>2
<1>7. ChildrenDisciplined'
  <2> SUFFICES ASSUME NEW q \in Child, Live(q)'
               PROVE  Disciplined(proc'[q])
    BY DEF ChildrenDisciplined
  <2>1. CASE q = c
    BY <2>1, <1>3, Zenon DEF Disciplined
  <2>2. CASE q = p
    BY <2>2, <1>2, Pids, Zenon DEF Disciplined
  <2>3. CASE q # c /\ q # p
    BY <2>3, <1>1, <1>4, Zenon DEF IInv, ChildrenDisciplined, Live
  <2> QED BY <2>1, <2>2, <2>3
<1>8. LastStageOnTerminal'
  <2> SUFFICES ASSUME NEW q \in Child, Live(q)', OnTerminal(proc'[q].pc, proc'[q].fd)
               PROVE  proc'[q].parent = main
    BY DEF LastStageOnTerminal
  <2>1. CASE q = c
    BY <2>1, <1>3, Zenon
  <2>2. CASE q = p
    BY <2>2, <1>2, Pids, Zenon DEF IInv, LastStageOnTerminal
  <2>3. CASE q # c /\ q # p
    BY <2>3, <1>1, <1>4, Zenon DEF IInv, LastStageOnTerminal, Live
  <2> QED BY <2>1, <2>2, <2>3
<1>9. \A q \in Child : q # c => proc'[q].parent = proc[q].parent
  BY <1>1, <1>2, <1>4, Zenon
<1>10. OneChildOfMain' /\ MainWaitsForIt'
  <2>1. CASE p = main
    <3>1. \A q \in Child : proc'[q].parent = main => q = c
      BY <2>1, <1>9
    <3>2. At(main, "wait")'
      BY <2>1, <1>2 DEF At, Live
    <3> QED BY <3>1, <3>2 DEF OneChildOfMain, MainWaitsForIt
  <2>2. CASE p # main
    <3>1. \A q \in Child : proc'[q].parent = main => proc[q].parent = main
      BY <2>2, <1>3, <1>9
    <3>2. proc'[main] = proc[main]
      BY <2>2, <1>1, <1>4
    <3>3. OneChildOfMain'
      BY <3>1, Zenon DEF IInv, OneChildOfMain
    <3>4. MainWaitsForIt'
      BY <3>1, <3>2, Zenon DEF IInv, MainWaitsForIt, At, Live
    <3> QED BY <3>3, <3>4
  <2> QED BY <2>1, <2>2
<1> QED
  BY <1>5, <1>6, <1>7, <1>8, <1>10 DEF IInv

---------------------------------------------------------------------------
(* main *)

LEMMA NoChildAtPrompt ==
    ASSUME IInv, At(main, "getcmd") \/ At(main, "fork")
    PROVE  \A q \in Child : proc[q].parent # main
  BY DEF IInv, MainWaitsForIt, At

LEMMA MainEnds == ASSUME IInv, EndOfInput PROVE IInv'
  BY NoChildAtPrompt, ExitStep, Pids DEF EndOfInput, Exit

LEMMA SameProcesses == ASSUME IInv, UNCHANGED proc PROVE IInv'
  BY Zenon DEF IInv, Table, MainHoldsStdio, ChildrenDisciplined, Disciplined,
             LastStageOnTerminal, OneChildOfMain, MainWaitsForIt, At, Live

LEMMA MainReads == ASSUME IInv, Cd \/ ReadLine PROVE IInv'
<1>1. main \in Pid
  BY Pids
<1>2. CASE Cd /\ proc' # proc
  <2> DEFINE r == [proc[main] EXCEPT !.cwd = Head(lines).dir]
  <2>1. At(main, "getcmd") /\ proc' = [proc EXCEPT ![main] = r]
    BY <1>1, <1>2, Zenon DEF Cd, IInv, Table
  <2>2. /\ DOMAIN r = Fields /\ r.st = proc[main].st
        /\ r.fd = proc[main].fd /\ r.pc = proc[main].pc
    BY <1>1, Zenon DEF IInv, Table, Fields
  <2> HIDE DEF r
  <2> QED BY <2>1, <2>2, NoChildAtPrompt, MainGoesOn DEF At, Live
<1>3. CASE ReadLine
  <2> DEFINE r == [proc[main] EXCEPT !.pc = "fork", !.cmd = Head(lines)]
  <2>1. At(main, "getcmd") /\ proc' = [proc EXCEPT ![main] = r]
    BY <1>1, <1>3, Zenon DEF ReadLine, IInv, Table
  <2>2. DOMAIN r = Fields /\ r.st = proc[main].st /\ r.fd = proc[main].fd /\ r.pc = "fork"
    BY <1>1, Zenon DEF IInv, Table, Fields
  <2> HIDE DEF r
  <2> QED BY <2>1, <2>2, NoChildAtPrompt, MainGoesOn DEF At, Live
<1> QED
  BY <1>2, <1>3, SameProcesses DEF Cd

LEMMA MainForks == ASSUME IInv, ForkCommand PROVE IInv'
<1>1. main \in Pid /\ At(main, "fork") /\ Live(main)
  BY Pids DEF ForkCommand, At
<1>2. \A q \in Child : proc[q].parent # main
  BY <1>1, NoChildAtPrompt
<1>3. CASE ForkSucceeds(main, "wait", "runcmd")
  <2>1. HoldsAt("runcmd", proc[main].cmd, proc[main].fd, proc[main].pfd)
    <3>1. proc[main].fd = [n \in 0 .. 2 |-> tty]
      BY <1>1 DEF IInv, MainHoldsStdio
    <3>2. tty.kind = "tty" /\ 0 .. 2 = {0, 1, 2}
      BY DEF tty
    <3> QED BY <3>1, <3>2 DEF HoldsAt, ChildLabels, Fits
  <2> QED BY <1>1, <1>2, <1>3, <2>1, ForkStep DEF ForkSucceeds
<1>4. CASE ForkFails(main, "wait")
  <2> DEFINE r == [proc[main] EXCEPT !.pc = "wait"]
  <2>1. proc' = [proc EXCEPT ![main] = r]
    BY <1>1, <1>4, Zenon DEF ForkFails, IInv, Table
  <2>2. DOMAIN r = Fields /\ r.st = proc[main].st /\ r.fd = proc[main].fd /\ r.pc = "wait"
    BY <1>1, Zenon DEF IInv, Table, Fields
  <2> HIDE DEF r
  <2> QED BY <1>1, <2>1, <2>2, MainGoesOn DEF Live
<1> QED
  BY <1>3, <1>4 DEF ForkCommand, Fork1

LEMMA MainWaits == ASSUME IInv, Wait PROVE IInv'
<1> DEFINE r == [proc[main] EXCEPT !.pc = "getcmd", !.cmd = <<>>]
<1>1. main \in Pid /\ main \notin Child /\ init # main /\ Child \subseteq Pid /\ Live(main)
  BY Pids DEF Wait, At
<1>2. DOMAIN r = Fields /\ r.st = proc[main].st /\ r.fd = proc[main].fd /\ r.pc = "getcmd"
  BY <1>1, Zenon DEF IInv, Table, Fields
<1>3. CASE \A c \in Child : proc[c].parent # main
  <2>1. proc' = [proc EXCEPT ![main] = r]
    <3>1. \A c \in Child : proc[c] # Zombie(main)
      <4>1. Zombie(main).parent = main
        BY Zenon DEF Zombie, Unused
      <4> QED BY <1>3, <4>1
    <3>2. proc' = [proc EXCEPT ![main].pc = "getcmd", ![main].cmd = <<>>]
      BY <3>1, Zenon DEF Wait
    <3> QED BY <3>2, <1>1, Zenon DEF IInv, Table
  <2> HIDE DEF r
  <2> QED BY <1>1, <1>2, <1>3, <2>1, MainGoesOn DEF Live
<1>4. CASE ~ \A c \in Child : proc[c].parent # main
  <2>1. PICK c \in Child : /\ proc[c] = Zombie(main)
                           /\ proc' = [proc EXCEPT ![c] = Unused, ![main].pc = "getcmd",
                                                   ![main].cmd = <<>>]
    BY <1>4, Zenon DEF Wait
  <2>2. proc[c].parent = main /\ Unused.parent = init /\ Unused.st = "unused"
        /\ DOMAIN Unused = Fields
    <3>1. Zombie(main).parent = main
      BY Zenon DEF Zombie, Unused
    <3> QED BY <2>1, <3>1, Zenon DEF Unused, Fields
  <2>3. c # main /\ c \in Pid
    BY <1>1
  <2>4. proc'[main] = r /\ proc'[c] = Unused
        /\ \A q \in Pid : q # main /\ q # c => proc'[q] = proc[q]
    BY <1>1, <2>1, <2>3, Zenon DEF IInv, Table
  <2> HIDE DEF r
  <2>5. \A q \in Child : proc'[q].parent # main
    BY <1>1, <2>2, <2>4 DEF IInv, OneChildOfMain
  <2>6. Table'
    <3>1. proc' = [q \in Pid |-> proc'[q]]
      BY <2>1, Zenon DEF IInv, Table
    <3>2. \A q \in Pid : DOMAIN proc'[q] = Fields
      BY <1>2, <2>2, <2>4, Zenon DEF IInv, Table
    <3> QED BY <3>1, <3>2 DEF Table
  <2>7. MainHoldsStdio'
    BY <1>1, <1>2, <2>4, Zenon DEF IInv, MainHoldsStdio, Live
  <2>8. \A q \in Child : Live(q)' => proc'[q] = proc[q] /\ Live(q)
    BY <1>1, <2>2, <2>4, Zenon DEF Live
  <2>9. ChildrenDisciplined'
    BY <2>8, Zenon DEF IInv, ChildrenDisciplined
  <2>10. LastStageOnTerminal'
    BY <2>8, Zenon DEF IInv, LastStageOnTerminal
  <2>11. OneChildOfMain' /\ MainWaitsForIt'
    BY <2>5, Zenon DEF OneChildOfMain, MainWaitsForIt
  <2> QED BY <2>6, <2>7, <2>9, <2>10, <2>11 DEF IInv
<1> QED
  BY <1>3, <1>4

---------------------------------------------------------------------------
(* runcmd *)

LEMMA GotoStep ==
    ASSUME IInv, NEW p \in Child, Live(p), NEW label, NEW changed,
           DOMAIN changed = Fields, changed.st = proc[p].st, changed.parent = proc[p].parent,
           Goto(p, label, changed),
           HoldsAt(label, changed.cmd, changed.fd, changed.pfd),
           OnTerminal(label, changed.fd) => OnTerminal(proc[p].pc, proc[p].fd)
    PROVE  IInv'
<1> DEFINE r == [changed EXCEPT !.pc = label]
<1>1. /\ DOMAIN r = Fields /\ r.st = changed.st /\ r.parent = changed.parent
      /\ r.pc = label /\ r.cmd = changed.cmd /\ r.fd = changed.fd /\ r.pfd = changed.pfd
  BY Zenon DEF Fields
<1>2. proc' = [proc EXCEPT ![p] = r]
  BY Zenon DEF Goto
<1> HIDE DEF r
<1>3. Disciplined(r)
  BY <1>1, Zenon DEF Disciplined
<1> QED
  BY <1>1, <1>2, <1>3, ChildStep DEF Live

\* What is known of a child where it is.
LEMMA ChildAt ==
    ASSUME IInv, NEW p \in Child, NEW label, At(p, label)
    PROVE  /\ Live(p) /\ p \in Pid /\ p # main /\ DOMAIN proc[p] = Fields
           /\ proc[p].pc = label
           /\ HoldsAt(label, proc[p].cmd, proc[p].fd, proc[p].pfd)
  BY Pids DEF IInv, Table, ChildrenDisciplined, Disciplined, At

\* A process that keeps its standard output, or has none on the terminal.
LEMMA KeepsOutput ==
    ASSUME NEW label, NEW newpc, NEW fd, NEW newfd, label \notin {"left", "left dup2"},
           1 \in DOMAIN newfd /\ newfd[1].kind = "tty" => 1 \in DOMAIN fd /\ newfd[1] = fd[1]
    PROVE  OnTerminal(newpc, newfd) => OnTerminal(label, fd)
  BY Zenon DEF OnTerminal

LEMMA ChildExits ==
    ASSUME IInv, NEW p \in Child, Exit(p) \/ \E m : ExitSaying(p, m)
    PROVE  IInv'
  BY ExitStep, Pids DEF Exit, ExitSaying

LEMMA ChildExecs == ASSUME IInv, NEW p \in Child, Exec(p) PROVE IInv'
<1> DEFINE prog == Program[proc[p].cmd.argv0]
           changed == [proc[p] EXCEPT !.prog = prog, !.cmd = <<>>]
<1>1. At(p, "runcmd") /\ Goto(p, "program", changed)
  BY DEF Exec, Runs
<1>2. /\ DOMAIN changed = Fields /\ changed.st = proc[p].st
      /\ changed.parent = proc[p].parent /\ changed.fd = proc[p].fd
      /\ changed.pfd = proc[p].pfd /\ changed.cmd = <<>>
  BY <1>1, ChildAt, Zenon DEF Fields
<1> HIDE DEF changed
<1>3. HoldsAt("program", changed.cmd, changed.fd, changed.pfd)
  BY <1>1, <1>2, ChildAt, ZenonT(30) DEF HoldsAt, ChildLabels
<1>4. OnTerminal("program", changed.fd) => OnTerminal(proc[p].pc, proc[p].fd)
  <2>1. proc[p].pc \notin {"left", "left dup2"}
    BY <1>1 DEF At
  <2> QED BY <1>2, <2>1, KeepsOutput, Zenon
<1> QED
  BY <1>1, <1>2, <1>3, <1>4, ChildAt, GotoStep

\* Only the descriptors of a child change.
LEMMA FdStep ==
    ASSUME IInv, NEW p \in Child, NEW label, At(p, label), NEW next, NEW fd,
           Goto(p, next, [proc[p] EXCEPT !.fd = fd]),
           HoldsAt(next, proc[p].cmd, fd, proc[p].pfd),
           OnTerminal(next, fd) => OnTerminal(label, proc[p].fd)
    PROVE  IInv'
<1> DEFINE changed == [proc[p] EXCEPT !.fd = fd]
<1>1. Live(p) /\ DOMAIN proc[p] = Fields /\ proc[p].pc = label
  BY Pids DEF At, IInv, Table
<1>2. /\ DOMAIN changed = Fields /\ changed.st = proc[p].st
      /\ changed.parent = proc[p].parent /\ changed.fd = fd
      /\ changed.pfd = proc[p].pfd /\ changed.cmd = proc[p].cmd
  BY <1>1, Zenon DEF Fields
<1>3. Goto(p, next, changed)
  OBVIOUS
<1> HIDE DEF changed
<1>4. HoldsAt(next, changed.cmd, changed.fd, changed.pfd)
  BY <1>2, Zenon
<1>5. OnTerminal(next, changed.fd) => OnTerminal(proc[p].pc, proc[p].fd)
  BY <1>1, <1>2, Zenon
<1> QED
  BY <1>1, <1>2, <1>3, <1>4, <1>5, GotoStep, Zenon

\* What a child holds after it has closed n.
LEMMA AfterClose ==
    ASSUME IInv, NEW p \in Child, NEW label, At(p, label), NEW n
    PROVE  /\ DOMAIN Without(proc[p].fd, n) = DOMAIN proc[p].fd \ {n}
           /\ \A m \in DOMAIN proc[p].fd : m # n => Without(proc[p].fd, n)[m] = proc[p].fd[m]
           /\ \A m \in DOMAIN Without(proc[p].fd, n) : Fits(m, Without(proc[p].fd, n)[m])
<1>1. \A m \in DOMAIN proc[p].fd : Fits(m, proc[p].fd[m])
  BY ChildAt, Zenon DEF HoldsAt
<1> QED
  BY <1>1, WithoutFits, Zenon

\* A close leaves the standard output as it was, or closes it.
LEMMA CloseKeepsOutput ==
    ASSUME IInv, NEW p \in Child, NEW label, At(p, label), label \notin {"left", "left dup2"},
           NEW n, NEW next
    PROVE  OnTerminal(next, Without(proc[p].fd, n)) => OnTerminal(label, proc[p].fd)
<1>1. 1 \in DOMAIN Without(proc[p].fd, n) =>
        1 \in DOMAIN proc[p].fd /\ Without(proc[p].fd, n)[1] = proc[p].fd[1]
  <2>1. /\ DOMAIN Without(proc[p].fd, n) = DOMAIN proc[p].fd \ {n}
        /\ \A m \in DOMAIN proc[p].fd : m # n => Without(proc[p].fd, n)[m] = proc[p].fd[m]
    BY AfterClose, Zenon
  <2> QED BY <2>1, Zenon
<1> QED
  BY <1>1, KeepsOutput, Zenon

LEMMA ChildCloses == ASSUME IInv, NEW p \in Child, RedirClose(p) PROVE IInv'
<1> DEFINE n == RedirFd(proc[p].cmd.type)
           fd == Without(proc[p].fd, n)
<1>1. At(p, "runcmd") /\ proc[p].cmd.type \in {"<", ">"}
      /\ Goto(p, "open", [proc[p] EXCEPT !.fd = fd])
  BY DEF RedirClose, Runs
<1>2. DOMAIN proc[p].fd = {0, 1, 2}
  BY <1>1, ChildAt, Zenon DEF HoldsAt
<1>3. \/ proc[p].cmd.type = "<" /\ n = 0
      \/ proc[p].cmd.type = ">" /\ n = 1
  BY <1>1 DEF RedirFd
<1>4. DOMAIN fd = DOMAIN proc[p].fd \ {n} /\ \A m \in DOMAIN fd : Fits(m, fd[m])
  BY <1>1, AfterClose, Zenon
<1>5. OnTerminal("open", fd) => OnTerminal("runcmd", proc[p].fd)
  BY <1>1, CloseKeepsOutput
<1> HIDE DEF n, fd
<1>6. HoldsAt("open", proc[p].cmd, fd, proc[p].pfd)
  BY <1>2, <1>3, <1>4 DEF HoldsAt, ChildLabels
<1> QED
  BY <1>1, <1>5, <1>6, FdStep, Zenon

LEMMA ChildOpens == ASSUME IInv, NEW p \in Child, RedirOpen(p) PROVE IInv'
<1> DEFINE lowest == LowestFree(FdsOf(p))
           handle(mode) == Opened(mode, RedirKey(p), 0)
           opened(mode) == [proc[p] EXCEPT !.fd = Put(@, lowest, handle(mode)), !.cmd = @.cmd]
<1>1. At(p, "open")
  BY DEF RedirOpen
<1>2. PICK mode \in {"in", "out"} :
        /\ mode = "in" => proc[p].cmd.type = "<"
        /\ mode = "out" => proc[p].cmd.type = ">"
        /\ proc' = [proc EXCEPT ![p] = [opened(mode) EXCEPT !.pc = "runcmd"]]
  <2>1. CASE proc[p].cmd.type = "<" /\ Goto(p, "runcmd", opened("in"))
    BY <2>1 DEF Goto
  <2>2. CASE proc[p].cmd.type = ">" /\ proc' = [proc EXCEPT ![p] =
                                            [opened("out") EXCEPT !.pc = "runcmd"]]
    BY <2>2
  <2> QED BY <2>1, <2>2, Zenon DEF RedirOpen
<1>3. handle(mode).kind = mode
  BY Zenon DEF Opened
<1> HIDE DEF handle
<1> DEFINE d == handle(mode)
           r == [opened(mode) EXCEPT !.pc = "runcmd"]
<1>4. /\ DOMAIN r = Fields /\ r.st = proc[p].st /\ r.parent = proc[p].parent
      /\ r.fd = Put(proc[p].fd, lowest, d) /\ r.pfd = proc[p].pfd /\ r.pc = "runcmd"
  BY <1>1, ChildAt, Zenon DEF Fields
<1> HIDE DEF r
<1>5. \A m \in DOMAIN proc[p].fd : Fits(m, proc[p].fd[m])
  BY <1>1, ChildAt DEF HoldsAt
<1>6. \/ mode = "in" /\ DOMAIN proc[p].fd = {1, 2} /\ lowest = 0
      \/ mode = "out" /\ DOMAIN proc[p].fd = {0, 2} /\ lowest = 1
  BY <1>1, <1>2, ChildAt, LowestAtEachCall DEF HoldsAt, FdsOf
<1>7. Fits(lowest, d)
  BY <1>3, <1>6 DEF Fits
<1> HIDE DEF d, lowest
<1>8. /\ DOMAIN Put(proc[p].fd, lowest, d) = DOMAIN proc[p].fd \cup {lowest}
      /\ Put(proc[p].fd, lowest, d)[lowest] = d
      /\ \A m \in DOMAIN proc[p].fd : m # lowest =>
            Put(proc[p].fd, lowest, d)[m] = proc[p].fd[m]
      /\ \A m \in DOMAIN Put(proc[p].fd, lowest, d) : Fits(m, Put(proc[p].fd, lowest, d)[m])
  BY <1>5, <1>7, PutFits, Zenon
<1>9. DOMAIN r.fd = {0, 1, 2}
  BY <1>4, <1>6, <1>8
<1>10. HoldsAt("runcmd", r.cmd, r.fd, r.pfd)
  BY <1>4, <1>8, <1>9 DEF HoldsAt, ChildLabels
<1>11. OnTerminal("runcmd", r.fd) => OnTerminal(proc[p].pc, proc[p].fd)
  <2>1. CASE mode = "in"
    <3>1. proc[p].pc \notin {"left", "left dup2"}
      BY <1>1 DEF At
    <3>2. 1 \in DOMAIN proc[p].fd /\ r.fd[1] = proc[p].fd[1]
      BY <2>1, <1>4, <1>6, <1>8
    <3> QED BY <3>1, <3>2, Zenon DEF OnTerminal
  <2>2. CASE mode = "out"
    BY <2>2, <1>3, <1>4, <1>6, <1>8 DEF OnTerminal, d
  <2> QED BY <2>1, <2>2
<1>12. proc' = [proc EXCEPT ![p] = r]
  BY <1>2, Zenon DEF r
<1> QED
  BY <1>1, <1>4, <1>10, <1>11, <1>12, ChildAt, ChildStep DEF Disciplined, Live

LEMMA ChildPipes == ASSUME IInv, NEW p \in Child, Pipe(p) PROVE IInv'
<1> DEFINE a == LowestFree(FdsOf(p))
           b == LowestFree(FdsOf(p) \cup {a})
<1>1. At(p, "runcmd")
  BY DEF Pipe, Runs
<1>2. PICK i \in PipeId : proc' = [proc EXCEPT
                    ![p].fd = Put(Put(@, a, ReadEnd(i)), b, WriteEnd(i)),
                    ![p].pfd = <<a, b>>,
                    ![p].pc = "fork"]
  BY Zenon DEF Pipe
<1>3. p \in Pid /\ Live(p) /\ DOMAIN proc[p] = Fields
  BY <1>1, ChildAt, Zenon
<1>4. DOMAIN proc[p].fd = {0, 1, 2} /\ \A m \in DOMAIN proc[p].fd : Fits(m, proc[p].fd[m])
  BY <1>1, ChildAt, Zenon DEF HoldsAt
<1>5. a = 3
  BY <1>4, LowestAtEachCall DEF FdsOf
<1>6. b = 4
  BY <1>4, <1>5, LowestAtEachCall DEF FdsOf
<1> DEFINE two == Put(Put(proc[p].fd, 3, ReadEnd(i)), 4, WriteEnd(i))
           r == [proc[p] EXCEPT !.fd = two, !.pfd = <<3, 4>>, !.pc = "fork"]
<1>7. proc' = [proc EXCEPT ![p] = r]
  BY <1>2, <1>3, <1>5, <1>6, Zenon DEF IInv, Table
<1>8. /\ DOMAIN r = Fields /\ r.st = proc[p].st /\ r.parent = proc[p].parent
      /\ r.fd = two /\ r.pfd = <<3, 4>> /\ r.pc = "fork" /\ r.cmd = proc[p].cmd
  BY <1>3, Zenon DEF Fields
<1> HIDE DEF r
<1>9. Fits(3, ReadEnd(i)) /\ Fits(4, WriteEnd(i))
  BY DEF Fits, ReadEnd, WriteEnd
<1>10. /\ DOMAIN two = {0, 1, 2, 3, 4} /\ two[1] = proc[p].fd[1]
       /\ \A m \in DOMAIN two : Fits(m, two[m])
  BY <1>4, <1>9, PutPair, Zenon
<1> HIDE DEF two
<1>12. HoldsAt("fork", proc[p].cmd, two, <<3, 4>>)
  BY <1>10 DEF HoldsAt, ChildLabels
<1>13. OnTerminal("fork", two) => OnTerminal("runcmd", proc[p].fd)
  <2>1. 1 \in DOMAIN proc[p].fd /\ "runcmd" \notin {"left", "left dup2"}
    BY <1>4
  <2> QED BY <1>10, <2>1, KeepsOutput, Zenon
<1>14. Disciplined(r) /\ (OnTerminal(r.pc, r.fd) => OnTerminal(proc[p].pc, proc[p].fd))
  BY <1>1, <1>8, <1>12, <1>13, Zenon DEF Disciplined, At
<1> QED
  BY <1>3, <1>7, <1>8, <1>14, ChildStep, Zenon DEF Live

\* The child of a pipe's fork has the left side, and a parent that is not main;
\* it leaves the terminal with its first dup2.
LEMMA ChildForks == ASSUME IInv, NEW p \in Child, PipeFork(p) PROVE IInv'
<1>1. At(p, "fork") /\ p # main /\ p \in Pid /\ Live(p)
  BY Pids DEF PipeFork, At
<1>2. HoldsAt("fork", proc[p].cmd, proc[p].fd, proc[p].pfd)
  BY <1>1, ChildAt, Zenon
<1>3. /\ HoldsAt("left", proc[p].cmd, proc[p].fd, proc[p].pfd)
      /\ HoldsAt("right", proc[p].cmd, proc[p].fd, proc[p].pfd)
  BY <1>2 DEF HoldsAt, ChildLabels
<1>4. ~OnTerminal("left", proc[p].fd)
  BY Zenon DEF OnTerminal
<1>5. OnTerminal("right", proc[p].fd) => OnTerminal(proc[p].pc, proc[p].fd)
  <2>1. proc[p].pc \notin {"left", "left dup2"}
    BY <1>1 DEF At
  <2> QED BY <2>1, KeepsOutput, Zenon
<1>6. CASE ForkSucceeds(p, "right", "left")
  <2>1. PICK c \in Child : /\ proc[c] = Unused
                           /\ proc' = [proc EXCEPT
                                ![p].pc = "right",
                                ![c] = [proc[p] EXCEPT !.parent = p, !.pc = "left"]]
    BY <1>6, Zenon DEF ForkSucceeds
  <2> QED BY <1>1, <1>3, <1>4, <1>5, <2>1, ForkStep, Zenon
<1>7. CASE ForkFails(p, "right")
  <2> DEFINE r == [proc[p] EXCEPT !.pc = "right"]
  <2>1. proc' = [proc EXCEPT ![p] = r]
    BY <1>1, <1>7, Zenon DEF ForkFails, IInv, Table
  <2>2. /\ DOMAIN r = Fields /\ r.st = proc[p].st /\ r.parent = proc[p].parent
        /\ r.fd = proc[p].fd /\ r.pfd = proc[p].pfd /\ r.pc = "right" /\ r.cmd = proc[p].cmd
    BY <1>1, Zenon DEF IInv, Table, Fields
  <2> HIDE DEF r
  <2>3. Disciplined(r) /\ (OnTerminal(r.pc, r.fd) => OnTerminal(proc[p].pc, proc[p].fd))
    BY <1>3, <1>5, <2>2, Zenon DEF Disciplined
  <2> QED BY <1>1, <2>1, <2>2, <2>3, ChildStep, Zenon DEF Live
<1> QED
  BY <1>6, <1>7 DEF PipeFork, Fork1

\* The last close of a side, after which it runs its command.
LEMMA CloseAndRunStep ==
    ASSUME IInv, NEW p \in Child, NEW label, At(p, label), label \notin {"left", "left dup2"},
           NEW n, NEW cmd, CloseAndRun(p, n, cmd), DOMAIN proc[p].fd \ {n} = {0, 1, 2}
    PROVE  IInv'
<1> DEFINE fd == Without(proc[p].fd, n)
           changed == [proc[p] EXCEPT !.fd = fd, !.cmd = cmd, !.pfd = <<0, 0>>]
<1>1. Live(p) /\ DOMAIN proc[p] = Fields /\ proc[p].pc = label
  BY Pids DEF At, IInv, Table
<1>2. Goto(p, "runcmd", changed)
  BY Zenon DEF CloseAndRun
<1>3. /\ DOMAIN changed = Fields /\ changed.st = proc[p].st /\ changed.cmd = cmd
      /\ changed.parent = proc[p].parent /\ changed.fd = fd /\ changed.pfd = <<0, 0>>
  BY <1>1, Zenon DEF Fields
<1>4. DOMAIN fd = DOMAIN proc[p].fd \ {n} /\ \A m \in DOMAIN fd : Fits(m, fd[m])
  BY AfterClose, Zenon
<1>5. OnTerminal("runcmd", fd) => OnTerminal(label, proc[p].fd)
  BY CloseKeepsOutput, Zenon
<1> HIDE DEF changed, fd
<1>6. HoldsAt("runcmd", cmd, fd, <<0, 0>>)
  BY <1>4 DEF HoldsAt, ChildLabels
<1>7. HoldsAt("runcmd", changed.cmd, changed.fd, changed.pfd)
  BY <1>3, <1>6, Zenon
<1>8. OnTerminal("runcmd", changed.fd) => OnTerminal(proc[p].pc, proc[p].fd)
  BY <1>1, <1>3, <1>5, Zenon
<1> QED
  BY <1>1, <1>2, <1>3, <1>7, <1>8, GotoStep, Zenon

LEMMA ChildOnTheLeft == ASSUME IInv, NEW p \in Child, LeftSide(p) PROVE IInv'
<1>1. CASE At(p, "left") /\ Close(p, proc[p].pfd[1], "left dup2")
  <2> DEFINE fd == Without(proc[p].fd, proc[p].pfd[1])
  <2>1. HoldsAt("left", proc[p].cmd, proc[p].fd, proc[p].pfd)
    BY <1>1, ChildAt, Zenon
  <2>2. proc[p].pfd[1] = 3 /\ proc[p].pfd[2] = 4 /\ DOMAIN proc[p].fd = {0, 1, 2, 3, 4}
    BY <2>1 DEF HoldsAt
  <2>3. DOMAIN fd = DOMAIN proc[p].fd \ {proc[p].pfd[1]}
        /\ \A m \in DOMAIN fd : Fits(m, fd[m])
    BY <1>1, AfterClose, Zenon
  <2>4. Goto(p, "left dup2", [proc[p] EXCEPT !.fd = fd])
    BY <1>1, Zenon DEF Close
  <2>5. ~OnTerminal("left dup2", fd)
    BY Zenon DEF OnTerminal
  <2> HIDE DEF fd
  <2>6. HoldsAt("left dup2", proc[p].cmd, fd, proc[p].pfd)
    BY <2>2, <2>3 DEF HoldsAt, ChildLabels
  <2> QED BY <1>1, <2>4, <2>5, <2>6, FdStep, Zenon
<1>2. CASE At(p, "left dup2") /\ Dup2(p, proc[p].pfd[2], 1, "left close")
  <2> DEFINE d == proc[p].fd[proc[p].pfd[2]]
             n == 1
             fd == Put(proc[p].fd, n, d)
  <2>1. HoldsAt("left dup2", proc[p].cmd, proc[p].fd, proc[p].pfd)
    BY <1>2, ChildAt, Zenon
  <2>2. proc[p].pfd[1] = 3 /\ proc[p].pfd[2] = 4 /\ DOMAIN proc[p].fd = {0, 1, 2, 4}
    BY <2>1 DEF HoldsAt
  <2>3. \A m \in DOMAIN proc[p].fd : Fits(m, proc[p].fd[m])
    BY <2>1, Zenon DEF HoldsAt
  <2>4. Goto(p, "left close", [proc[p] EXCEPT !.fd = fd])
    BY <1>2, Zenon DEF Dup2
  <2>5. d.kind = "w"
    <3>1. Fits(4, proc[p].fd[4])
      BY <2>2, <2>3
    <3> QED BY <2>2, <3>1 DEF Fits
  <2> HIDE DEF d
  <2>6. Fits(n, d)
    BY <2>5 DEF Fits
  <2> HIDE DEF n
  <2>7. /\ DOMAIN fd = DOMAIN proc[p].fd \cup {n}
        /\ fd[n] = d
        /\ \A m \in DOMAIN proc[p].fd : m # n => fd[m] = proc[p].fd[m]
        /\ \A m \in DOMAIN fd : Fits(m, fd[m])
    BY <2>3, <2>6, PutFits, Zenon
  <2> HIDE DEF fd
  <2> USE DEF n
  <2>8. HoldsAt("left close", proc[p].cmd, fd, proc[p].pfd)
    BY <2>2, <2>7 DEF HoldsAt, ChildLabels
  <2>9. ~OnTerminal("left close", fd)
    BY <2>5, <2>7 DEF OnTerminal
  <2> QED BY <1>2, <2>4, <2>8, <2>9, FdStep, Zenon
<1>3. CASE At(p, "left close") /\ CloseAndRun(p, proc[p].pfd[2], proc[p].cmd.left)
  <2>1. HoldsAt("left close", proc[p].cmd, proc[p].fd, proc[p].pfd)
    BY <1>3, ChildAt, Zenon
  <2>2. proc[p].pfd[2] = 4 /\ DOMAIN proc[p].fd = {0, 1, 2, 4}
    BY <2>1 DEF HoldsAt
  <2>3. DOMAIN proc[p].fd \ {proc[p].pfd[2]} = {0, 1, 2}
    BY <2>2
  <2>4. "left close" \notin {"left", "left dup2"}
    OBVIOUS
  <2> QED BY <1>3, <2>3, <2>4, CloseAndRunStep, Zenon
<1> QED
  BY <1>1, <1>2, <1>3 DEF LeftSide

LEMMA ChildOnTheRight == ASSUME IInv, NEW p \in Child, RightSide(p) PROVE IInv'
<1>1. CASE At(p, "right") /\ Close(p, proc[p].pfd[2], "right dup2")
  <2> DEFINE fd == Without(proc[p].fd, proc[p].pfd[2])
  <2>1. HoldsAt("right", proc[p].cmd, proc[p].fd, proc[p].pfd)
    BY <1>1, ChildAt, Zenon
  <2>2. /\ proc[p].pfd[1] = 3 /\ proc[p].pfd[2] = 4 /\ DOMAIN proc[p].fd = {0, 1, 2, 3, 4}
        /\ "right" \notin {"left", "left dup2"}
    BY <2>1 DEF HoldsAt
  <2>3. DOMAIN fd = DOMAIN proc[p].fd \ {proc[p].pfd[2]}
        /\ \A m \in DOMAIN fd : Fits(m, fd[m])
    BY <1>1, AfterClose, Zenon
  <2>4. Goto(p, "right dup2", [proc[p] EXCEPT !.fd = fd])
    BY <1>1, Zenon DEF Close
  <2>5. OnTerminal("right dup2", fd) => OnTerminal("right", proc[p].fd)
    BY <1>1, <2>2, CloseKeepsOutput, Zenon
  <2> HIDE DEF fd
  <2>6. HoldsAt("right dup2", proc[p].cmd, fd, proc[p].pfd)
    BY <2>2, <2>3 DEF HoldsAt, ChildLabels
  <2> QED BY <1>1, <2>4, <2>5, <2>6, FdStep, Zenon
<1>2. CASE At(p, "right dup2") /\ Dup2(p, proc[p].pfd[1], 0, "right close")
  <2> DEFINE d == proc[p].fd[proc[p].pfd[1]]
             n == 0
             fd == Put(proc[p].fd, n, d)
  <2>1. HoldsAt("right dup2", proc[p].cmd, proc[p].fd, proc[p].pfd)
    BY <1>2, ChildAt, Zenon
  <2>2. /\ proc[p].pfd[1] = 3 /\ proc[p].pfd[2] = 4 /\ DOMAIN proc[p].fd = {0, 1, 2, 3}
        /\ "right dup2" \notin {"left", "left dup2"}
    BY <2>1 DEF HoldsAt
  <2>3. \A m \in DOMAIN proc[p].fd : Fits(m, proc[p].fd[m])
    BY <2>1, Zenon DEF HoldsAt
  <2>4. Goto(p, "right close", [proc[p] EXCEPT !.fd = fd])
    BY <1>2, Zenon DEF Dup2
  <2>5. Fits(n, d)
    <3>1. Fits(3, proc[p].fd[3])
      BY <2>2, <2>3
    <3> QED BY <2>2, <3>1 DEF Fits
  <2> HIDE DEF d, n
  <2>6. /\ DOMAIN fd = DOMAIN proc[p].fd \cup {n}
        /\ fd[n] = d
        /\ \A m \in DOMAIN proc[p].fd : m # n => fd[m] = proc[p].fd[m]
        /\ \A m \in DOMAIN fd : Fits(m, fd[m])
    BY <2>3, <2>5, PutFits, Zenon
  <2> HIDE DEF fd
  <2> USE DEF n
  <2>7. HoldsAt("right close", proc[p].cmd, fd, proc[p].pfd)
    BY <2>2, <2>6 DEF HoldsAt, ChildLabels
  <2>8. OnTerminal("right close", fd) => OnTerminal("right dup2", proc[p].fd)
    <3>1. 1 \in DOMAIN proc[p].fd /\ fd[1] = proc[p].fd[1]
      BY <2>2, <2>6
    <3> QED BY <2>2, <3>1, KeepsOutput, Zenon
  <2> QED BY <1>2, <2>4, <2>7, <2>8, FdStep, Zenon
<1>3. CASE At(p, "right close") /\ CloseAndRun(p, proc[p].pfd[1], proc[p].cmd.right)
  <2>1. HoldsAt("right close", proc[p].cmd, proc[p].fd, proc[p].pfd)
    BY <1>3, ChildAt, Zenon
  <2>2. proc[p].pfd[1] = 3 /\ DOMAIN proc[p].fd = {0, 1, 2, 3}
    BY <2>1 DEF HoldsAt
  <2>3. DOMAIN proc[p].fd \ {proc[p].pfd[1]} = {0, 1, 2}
    BY <2>2
  <2>4. "right close" \notin {"left", "left dup2"}
    OBVIOUS
  <2> QED BY <1>3, <2>3, <2>4, CloseAndRunStep, Zenon
<1> QED
  BY <1>1, <1>2, <1>3 DEF RightSide

LEMMA ChildInRuncmd == ASSUME IInv, NEW p \in Child, Runcmd(p) PROVE IInv'
<1>1. CASE ParseFails(p) \/ NothingToRun(p) \/ ExecFails(p)
  BY <1>1, ChildExits DEF ParseFails, NothingToRun, ExecFails
<1>2. CASE RedirOpenFails(p) \/ PipeFails(p)
  BY <1>2, ChildExits DEF RedirOpenFails, PipeFails
<1>3. CASE Exec(p) \/ RedirClose(p) \/ RedirOpen(p) \/ Pipe(p) \/ PipeFork(p)
  BY <1>3, ChildExecs, ChildCloses, ChildOpens, ChildPipes, ChildForks
<1>4. CASE LeftSide(p) \/ RightSide(p)
  BY <1>4, ChildOnTheLeft, ChildOnTheRight
<1> QED
  BY <1>1, <1>2, <1>3, <1>4 DEF Runcmd

---------------------------------------------------------------------------
(* Programs *)

\* What a program holds: its three descriptors.
LEMMA ProgramHolds ==
    ASSUME IInv, NEW p \in Child, At(p, "program")
    PROVE  /\ DOMAIN proc[p].fd = {0, 1, 2}
           /\ \A m \in DOMAIN proc[p].fd : Fits(m, proc[p].fd[m])
<1>1. HoldsAt("program", proc[p].cmd, proc[p].fd, proc[p].pfd)
  BY ChildAt, Zenon
<1> QED
  BY <1>1 DEF HoldsAt

\* A program that goes on keeps descriptors of the same kinds.
LEMMA ProgramGoesOn ==
    ASSUME IInv, NEW p \in Child, At(p, "program"), NEW r,
           proc' = [proc EXCEPT ![p] = r], DOMAIN r = Fields,
           r.st = proc[p].st, r.parent = proc[p].parent, r.pc = proc[p].pc,
           DOMAIN r.fd = {0, 1, 2}, \A m \in DOMAIN r.fd : Fits(m, r.fd[m]),
           r.fd[1].kind = "tty" => proc[p].fd[1].kind = "tty"
    PROVE  IInv'
<1>1. Live(p) /\ r.pc = "program" /\ r.st = "live"
  BY DEF At, Live
<1>2. Disciplined(r)
  BY <1>1 DEF Disciplined, HoldsAt, ChildLabels
<1>3. OnTerminal(r.pc, r.fd) => OnTerminal(proc[p].pc, proc[p].fd)
  BY ProgramHolds DEF OnTerminal
<1> QED
  BY <1>1, <1>2, <1>3, ChildStep, Zenon

\* The position of descriptor n moves on.
LEMMA MovesOn ==
    ASSUME NEW fd, DOMAIN fd = {0, 1, 2}, \A m \in DOMAIN fd : Fits(m, fd[m]),
           NEW n \in {0, 1}, NEW d, d.kind = fd[n].kind
    PROVE  /\ DOMAIN Put(fd, n, d) = {0, 1, 2}
           /\ \A m \in DOMAIN Put(fd, n, d) : Fits(m, Put(fd, n, d)[m])
           /\ Put(fd, n, d)[1].kind = fd[1].kind
<1>1. Fits(n, d)
  <2>1. Fits(n, fd[n]) /\ n \in DOMAIN fd
    OBVIOUS
  <2> QED BY <2>1 DEF Fits
<1>2. /\ DOMAIN Put(fd, n, d) = DOMAIN fd \cup {n}
      /\ Put(fd, n, d)[n] = d
      /\ \A m \in DOMAIN fd : m # n => Put(fd, n, d)[m] = fd[m]
      /\ \A m \in DOMAIN Put(fd, n, d) : Fits(m, Put(fd, n, d)[m])
  BY <1>1, PutFits, Zenon
<1> QED
  BY <1>2

LEMMA ProgramComplaining == ASSUME IInv, NEW p \in Child, ProgramComplains(p) PROVE IInv'
<1> DEFINE r == SaidMessage(p)
<1>1. At(p, "program") /\ DOMAIN proc[p] = Fields /\ proc' = [proc EXCEPT ![p] = r]
  BY ChildAt DEF ProgramComplains
<1>2. /\ DOMAIN r = Fields /\ r.st = proc[p].st /\ r.parent = proc[p].parent
      /\ r.fd = proc[p].fd /\ r.pc = proc[p].pc
  BY <1>1, Zenon DEF SaidMessage, Fields
<1> HIDE DEF r
<1> QED
  BY <1>1, <1>2, ProgramHolds, ProgramGoesOn, Zenon DEF r

LEMMA ProgramWriting == ASSUME IInv, NEW p \in Child, ProgramWrites(p) PROVE IInv'
<1> DEFINE out == Stdout(p)
<1>1. At(p, "program") /\ DOMAIN proc[p] = Fields
  BY ChildAt DEF ProgramWrites, AtWork
<1>2. CASE proc' = [proc EXCEPT ![p] = WroteToken(p)]
  <2> DEFINE r == WroteToken(p)
  <2>1. /\ DOMAIN r = Fields /\ r.st = proc[p].st /\ r.parent = proc[p].parent
        /\ r.fd = proc[p].fd /\ r.pc = proc[p].pc
    BY <1>1, Zenon DEF WroteToken, Fields
  <2> HIDE DEF r
  <2> QED BY <1>1, <1>2, <2>1, ProgramHolds, ProgramGoesOn, Zenon DEF r
<1>3. CASE /\ out.kind = "out"
           /\ proc' = [proc EXCEPT ![p] = [WroteToken(p) EXCEPT
                        !.fd = Put(@, 1, Opened("out", out.key, out.pos + 1))]]
  <2> DEFINE n == 1
             d == Opened("out", out.key, out.pos + 1)
             fd == Put(proc[p].fd, n, d)
             r == [WroteToken(p) EXCEPT !.fd = Put(@, n, d)]
  <2>1. proc' = [proc EXCEPT ![p] = r]
    BY <1>3
  <2>2. d.kind = proc[p].fd[n].kind
    BY <1>3, Zenon DEF Opened, Stdout
  <2>3. n \in {0, 1}
    OBVIOUS
  <2> HIDE DEF n, d
  <2>4. /\ DOMAIN r = Fields /\ r.st = proc[p].st /\ r.parent = proc[p].parent
        /\ r.fd = fd /\ r.pc = proc[p].pc
    BY <1>1, Zenon DEF WroteToken, Fields
  <2> HIDE DEF r
  <2>5. /\ DOMAIN fd = {0, 1, 2}
        /\ \A m \in DOMAIN fd : Fits(m, fd[m])
        /\ fd[1].kind = proc[p].fd[1].kind
    <3>1. /\ DOMAIN proc[p].fd = {0, 1, 2}
          /\ \A m \in DOMAIN proc[p].fd : Fits(m, proc[p].fd[m])
      BY <1>1, ProgramHolds
    <3> QED BY <2>2, <2>3, <3>1, MovesOn, Zenon
  <2> HIDE DEF fd
  <2> QED BY <1>1, <2>1, <2>4, <2>5, ProgramGoesOn, Zenon
<1>4. CASE proc' = ExitTable(p)
  BY <1>4, ExitStep, Pids
<1> QED
  BY <1>2, <1>3, <1>4, Zenon DEF ProgramWrites

LEMMA ProgramReading == ASSUME IInv, NEW p \in Child, ProgramReads(p) PROVE IInv'
<1> DEFINE in == Stdin(p)
<1>1. At(p, "program") /\ DOMAIN proc[p] = Fields
  BY ChildAt DEF ProgramReads, WantsInput, AtWork
<1>2. \A t : /\ DOMAIN ReadToken(p, t) = Fields
             /\ ReadToken(p, t).st = proc[p].st /\ ReadToken(p, t).parent = proc[p].parent
             /\ ReadToken(p, t).fd = proc[p].fd /\ ReadToken(p, t).pc = proc[p].pc
  BY <1>1, Zenon DEF ReadToken, Fields
<1>3. CASE \E t : proc' = [proc EXCEPT ![p] = ReadToken(p, t)]
  BY <1>1, <1>2, <1>3, ProgramHolds, ProgramGoesOn, ZenonT(30)
<1>4. CASE /\ in.kind = "in"
           /\ proc' = [proc EXCEPT ![p] =
                    [ReadToken(p, file[in.key][in.pos + 1]) EXCEPT
                        !.fd = Put(@, 0, Opened("in", in.key, in.pos + 1))]]
  <2> DEFINE n == 0
             d == Opened("in", in.key, in.pos + 1)
             fd == Put(proc[p].fd, n, d)
             read == ReadToken(p, file[in.key][in.pos + 1])
             r == [read EXCEPT !.fd = Put(@, n, d)]
  <2>1. proc' = [proc EXCEPT ![p] = r]
    BY <1>4
  <2>2. d.kind = proc[p].fd[n].kind
    BY <1>4, Zenon DEF Opened, Stdin
  <2>3. n \in {0, 1}
    OBVIOUS
  <2>4. /\ DOMAIN read = Fields /\ read.st = proc[p].st /\ read.parent = proc[p].parent
        /\ read.fd = proc[p].fd /\ read.pc = proc[p].pc
    BY <1>2, Zenon
  <2> HIDE DEF n, d, read
  <2>5. /\ DOMAIN r = Fields /\ r.st = proc[p].st /\ r.parent = proc[p].parent
        /\ r.fd = fd /\ r.pc = proc[p].pc
    BY <2>4, Zenon DEF Fields
  <2> HIDE DEF r
  <2>6. /\ DOMAIN fd = {0, 1, 2}
        /\ \A m \in DOMAIN fd : Fits(m, fd[m])
        /\ fd[1].kind = proc[p].fd[1].kind
    <3>1. /\ DOMAIN proc[p].fd = {0, 1, 2}
          /\ \A m \in DOMAIN proc[p].fd : Fits(m, proc[p].fd[m])
      BY <1>1, ProgramHolds
    <3> QED BY <2>2, <2>3, <3>1, MovesOn, Zenon
  <2> HIDE DEF fd
  <2> QED BY <1>1, <2>1, <2>5, <2>6, ProgramGoesOn, Zenon
<1> QED
  BY <1>3, <1>4, Zenon DEF ProgramReads

LEMMA ChildInProgram == ASSUME IInv, NEW p \in Child, ProgramStep(p) PROVE IInv'
  BY ProgramComplaining, ProgramWriting, ProgramReading, ChildExits DEF ProgramStep, ProgramEnds

---------------------------------------------------------------------------
(* The inductive invariant *)

LEMMA InitIInv == ASSUME Init PROVE IInv
<1>0. Unused.st = "unused" /\ Unused.parent = init /\ DOMAIN Unused = Fields
  BY DEF Unused, Fields
<1>1. main \in Pid /\ init # main /\ \A p \in Child : p \in Pid /\ p # main
  BY Pids
<1> DEFINE shell == [Unused EXCEPT !.st = "live", !.pc = "getcmd",
                                   !.fd = [n \in 0 .. 2 |-> tty]]
<1>2. DOMAIN shell = Fields /\ shell.pc = "getcmd" /\ shell.fd = [n \in 0 .. 2 |-> tty]
  BY <1>0, Zenon DEF Fields
<1>3. /\ proc[main] = shell /\ \A p \in Child : proc[p] = Unused
      /\ proc = [p \in Pid |-> IF p = main THEN shell ELSE Unused]
  BY <1>1, Zenon DEF Init
<1> HIDE DEF shell
<1>4. Table
  BY <1>0, <1>2, <1>3 DEF Table
<1>5. MainHoldsStdio
  BY <1>2, <1>3 DEF MainHoldsStdio
<1>6. \A p \in Child : ~Live(p) /\ proc[p].parent # main
  BY <1>0, <1>1, <1>3 DEF Live
<1> QED
  BY <1>4, <1>5, <1>6
  DEF IInv, ChildrenDisciplined, LastStageOnTerminal, OneChildOfMain, MainWaitsForIt

LEMMA NextIInv == ASSUME IInv, [Next]_vars PROVE IInv'
<1>1. CASE MainStep
  BY <1>1, MainEnds, MainReads, MainForks, MainWaits DEF MainStep
<1>2. CASE \E p \in Child : Step(p)
  BY <1>2, ChildInRuncmd, ChildInProgram DEF Step
<1>3. CASE UNCHANGED vars
  BY <1>3, SameProcesses DEF vars
<1> QED
  BY <1>1, <1>2, <1>3 DEF Next

LEMMA AlwaysIInv == Spec => []IInv
<1>1. Init => IInv
  BY InitIInv
<1>2. IInv /\ [Next]_vars => IInv'
  BY NextIInv
<1> QED
  BY <1>1, <1>2, PTL DEF Spec

\* sh.c: at execvp every close and dup2 of runcmd has been made, in both
\* processes of every pipe and around every redirection: a program starts with
\* descriptors 0, 1 and 2 and no other.
THEOREM ProgramsStartClean == Spec => []ProgramsHoldOnlyStdio
<1>1. IInv => ProgramsHoldOnlyStdio
  <2> SUFFICES ASSUME IInv, NEW p \in Child, At(p, "program")
               PROVE  /\ FdsOf(p) = 0 .. 2
                      /\ proc[p].fd[0].kind \in {"tty", "r", "in"}
                      /\ proc[p].fd[1].kind \in {"tty", "w", "out"}
                      /\ proc[p].fd[2] = tty
    BY DEF ProgramsHoldOnlyStdio
  <2>1. DOMAIN proc[p].fd = {0, 1, 2} /\ \A m \in DOMAIN proc[p].fd : Fits(m, proc[p].fd[m])
    BY ProgramHolds
  <2>2. Fits(0, proc[p].fd[0]) /\ Fits(1, proc[p].fd[1]) /\ Fits(2, proc[p].fd[2])
    BY <2>1
  <2> QED BY <2>1, <2>2 DEF Fits, FdsOf
<1> QED
  BY <1>1, AlwaysIInv, PTL

---------------------------------------------------------------------------
(* What reaches the terminal. *)

\* A sequence, of whatever programs write.
Contents(s) == \E S : s \in Seq(S)

LEMMA AppendOne ==
    ASSUME NEW s, Contents(s), NEW t
    PROVE  /\ Contents(Append(s, t)) /\ Len(Append(s, t)) = Len(s) + 1 /\ Len(s) \in Nat
           /\ Append(s, t)[Len(Append(s, t))] = t
<1>1. PICK S : s \in Seq(S)
  BY DEF Contents
<1>2. s \in Seq(S \cup {t})
  BY <1>1
<1>3. /\ Append(s, t) \in Seq(S \cup {t}) /\ Len(Append(s, t)) = Len(s) + 1 /\ Len(s) \in Nat
      /\ Append(s, t)[Len(Append(s, t))] = t
  BY <1>2
<1> QED
  BY <1>3, Zenon DEF Contents

LEMMA Nothing == Contents(<<>>) /\ Len(<<>>) = 0
<1>1. <<>> \in Seq({}) /\ Len(<<>>) = 0
  OBVIOUS
<1> QED
  BY <1>1, Zenon DEF Contents

LEMMA WriterIsWaitedFor ==
    ASSUME IInv, NEW p \in Child, ProgramWrites(p), Stdout(p).kind = "tty"
    PROVE  At(main, "wait") /\ proc[p].parent = main
<1>1. At(p, "program")
  BY DEF ProgramWrites, AtWork
<1>2. 1 \in DOMAIN proc[p].fd
  BY <1>1, ProgramHolds
<1>3. Live(p) /\ OnTerminal(proc[p].pc, proc[p].fd)
  BY <1>1, <1>2 DEF At, OnTerminal, Stdout
<1> QED
  BY <1>3 DEF IInv, LastStageOnTerminal, MainWaitsForIt

\* Whatever a step adds to the terminal is a message, or a program's output.
Says == \E m : console' = Append(console, Message(m))
Shows(p) == /\ ProgramWrites(p) /\ Stdout(p).kind = "tty"
            /\ \E t : console' = Append(console, Written(t))

LEMMA ConsoleGrows ==
    ASSUME [Next]_vars
    PROVE  UNCHANGED console \/ Says \/ \E p \in Child : Shows(p)
<1>1. CASE MainStep
  BY <1>1, Zenon DEF MainStep, EndOfInput, Cd, ReadLine, ForkCommand, Wait, Exit, Fork1,
              ForkSucceeds, ForkFails, Says
<1>2. ASSUME NEW p \in Child, Runcmd(p)
      PROVE  UNCHANGED console \/ Says
  <2>1. CASE ParseFails(p) \/ NothingToRun(p) \/ Exec(p) \/ ExecFails(p)
    BY <2>1, Zenon DEF ParseFails, NothingToRun, Exec, ExecFails, Exit, ExitSaying, Goto, Says
  <2>2. CASE RedirClose(p) \/ RedirOpen(p) \/ RedirOpenFails(p)
    BY <2>2, Zenon DEF RedirClose, RedirOpen, RedirOpenFails, ExitSaying, Goto, Says
  <2>3. CASE Pipe(p) \/ PipeFails(p) \/ PipeFork(p)
    BY <2>3, Zenon DEF Pipe, PipeFails, PipeFork, Fork1, ForkSucceeds, ForkFails,
                       ExitSaying, Says
  <2>4. CASE LeftSide(p) \/ RightSide(p)
    BY <2>4 DEF LeftSide, RightSide, Close, Dup2, CloseAndRun, Goto
  <2> QED BY <1>2, <2>1, <2>2, <2>3, <2>4 DEF Runcmd
<1>3. ASSUME NEW p \in Child, ProgramComplains(p) \/ ProgramReads(p) \/ ProgramEnds(p)
      PROVE  UNCHANGED console \/ Says
  BY <1>3, Zenon DEF ProgramComplains, ProgramReads, ProgramEnds, Exit, Says
<1>4. ASSUME NEW p \in Child, ProgramWrites(p)
      PROVE  UNCHANGED console \/ Shows(p)
  BY <1>4, Zenon DEF ProgramWrites, Shows
<1>5. CASE UNCHANGED vars
  BY <1>5 DEF vars
<1> QED
  BY <1>1, <1>2, <1>3, <1>4, <1>5 DEF Next, Step, ProgramStep

LEMMA ConsoleIs == Spec => []Contents(console)
<1>1. Init => Contents(console)
  BY Nothing DEF Init
<1>2. Contents(console) /\ [Next]_vars => Contents(console)'
  <2> SUFFICES ASSUME Contents(console), [Next]_vars PROVE Contents(console')
    BY DEF Contents
  <2>1. console' = console \/ \E w : console' = Append(console, w)
    BY ConsoleGrows, Zenon DEF Says, Shows
  <2> QED BY <2>1, AppendOne, Zenon
<1> QED
  BY <1>1, <1>2, PTL DEF Spec

\* sh.c:runcmd: of a pipeline the last stage alone can have the terminal as its
\* standard output, and it is the child that main waits for: at the next prompt
\* nothing is left that could still write output there, whatever left sides of
\* earlier lines are running and whatever messages they have to give.
THEOREM PromptEndsOutput == Spec => OutputOnlyBeforePrompt
<1> DEFINE Allowed == \/ console'[Len(console')].fd = 2
                      \/ /\ At(main, "wait")
                         /\ \E p \in Child : ProgramWrites(p) /\ proc[p].parent = main
<1>1. IInv /\ Contents(console) /\ [Next]_vars => [console' # console => Allowed]_vars
  <2> SUFFICES ASSUME IInv, Contents(console), [Next]_vars, console' # console
               PROVE  Allowed
    OBVIOUS
  <2>1. CASE Says
    <3>1. PICK m : console' = Append(console, Message(m))
      BY <2>1 DEF Says
    <3>2. console'[Len(console')] = Message(m)
      BY <3>1, AppendOne, Zenon
    <3> QED BY <3>2 DEF Message
  <2>2. ASSUME NEW p \in Child, Shows(p) PROVE Allowed
    BY <2>2, WriterIsWaitedFor, Zenon DEF Shows
  <2> QED BY <2>1, <2>2, ConsoleGrows, Zenon
<1> QED
  BY <1>1, AlwaysIInv, ConsoleIs, PTL DEF Spec, OutputOnlyBeforePrompt

---------------------------------------------------------------------------
(* What descriptors name, who is whose parent, and what a pipe holds. *)

\* A descriptor names a pipe or a file that exists.
Names(d, files) ==
    \/ d = tty
    \/ d.kind \in {"r", "w"} /\ d.pipe \in PipeId
    \/ d.kind \in {"in", "out"} /\ d.key \in files /\ d.pos \in Nat

EndedAreEmpty ==
    \A p \in Pid : ~Live(p) =>
        /\ proc[p].st \in {"unused", "zombie"}
        /\ proc[p].pc = "none" /\ proc[p].fd = <<>>
ParentsLive ==
    \A p \in Pid : \/ proc[p].parent = init
                   \/ proc[p].parent \in Pid \ {p} /\ proc[proc[p].parent].st = "live"
DescriptorsName == \A p \in Pid : \A n \in FdsOf(p) : Names(proc[p].fd[n], DOMAIN file)
Processes == EndedAreEmpty /\ ParentsLive /\ DescriptorsName

PipesBounded ==
    /\ pipe = [i \in PipeId |-> pipe[i]]
    /\ \A i \in PipeId : Contents(pipe[i]) /\ Len(pipe[i]) <= PipeCap

TInv == Processes /\ PipesBounded /\ failures \in Nat

\* One process goes on; no file goes away.
LEMMA ProcessGoesOn ==
    ASSUME Table, Processes, NEW p \in Pid, Live(p), NEW r,
           proc' = [proc EXCEPT ![p] = r], r.st = "live", r.parent = proc[p].parent,
           DOMAIN file \subseteq DOMAIN file',
           \A n \in DOMAIN r.fd : Names(r.fd[n], DOMAIN file')
    PROVE  Processes'
<1>1. proc'[p] = r /\ \A q \in Pid : q # p => proc'[q] = proc[q]
  BY Zenon DEF Table
<1>2. \A q \in Pid : Live(q)' <=> Live(q)
  BY <1>1, Zenon DEF Live
<1>3. \A q \in Pid : proc'[q].parent = proc[q].parent
  BY <1>1, Zenon
<1>4. EndedAreEmpty'
  BY <1>1, <1>2, Zenon DEF Processes, EndedAreEmpty
<1>5. ParentsLive'
  <2> SUFFICES ASSUME NEW q \in Pid, proc'[q].parent # init
               PROVE  proc'[q].parent \in Pid \ {q} /\ proc'[proc'[q].parent].st = "live"
    BY Zenon DEF ParentsLive
  <2>1. proc[q].parent \in Pid \ {q} /\ Live(proc[q].parent)
    BY <1>3, Zenon DEF Processes, ParentsLive, Live
  <2> QED BY <1>2, <1>3, <2>1, Zenon DEF Live
<1>6. \A d : Names(d, DOMAIN file) => Names(d, DOMAIN file')
  BY DEF Names
<1>7. DescriptorsName'
  <2> SUFFICES ASSUME NEW q \in Pid, NEW n \in DOMAIN proc'[q].fd
               PROVE  Names(proc'[q].fd[n], DOMAIN file')
    BY DEF DescriptorsName, FdsOf
  <2>1. CASE q = p
    BY <2>1, <1>1, Zenon
  <2>2. CASE q # p
    BY <2>2, <1>1, <1>6, Zenon DEF Processes, DescriptorsName, FdsOf
  <2> QED BY <2>1, <2>2
<1> QED
  BY <1>4, <1>5, <1>7 DEF Processes

LEMMA ProcessEnds ==
    ASSUME Table, Processes, NEW p \in Pid, proc' = ExitTable(p), file' = file
    PROVE  Processes'
<1>0. Unused.st = "unused" /\ Unused.parent = init /\ Unused.pc = "none" /\ Unused.fd = <<>>
  BY DEF Unused
<1>1. LET z == Zombie(proc[p].parent)
      IN  z.st = "zombie" /\ z.parent = proc[p].parent /\ z.pc = "none" /\ z.fd = <<>>
  BY <1>0, Zenon DEF Zombie, Unused
<1>2. \A q \in Pid : LET e == [proc[q] EXCEPT !.parent = init]
                     IN  /\ e.st = proc[q].st /\ e.parent = init
                         /\ e.pc = proc[q].pc /\ e.fd = proc[q].fd
  BY Zenon DEF Table, Fields
<1>3. \/ proc'[p] = Unused /\ proc[p].parent = init
      \/ proc'[p] = Zombie(proc[p].parent) /\ proc[p].parent # init
  BY Zenon DEF ExitTable
<1>4. \A q \in Pid : q # p =>
        \/ proc[q].parent = p /\ proc'[q] = [proc[q] EXCEPT !.parent = init]
        \/ proc[q].parent = p /\ proc'[q] = Unused
        \/ proc[q].parent # p /\ proc'[q] = proc[q]
  BY Zenon DEF ExitTable
<1>5. \A q \in Pid : q # p =>
        \/ proc'[q] = Unused
        \/ /\ proc'[q].st = proc[q].st /\ proc'[q].pc = proc[q].pc /\ proc'[q].fd = proc[q].fd
           /\ \/ proc'[q].parent = init
              \/ proc'[q].parent = proc[q].parent /\ proc[q].parent # p
  BY <1>2, <1>4, ZenonT(30)
<1>6. ~Live(p)' /\ proc'[p].st \in {"unused", "zombie"} /\ proc'[p].pc = "none"
      /\ proc'[p].fd = <<>> /\ proc'[p].parent = proc[p].parent
  BY <1>0, <1>1, <1>3 DEF Live
<1>7. EndedAreEmpty'
  <2> SUFFICES ASSUME NEW q \in Pid, ~Live(q)'
               PROVE  /\ proc'[q].st \in {"unused", "zombie"}
                      /\ proc'[q].pc = "none" /\ proc'[q].fd = <<>>
    BY DEF EndedAreEmpty
  <2>1. CASE q = p
    BY <2>1, <1>6
  <2>2. CASE q # p /\ proc'[q] = Unused
    BY <2>2, <1>0
  <2>3. CASE q # p /\ proc'[q] # Unused
    BY <2>3, <1>5 DEF Processes, EndedAreEmpty, Live
  <2> QED BY <2>1, <2>2, <2>3
<1>8. ParentsLive'
  <2> SUFFICES ASSUME NEW q \in Pid, proc'[q].parent # init
               PROVE  proc'[q].parent \in Pid \ {q} /\ proc'[proc'[q].parent].st = "live"
    BY Zenon DEF ParentsLive
  <2>1. proc'[q].parent = proc[q].parent /\ proc[q].parent # p
    <3>1. CASE q = p
      BY <3>1, <1>6 DEF Processes, ParentsLive
    <3>2. CASE q # p
      BY <3>2, <1>0, <1>5
    <3> QED BY <3>1, <3>2
  <2> DEFINE a == proc[q].parent
  <2>2. a \in Pid \ {q} /\ Live(a) /\ a # p
    BY <2>1 DEF Processes, ParentsLive, Live
  <2> HIDE DEF a
  <2>3. proc'[a].st = proc[a].st
    <3>1. proc[a].parent # p => proc'[a] = proc[a]
      BY <2>2, <1>4
    <3>2. proc[a].parent = p => proc'[a] = [proc[a] EXCEPT !.parent = init]
      BY <2>2, Zenon DEF ExitTable
    <3> QED BY <3>1, <3>2, <2>2, <1>2, Zenon
  <2> QED BY <2>1, <2>2, <2>3 DEF Live, a
<1>9. DescriptorsName'
  <2> SUFFICES ASSUME NEW q \in Pid, NEW n \in DOMAIN proc'[q].fd
               PROVE  Names(proc'[q].fd[n], DOMAIN file)
    BY DEF DescriptorsName, FdsOf
  <2>1. proc'[q].fd # <<>>
    OBVIOUS
  <2>2. q # p /\ proc'[q].fd = proc[q].fd
    BY <2>1, <1>0, <1>5, <1>6
  <2> QED BY <2>2 DEF Processes, DescriptorsName, FdsOf
<1> QED
  BY <1>7, <1>8, <1>9 DEF Processes

LEMMA ProcessForks ==
    ASSUME Table, Processes, NEW p \in Pid, Live(p), NEW c \in Child, proc[c] = Unused,
           NEW parentLabel, NEW childLabel, file' = file,
           proc' = [proc EXCEPT
                ![p].pc = parentLabel,
                ![c] = [proc[p] EXCEPT !.parent = p, !.pc = childLabel]]
    PROVE  Processes'
<1>1. c \in Pid /\ p # c
  BY Pids DEF Live, Unused
<1>2. /\ proc'[p].st = proc[p].st /\ proc'[p].parent = proc[p].parent
      /\ proc'[p].fd = proc[p].fd
  BY <1>1, Zenon DEF Table, Fields
<1>3. proc'[c].st = proc[p].st /\ proc'[c].parent = p /\ proc'[c].fd = proc[p].fd
  BY <1>1, Zenon DEF Table, Fields
<1>4. \A q \in Pid : q # p /\ q # c => proc'[q] = proc[q]
  BY <1>1, Zenon DEF Table
<1>5. \A q \in Pid : Live(q) => Live(q)'
  BY <1>2, <1>3, <1>4 DEF Live
<1>6. Live(c)' /\ ~Live(c)
  BY <1>3 DEF Live, Unused
<1>7. EndedAreEmpty'
  <2> SUFFICES ASSUME NEW q \in Pid, ~Live(q)'
               PROVE  /\ proc'[q].st \in {"unused", "zombie"}
                      /\ proc'[q].pc = "none" /\ proc'[q].fd = <<>>
    BY DEF EndedAreEmpty
  <2>1. q # c /\ q # p /\ ~Live(q)
    BY <1>5, <1>6
  <2> QED BY <2>1, <1>4, Zenon DEF Processes, EndedAreEmpty
<1>8. ParentsLive'
  <2> SUFFICES ASSUME NEW q \in Pid, proc'[q].parent # init
               PROVE  proc'[q].parent \in Pid \ {q} /\ proc'[proc'[q].parent].st = "live"
    BY Zenon DEF ParentsLive
  <2>1. CASE q = c
    BY <2>1, <1>1, <1>3, <1>5 DEF Live
  <2>2. CASE q # c
    <3>1. proc'[q].parent = proc[q].parent
      BY <2>2, <1>2, <1>4
    <3>2. proc[q].parent \in Pid \ {q} /\ Live(proc[q].parent)
      BY <3>1 DEF Processes, ParentsLive, Live
    <3> QED BY <3>1, <3>2, <1>5 DEF Live
  <2> QED BY <2>1, <2>2
<1>9. DescriptorsName'
  <2> SUFFICES ASSUME NEW q \in Pid, NEW n \in DOMAIN proc'[q].fd
               PROVE  Names(proc'[q].fd[n], DOMAIN file)
    BY DEF DescriptorsName, FdsOf
  <2>1. proc'[q].fd = proc[q].fd \/ proc'[q].fd = proc[p].fd
    BY <1>2, <1>3, <1>4
  <2> QED BY <2>1 DEF Processes, DescriptorsName, FdsOf
<1> QED
  BY <1>7, <1>8, <1>9 DEF Processes

---------------------------------------------------------------------------
(* The processes, action by action. *)

LEMMA SameKeepsProcesses == ASSUME Processes, UNCHANGED <<proc, file>> PROVE Processes'
<1>1. proc' = proc /\ file' = file
  OBVIOUS
<1> QED
  BY <1>1, Zenon DEF Processes, EndedAreEmpty, ParentsLive, DescriptorsName, Live, FdsOf

LEMMA MainKeepsProcesses == ASSUME IInv, Processes, MainStep PROVE Processes'
<1>0. Table /\ main \in Pid
  BY Pids DEF IInv
<1>1. CASE EndOfInput
  BY <1>0, <1>1, ProcessEnds DEF EndOfInput, Exit
<1>2. ASSUME NEW r, Live(main), proc' = [proc EXCEPT ![main] = r], file' = file,
             r.st = proc[main].st, r.parent = proc[main].parent, r.fd = proc[main].fd
      PROVE  Processes'
  <2>1. \A n \in DOMAIN r.fd : Names(r.fd[n], DOMAIN file')
    BY <1>0, <1>2, Zenon DEF Processes, DescriptorsName, FdsOf
  <2>2. r.st = "live" /\ DOMAIN file \subseteq DOMAIN file'
    BY <1>2 DEF Live
  <2> QED BY <1>0, <1>2, <2>1, <2>2, ProcessGoesOn, Zenon
<1>3. CASE Cd /\ proc' # proc
  <2> DEFINE r == [proc[main] EXCEPT !.cwd = Head(lines).dir]
  <2>1. Live(main) /\ proc' = [proc EXCEPT ![main] = r] /\ file' = file
    BY <1>0, <1>3, Zenon DEF Cd, Table, At
  <2>2. r.st = proc[main].st /\ r.parent = proc[main].parent /\ r.fd = proc[main].fd
    BY <1>0, Zenon DEF Table, Fields
  <2> HIDE DEF r
  <2> QED BY <1>2, <2>1, <2>2, Zenon
<1>4. CASE ReadLine
  <2> DEFINE r == [proc[main] EXCEPT !.pc = "fork", !.cmd = Head(lines)]
  <2>1. Live(main) /\ proc' = [proc EXCEPT ![main] = r] /\ file' = file
    BY <1>0, <1>4, Zenon DEF ReadLine, Table, At
  <2>2. r.st = proc[main].st /\ r.parent = proc[main].parent /\ r.fd = proc[main].fd
    BY <1>0, Zenon DEF Table, Fields
  <2> HIDE DEF r
  <2> QED BY <1>2, <2>1, <2>2, Zenon
<1>5. CASE ForkCommand
  <2>1. CASE ForkSucceeds(main, "wait", "runcmd")
    <3>1. Live(main)
      BY <1>5 DEF ForkCommand, At
    <3> QED BY <1>0, <2>1, <3>1, ProcessForks DEF ForkSucceeds
  <2>2. CASE ForkFails(main, "wait")
    <3> DEFINE r == [proc[main] EXCEPT !.pc = "wait"]
    <3>1. Live(main) /\ proc' = [proc EXCEPT ![main] = r] /\ file' = file
      BY <1>0, <1>5, <2>2, Zenon DEF ForkFails, ForkCommand, Table, At
    <3>2. r.st = proc[main].st /\ r.parent = proc[main].parent /\ r.fd = proc[main].fd
      BY <1>0, Zenon DEF Table, Fields
    <3> HIDE DEF r
    <3> QED BY <1>2, <3>1, <3>2, Zenon
  <2> QED BY <1>5, <2>1, <2>2 DEF ForkCommand, Fork1
<1>6. CASE Wait
  <2> DEFINE r == [proc[main] EXCEPT !.pc = "getcmd", !.cmd = <<>>]
  <2>1. Live(main) /\ file' = file
    BY <1>6 DEF Wait, At
  <2>2. r.st = proc[main].st /\ r.parent = proc[main].parent /\ r.fd = proc[main].fd
    BY <1>0, Zenon DEF Table, Fields
  <2>3. CASE proc' = [proc EXCEPT ![main].pc = "getcmd", ![main].cmd = <<>>]
    <3>1. proc' = [proc EXCEPT ![main] = r]
      BY <1>0, <2>3, Zenon DEF Table
    <3> HIDE DEF r
    <3> QED BY <1>2, <2>1, <2>2, <3>1, Zenon
  <2>4. CASE \E c \in Child : /\ proc[c] = Zombie(main)
                              /\ proc' = [proc EXCEPT ![c] = Unused, ![main].pc = "getcmd",
                                                      ![main].cmd = <<>>]
    <3>1. PICK c \in Child : /\ proc[c] = Zombie(main)
                             /\ proc' = [proc EXCEPT ![c] = Unused, ![main].pc = "getcmd",
                                                     ![main].cmd = <<>>]
      BY <2>4, Zenon
    <3>2. c \in Pid /\ c # main
      BY Pids
    <3>3. Unused.st = "unused" /\ Unused.parent = init /\ Unused.pc = "none" /\ Unused.fd = <<>>
      BY DEF Unused
    <3>4. proc[c].st = "zombie"
      BY <3>1, Zenon DEF Zombie, Unused
    <3>5. proc'[main] = r /\ proc'[c] = Unused
          /\ \A q \in Pid : q # main /\ q # c => proc'[q] = proc[q]
      BY <1>0, <3>1, <3>2, Zenon DEF Table
    <3> HIDE DEF r
    <3>6. \A q \in Pid : Live(q)' <=> Live(q)
      BY <2>2, <3>3, <3>4, <3>5 DEF Live
    <3>7. EndedAreEmpty'
      <4> SUFFICES ASSUME NEW q \in Pid, ~Live(q)'
                   PROVE  /\ proc'[q].st \in {"unused", "zombie"}
                          /\ proc'[q].pc = "none" /\ proc'[q].fd = <<>>
        BY DEF EndedAreEmpty
      <4>1. q # main
        BY <2>1, <3>6
      <4> QED BY <3>3, <3>5, <3>6, <4>1 DEF Processes, EndedAreEmpty
    <3>8. ParentsLive'
      <4> SUFFICES ASSUME NEW q \in Pid, proc'[q].parent # init
                   PROVE  proc'[q].parent \in Pid \ {q} /\ proc'[proc'[q].parent].st = "live"
        BY Zenon DEF ParentsLive
      <4>1. proc'[q].parent = proc[q].parent
        BY <2>2, <3>3, <3>5
      <4> QED BY <3>6, <4>1 DEF Processes, ParentsLive, Live
    <3>9. DescriptorsName'
      <4> SUFFICES ASSUME NEW q \in Pid, NEW n \in DOMAIN proc'[q].fd
                   PROVE  Names(proc'[q].fd[n], DOMAIN file)
        BY <2>1 DEF DescriptorsName, FdsOf
      <4>1. proc'[q].fd # <<>>
        OBVIOUS
      <4>2. proc'[q].fd = proc[q].fd
        BY <2>2, <3>3, <3>5, <4>1
      <4> QED BY <4>2 DEF Processes, DescriptorsName, FdsOf
    <3> QED BY <3>7, <3>8, <3>9 DEF Processes
  <2> QED BY <1>6, <2>3, <2>4, Zenon DEF Wait
<1>7. CASE Cd /\ UNCHANGED proc
  BY <1>7, SameKeepsProcesses DEF Cd
<1> QED
  BY <1>1, <1>3, <1>4, <1>5, <1>6, <1>7 DEF MainStep

\* A child goes on with descriptors that name something.
LEMMA ChildGoesOn ==
    ASSUME IInv, Processes, NEW p \in Child, NEW label, At(p, label), NEW next, NEW changed,
           Goto(p, next, changed), changed.st = proc[p].st, changed.parent = proc[p].parent,
           DOMAIN changed = Fields,
           \A n \in DOMAIN changed.fd : Names(changed.fd[n], DOMAIN file)
    PROVE  Processes'
<1> DEFINE r == [changed EXCEPT !.pc = next]
<1>1. r.st = changed.st /\ r.parent = changed.parent /\ r.fd = changed.fd
  BY Zenon DEF Fields
<1>2. proc' = [proc EXCEPT ![p] = r] /\ file' = file
  BY Zenon DEF Goto
<1> HIDE DEF r
<1>3. p \in Pid /\ Live(p) /\ Table /\ r.st = "live" /\ DOMAIN file \subseteq DOMAIN file'
  BY <1>1, <1>2, Pids DEF At, Live, IInv
<1>4. \A n \in DOMAIN r.fd : Names(r.fd[n], DOMAIN file')
  BY <1>1, <1>2, Zenon
<1> QED
  BY <1>1, <1>2, <1>3, <1>4, ProcessGoesOn, Zenon

\* Only its descriptors change.
LEMMA ChildChanges ==
    ASSUME IInv, NEW p \in Child, NEW fd
    PROVE  LET c == [proc[p] EXCEPT !.fd = fd]
           IN  /\ DOMAIN c = Fields /\ c.st = proc[p].st /\ c.parent = proc[p].parent
               /\ c.fd = fd
<1>1. DOMAIN proc[p] = Fields
  BY Pids DEF IInv, Table
<1> QED
  BY <1>1, Zenon DEF Fields

LEMMA WithoutNames ==
    ASSUME NEW fd, NEW files, NEW n, \A m \in DOMAIN fd : Names(fd[m], files)
    PROVE  \A m \in DOMAIN Without(fd, n) : Names(Without(fd, n)[m], files)
<1>1. DOMAIN Without(fd, n) = DOMAIN fd \ {n}
      /\ \A m \in DOMAIN fd \ {n} : Without(fd, n)[m] = fd[m]
  BY DEF Without
<1> QED
  BY <1>1, Zenon

LEMMA PutNames ==
    ASSUME NEW fd, NEW files, NEW n, NEW d, Names(d, files),
           \A m \in DOMAIN fd : Names(fd[m], files)
    PROVE  \A m \in DOMAIN Put(fd, n, d) : Names(Put(fd, n, d)[m], files)
<1>1. DOMAIN Put(fd, n, d) = DOMAIN fd \cup {n} /\ Put(fd, n, d)[n] = d
      /\ \A m \in DOMAIN fd \ {n} : Put(fd, n, d)[m] = fd[m]
  BY DEF Put
<1> QED
  BY <1>1, Zenon

\* What a child's descriptors name, before the step.
LEMMA ChildNames ==
    ASSUME Processes, NEW p \in Child
    PROVE  \A n \in DOMAIN proc[p].fd : Names(proc[p].fd[n], DOMAIN file)
BY Pids, Zenon DEF Processes, DescriptorsName, FdsOf

LEMMA ChildClosesOne ==
    ASSUME IInv, Processes, NEW p \in Child, NEW label, At(p, label), NEW n, NEW next,
           Goto(p, next, [proc[p] EXCEPT !.fd = Without(@, n)])
    PROVE  Processes'
<1> DEFINE fd == Without(proc[p].fd, n)
           changed == [proc[p] EXCEPT !.fd = fd]
<1>1. \A m \in DOMAIN fd : Names(fd[m], DOMAIN file)
  BY ChildNames, WithoutNames, Zenon
<1>2. Goto(p, next, changed)
  OBVIOUS
<1> HIDE DEF fd
<1>3. DOMAIN changed = Fields /\ changed.st = proc[p].st /\ changed.parent = proc[p].parent
      /\ changed.fd = fd
  BY ChildChanges, Zenon
<1> HIDE DEF changed
<1>4. \A m \in DOMAIN changed.fd : Names(changed.fd[m], DOMAIN file)
  BY <1>1, <1>3, Zenon
<1> QED
  BY <1>2, <1>3, <1>4, ChildGoesOn, Zenon

LEMMA ChildDuplicates ==
    ASSUME IInv, Processes, NEW p \in Child, NEW label, At(p, label), NEW from, NEW to, NEW next,
           from \in DOMAIN proc[p].fd, Dup2(p, from, to, next)
    PROVE  Processes'
<1> DEFINE d == proc[p].fd[from]
           fd == Put(proc[p].fd, to, d)
           changed == [proc[p] EXCEPT !.fd = fd]
<1>1. Names(d, DOMAIN file)
  BY ChildNames, Zenon
<1>2. Goto(p, next, changed)
  BY DEF Dup2
<1> HIDE DEF d
<1>3. \A m \in DOMAIN fd : Names(fd[m], DOMAIN file)
  BY <1>1, ChildNames, PutNames, Zenon
<1> HIDE DEF fd
<1>4. DOMAIN changed = Fields /\ changed.st = proc[p].st /\ changed.parent = proc[p].parent
      /\ changed.fd = fd
  BY ChildChanges, Zenon
<1> HIDE DEF changed
<1>5. \A m \in DOMAIN changed.fd : Names(changed.fd[m], DOMAIN file)
  BY <1>3, <1>4, Zenon
<1> QED
  BY <1>2, <1>4, <1>5, ChildGoesOn, Zenon

LEMMA ChildRunsSide ==
    ASSUME IInv, Processes, NEW p \in Child, NEW label, At(p, label), NEW n, NEW cmd,
           CloseAndRun(p, n, cmd)
    PROVE  Processes'
<1> DEFINE fd == Without(proc[p].fd, n)
           changed == [proc[p] EXCEPT !.fd = fd, !.cmd = cmd, !.pfd = <<0, 0>>]
<1>1. \A m \in DOMAIN fd : Names(fd[m], DOMAIN file)
  BY ChildNames, WithoutNames, Zenon
<1>2. Goto(p, "runcmd", changed)
  BY DEF CloseAndRun
<1> HIDE DEF fd
<1>3. DOMAIN changed = Fields /\ changed.st = proc[p].st /\ changed.parent = proc[p].parent
      /\ changed.fd = fd
  <2>1. DOMAIN proc[p] = Fields
    BY Pids DEF IInv, Table
  <2> QED BY <2>1, Zenon DEF Fields
<1> HIDE DEF changed
<1>4. \A m \in DOMAIN changed.fd : Names(changed.fd[m], DOMAIN file)
  BY <1>1, <1>3, Zenon
<1> QED
  BY <1>2, <1>3, <1>4, ChildGoesOn, Zenon

LEMMA SidesKeepProcesses ==
    ASSUME IInv, Processes, NEW p \in Child, LeftSide(p) \/ RightSide(p)
    PROVE  Processes'
<1>1. CASE \/ At(p, "left") /\ Close(p, proc[p].pfd[1], "left dup2")
           \/ At(p, "right") /\ Close(p, proc[p].pfd[2], "right dup2")
  BY <1>1, ChildClosesOne, Zenon DEF Close
<1>2. CASE At(p, "left dup2") /\ Dup2(p, proc[p].pfd[2], 1, "left close")
  <2>1. HoldsAt("left dup2", proc[p].cmd, proc[p].fd, proc[p].pfd)
    BY <1>2, ChildAt, Zenon
  <2>2. proc[p].pfd[2] \in DOMAIN proc[p].fd
    BY <2>1 DEF HoldsAt
  <2> QED BY <1>2, <2>2, ChildDuplicates, Zenon
<1>3. CASE At(p, "right dup2") /\ Dup2(p, proc[p].pfd[1], 0, "right close")
  <2>1. HoldsAt("right dup2", proc[p].cmd, proc[p].fd, proc[p].pfd)
    BY <1>3, ChildAt, Zenon
  <2>2. proc[p].pfd[1] \in DOMAIN proc[p].fd
    BY <2>1 DEF HoldsAt
  <2> QED BY <1>3, <2>2, ChildDuplicates, Zenon
<1>4. CASE \/ At(p, "left close") /\ CloseAndRun(p, proc[p].pfd[2], proc[p].cmd.left)
           \/ At(p, "right close") /\ CloseAndRun(p, proc[p].pfd[1], proc[p].cmd.right)
  BY <1>4, ChildRunsSide, Zenon
<1> QED
  BY <1>1, <1>2, <1>3, <1>4 DEF LeftSide, RightSide

LEMMA OpenKeepsProcesses ==
    ASSUME IInv, Processes, NEW p \in Child, RedirOpen(p)
    PROVE  Processes'
<1> DEFINE lowest == LowestFree(FdsOf(p))
           handle(mode) == Opened(mode, RedirKey(p), 0)
           opened(mode) == [proc[p] EXCEPT !.fd = Put(@, lowest, handle(mode)), !.cmd = @.cmd]
<1>1. At(p, "open") /\ p \in Pid /\ Live(p) /\ DOMAIN proc[p] = Fields /\ Table
  BY ChildAt DEF RedirOpen, IInv
<1>2. PICK mode \in {"in", "out"} :
        /\ proc' = [proc EXCEPT ![p] = [opened(mode) EXCEPT !.pc = "runcmd"]]
        /\ RedirKey(p) \in DOMAIN file' /\ DOMAIN file \subseteq DOMAIN file'
  <2>1. CASE RedirKey(p) \in DOMAIN file /\ Goto(p, "runcmd", opened("in"))
    <3>1. file' = file /\ proc' = [proc EXCEPT ![p] = [opened("in") EXCEPT !.pc = "runcmd"]]
      BY <2>1, Zenon DEF Goto
    <3> QED BY <2>1, <3>1, Zenon
  <2>2. CASE /\ file' = Put(file, RedirKey(p), <<>>)
             /\ proc' = [proc EXCEPT ![p] = [opened("out") EXCEPT !.pc = "runcmd"]]
    <3>1. DOMAIN file' = DOMAIN file \cup {RedirKey(p)}
      BY <2>2 DEF Put
    <3> QED BY <2>2, <3>1, Zenon
  <2> QED BY <2>1, <2>2, Zenon DEF RedirOpen
<1>3. Names(handle(mode), DOMAIN file')
  <2>1. handle(mode).kind = mode /\ handle(mode).key = RedirKey(p) /\ handle(mode).pos = 0
    BY Zenon DEF Opened
  <2> HIDE DEF handle
  <2> QED BY <1>2, <2>1 DEF Names
<1> HIDE DEF handle, lowest
<1> DEFINE fd == Put(proc[p].fd, lowest, handle(mode))
           r == [opened(mode) EXCEPT !.pc = "runcmd"]
<1>4. r.st = proc[p].st /\ r.parent = proc[p].parent /\ r.fd = fd
  BY <1>1, Zenon DEF Fields
<1>5. \A m \in DOMAIN fd : Names(fd[m], DOMAIN file')
  <2>1. \A d : Names(d, DOMAIN file) => Names(d, DOMAIN file')
    BY <1>2 DEF Names
  <2>2. \A m \in DOMAIN proc[p].fd : Names(proc[p].fd[m], DOMAIN file')
    BY <2>1, ChildNames, Zenon
  <2> QED BY <1>3, <2>2, PutNames, Zenon
<1>6. proc' = [proc EXCEPT ![p] = r]
  BY <1>2
<1> HIDE DEF fd, r
<1>7. r.st = "live" /\ \A m \in DOMAIN r.fd : Names(r.fd[m], DOMAIN file')
  <2>1. r.st = "live"
    BY <1>1, <1>4 DEF Live
  <2> QED BY <2>1, <1>4, <1>5, Zenon
<1> QED
  BY <1>1, <1>2, <1>4, <1>6, <1>7, ProcessGoesOn, Zenon

LEMMA PipeKeepsProcesses ==
    ASSUME IInv, Processes, NEW p \in Child, Pipe(p)
    PROVE  Processes'
<1> DEFINE a == LowestFree(FdsOf(p))
           b == LowestFree(FdsOf(p) \cup {a})
<1>1. At(p, "runcmd") /\ p \in Pid /\ Live(p) /\ DOMAIN proc[p] = Fields /\ Table /\ file' = file
  BY ChildAt, Zenon DEF Pipe, Runs, IInv
<1>2. PICK i \in PipeId : proc' = [proc EXCEPT
                    ![p].fd = Put(Put(@, a, ReadEnd(i)), b, WriteEnd(i)),
                    ![p].pfd = <<a, b>>,
                    ![p].pc = "fork"]
  BY Zenon DEF Pipe
<1>3. Names(ReadEnd(i), DOMAIN file) /\ Names(WriteEnd(i), DOMAIN file)
  BY DEF Names, ReadEnd, WriteEnd
<1> HIDE DEF a, b
<1> DEFINE one == Put(proc[p].fd, a, ReadEnd(i))
           two == Put(one, b, WriteEnd(i))
           r == [proc[p] EXCEPT !.fd = two, !.pfd = <<a, b>>, !.pc = "fork"]
<1>4. proc' = [proc EXCEPT ![p] = r]
  BY <1>1, <1>2, Zenon DEF Table
<1>5. r.st = proc[p].st /\ r.parent = proc[p].parent /\ r.fd = two
  BY <1>1, Zenon DEF Fields
<1>6. \A m \in DOMAIN one : Names(one[m], DOMAIN file)
  BY <1>3, ChildNames, PutNames, Zenon
<1> HIDE DEF one
<1>7. \A m \in DOMAIN two : Names(two[m], DOMAIN file)
  BY <1>3, <1>6, PutNames, Zenon
<1> HIDE DEF two, r
<1>8. r.st = "live" /\ DOMAIN file \subseteq DOMAIN file'
      /\ \A m \in DOMAIN r.fd : Names(r.fd[m], DOMAIN file')
  <2>1. r.st = "live"
    BY <1>1, <1>5 DEF Live
  <2> QED BY <2>1, <1>1, <1>5, <1>7, Zenon
<1> QED
  BY <1>1, <1>4, <1>5, <1>8, ProcessGoesOn, Zenon

LEMMA PipeForkKeepsProcesses ==
    ASSUME IInv, Processes, NEW p \in Child, PipeFork(p)
    PROVE  Processes'
<1>1. At(p, "fork") /\ p \in Pid /\ Live(p) /\ DOMAIN proc[p] = Fields /\ Table
  BY ChildAt DEF PipeFork, IInv
<1>2. CASE ForkSucceeds(p, "right", "left")
  BY <1>1, <1>2, ProcessForks DEF ForkSucceeds
<1>3. CASE ForkFails(p, "right")
  <2> DEFINE r == [proc[p] EXCEPT !.pc = "right"]
  <2>1. proc' = [proc EXCEPT ![p] = r] /\ file' = file
    BY <1>1, <1>3, Zenon DEF ForkFails, Table
  <2>2. r.st = proc[p].st /\ r.parent = proc[p].parent /\ r.fd = proc[p].fd
    BY <1>1, Zenon DEF Fields
  <2> HIDE DEF r
  <2>3. r.st = "live" /\ DOMAIN file \subseteq DOMAIN file'
        /\ \A m \in DOMAIN r.fd : Names(r.fd[m], DOMAIN file')
    <3>1. r.st = "live"
      BY <1>1, <2>2 DEF Live
    <3> QED BY <3>1, <2>1, <2>2, ChildNames, Zenon
  <2> QED BY <1>1, <2>1, <2>2, <2>3, ProcessGoesOn, Zenon
<1> QED
  BY <1>2, <1>3 DEF PipeFork, Fork1

LEMMA RuncmdKeepsProcesses ==
    ASSUME IInv, Processes, NEW p \in Child, Runcmd(p)
    PROVE  Processes'
<1>0. p \in Pid /\ Table
  BY Pids DEF IInv
<1>1. CASE ParseFails(p) \/ NothingToRun(p) \/ ExecFails(p) \/ RedirOpenFails(p) \/ PipeFails(p)
  <2>1. proc' = ExitTable(p) /\ file' = file
    BY <1>1, Zenon DEF ParseFails, NothingToRun, ExecFails, RedirOpenFails, PipeFails, Exit,
                       ExitSaying
  <2> QED BY <1>0, <2>1, ProcessEnds
<1>2. CASE Exec(p)
  <2> DEFINE prog == Program[proc[p].cmd.argv0]
             changed == [proc[p] EXCEPT !.prog = prog, !.cmd = <<>>]
  <2>1. At(p, "runcmd") /\ Goto(p, "program", changed)
    BY <1>2 DEF Exec, Runs
  <2>2. DOMAIN changed = Fields /\ changed.st = proc[p].st
        /\ changed.parent = proc[p].parent /\ changed.fd = proc[p].fd
    <3>1. DOMAIN proc[p] = Fields
      BY <1>0 DEF Table
    <3> QED BY <3>1, Zenon DEF Fields
  <2> HIDE DEF changed
  <2>3. \A m \in DOMAIN changed.fd : Names(changed.fd[m], DOMAIN file)
    BY <2>2, ChildNames, Zenon
  <2> QED BY <2>1, <2>2, <2>3, ChildGoesOn, Zenon
<1>3. CASE RedirClose(p)
  <2>1. At(p, "runcmd")
        /\ Goto(p, "open", [proc[p] EXCEPT !.fd = Without(@, RedirFd(proc[p].cmd.type))])
    BY <1>3 DEF RedirClose, Runs
  <2> QED BY <2>1, ChildClosesOne, Zenon
<1> QED
  BY <1>1, <1>2, <1>3, OpenKeepsProcesses, PipeKeepsProcesses, PipeForkKeepsProcesses,
     SidesKeepProcesses
  DEF Runcmd

\* A program moves on in the file that its descriptor names.
LEMMA NextPosition ==
    ASSUME NEW d, NEW files, Names(d, files), NEW mode \in {"in", "out"}, d.kind = mode
    PROVE  Names(Opened(mode, d.key, d.pos + 1), files)
<1>1. d # tty /\ d.key \in files /\ d.pos \in Nat
  <2>1. tty.kind = "tty"
    BY DEF tty
  <2> QED BY <2>1 DEF Names
<1>2. LET e == Opened(mode, d.key, d.pos + 1)
      IN  e.kind = mode /\ e.key = d.key /\ e.pos = d.pos + 1
  BY Zenon DEF Opened
<1> DEFINE e == Opened(mode, d.key, d.pos + 1)
<1> HIDE DEF e
<1>3. e.kind = mode /\ e.key = d.key /\ e.pos = d.pos + 1
  BY <1>2, Zenon DEF e
<1>4. Names(e, files)
  BY <1>1, <1>3 DEF Names
<1> QED
  BY <1>4 DEF e

LEMMA ProgramKeepsProcesses ==
    ASSUME IInv, Processes, NEW p \in Child, ProgramStep(p)
    PROVE  Processes'
<1>0. At(p, "program") /\ p \in Pid /\ Live(p) /\ DOMAIN proc[p] = Fields /\ Table
  BY ChildAt DEF ProgramStep, ProgramComplains, ProgramWrites, ProgramReads, WantsInput,
                 ProgramEnds, AtWork, IInv
<1>1. ASSUME NEW r, proc' = [proc EXCEPT ![p] = r], DOMAIN file' = DOMAIN file,
             r.st = proc[p].st, r.parent = proc[p].parent,
             \A m \in DOMAIN r.fd : Names(r.fd[m], DOMAIN file)
      PROVE  Processes'
  <2>1. r.st = "live" /\ DOMAIN file \subseteq DOMAIN file'
    BY <1>0, <1>1 DEF Live
  <2>2. \A m \in DOMAIN r.fd : Names(r.fd[m], DOMAIN file')
    BY <1>1, Zenon
  <2> QED BY <1>0, <1>1, <2>1, <2>2, ProcessGoesOn, Zenon
<1>2. 0 \in DOMAIN proc[p].fd /\ 1 \in DOMAIN proc[p].fd
  BY <1>0, ProgramHolds
<1>3. CASE proc' = ExitTable(p) /\ file' = file
  BY <1>0, <1>3, ProcessEnds
<1>4. CASE proc' = [proc EXCEPT ![p] = WroteToken(p)] /\ file' = file
  <2> DEFINE r == WroteToken(p)
  <2>1. r.st = proc[p].st /\ r.parent = proc[p].parent /\ r.fd = proc[p].fd
    BY <1>0, Zenon DEF WroteToken, Fields
  <2>2. proc' = [proc EXCEPT ![p] = r]
    BY <1>4
  <2> HIDE DEF r
  <2>3. DOMAIN file' = DOMAIN file /\ \A m \in DOMAIN r.fd : Names(r.fd[m], DOMAIN file)
    BY <1>4, <2>1, ChildNames, Zenon
  <2> QED BY <1>1, <2>1, <2>2, <2>3, Zenon
<1>5. CASE LET out == Stdout(p)
               t == Head(proc[p].prog.out)
           IN  /\ out.kind = "out"
               /\ file' = [file EXCEPT ![out.key] = WriteAt(@, out.pos, t)]
               /\ proc' = [proc EXCEPT ![p] = [WroteToken(p) EXCEPT
                        !.fd = Put(@, 1, Opened("out", out.key, out.pos + 1))]]
  <2> DEFINE out == Stdout(p)
             d == Opened("out", out.key, out.pos + 1)
             fd == Put(proc[p].fd, 1, d)
             r == [WroteToken(p) EXCEPT !.fd = Put(@, 1, d)]
  <2>1. Names(d, DOMAIN file)
    <3>1. Names(out, DOMAIN file) /\ out.kind = "out"
      BY <1>2, <1>5, ChildNames, Zenon DEF Stdout
    <3> HIDE DEF out
    <3> QED BY <3>1, NextPosition
  <2>2. proc' = [proc EXCEPT ![p] = r] /\ DOMAIN file' = DOMAIN file
    BY <1>5, Zenon
  <2> HIDE DEF d
  <2>3. r.st = proc[p].st /\ r.parent = proc[p].parent /\ r.fd = fd
    BY <1>0, Zenon DEF WroteToken, Fields
  <2>4. \A m \in DOMAIN fd : Names(fd[m], DOMAIN file)
    BY <2>1, ChildNames, PutNames, Zenon
  <2> HIDE DEF r, fd
  <2>5. \A m \in DOMAIN r.fd : Names(r.fd[m], DOMAIN file)
    BY <2>3, <2>4, Zenon
  <2> QED BY <1>1, <2>2, <2>3, <2>5, Zenon
<1>6. CASE file' = file /\ \E t : proc' = [proc EXCEPT ![p] = ReadToken(p, t)]
  <2>1. PICK t : proc' = [proc EXCEPT ![p] = ReadToken(p, t)]
    BY <1>6, Zenon
  <2> DEFINE r == ReadToken(p, t)
  <2>2. r.st = proc[p].st /\ r.parent = proc[p].parent /\ r.fd = proc[p].fd
    BY <1>0, Zenon DEF ReadToken, Fields
  <2>3. proc' = [proc EXCEPT ![p] = r]
    BY <2>1
  <2> HIDE DEF r
  <2>4. DOMAIN file' = DOMAIN file /\ \A m \in DOMAIN r.fd : Names(r.fd[m], DOMAIN file)
    BY <1>6, <2>2, ChildNames, Zenon
  <2> QED BY <1>1, <2>2, <2>3, <2>4, Zenon
<1>7. CASE LET in == Stdin(p)
           IN  /\ in.kind = "in" /\ file' = file
               /\ proc' = [proc EXCEPT ![p] =
                    [ReadToken(p, file[in.key][in.pos + 1]) EXCEPT
                        !.fd = Put(@, 0, Opened("in", in.key, in.pos + 1))]]
  <2> DEFINE in == Stdin(p)
             t == file[in.key][in.pos + 1]
             d == Opened("in", in.key, in.pos + 1)
             fd == Put(proc[p].fd, 0, d)
             r == [ReadToken(p, t) EXCEPT !.fd = Put(@, 0, d)]
  <2>1. Names(d, DOMAIN file)
    <3>1. Names(in, DOMAIN file) /\ in.kind = "in"
      BY <1>2, <1>7, ChildNames, Zenon DEF Stdin
    <3> HIDE DEF in
    <3> QED BY <3>1, NextPosition
  <2>2. proc' = [proc EXCEPT ![p] = r] /\ DOMAIN file' = DOMAIN file
    BY <1>7, Zenon
  <2> HIDE DEF d, t
  <2>3. r.st = proc[p].st /\ r.parent = proc[p].parent /\ r.fd = fd
    BY <1>0, Zenon DEF ReadToken, Fields
  <2>4. \A m \in DOMAIN fd : Names(fd[m], DOMAIN file)
    BY <2>1, ChildNames, PutNames, Zenon
  <2> HIDE DEF r, fd
  <2>5. \A m \in DOMAIN r.fd : Names(r.fd[m], DOMAIN file)
    BY <2>3, <2>4, Zenon
  <2> QED BY <1>1, <2>2, <2>3, <2>5, Zenon
<1>8. CASE ProgramWrites(p)
  BY <1>3, <1>4, <1>5, <1>8, Zenon DEF ProgramWrites
<1>9. CASE ProgramReads(p)
  BY <1>6, <1>7, <1>9, Zenon DEF ProgramReads
<1>10. CASE ProgramEnds(p)
  BY <1>3, <1>10 DEF ProgramEnds, Exit
<1>11. CASE ProgramComplains(p)
  <2> DEFINE r == SaidMessage(p)
  <2>1. r.st = proc[p].st /\ r.parent = proc[p].parent /\ r.fd = proc[p].fd
    BY <1>0, Zenon DEF SaidMessage, Fields
  <2>2. proc' = [proc EXCEPT ![p] = r] /\ file' = file
    BY <1>11, Zenon DEF ProgramComplains
  <2> HIDE DEF r
  <2>3. DOMAIN file' = DOMAIN file /\ \A m \in DOMAIN r.fd : Names(r.fd[m], DOMAIN file)
    BY <2>1, <2>2, ChildNames, Zenon
  <2> QED BY <1>1, <2>1, <2>2, <2>3, Zenon
<1> QED
  BY <1>8, <1>9, <1>10, <1>11 DEF ProgramStep

---------------------------------------------------------------------------
(* The pipes. *)

LEMMA DropOne ==
    ASSUME NEW s, Contents(s), s # <<>>
    PROVE  /\ Contents(Tail(s)) /\ Len(Tail(s)) <= Len(s)
           /\ Len(Tail(s)) \in Nat /\ Len(s) \in Nat
<1>1. PICK S : s \in Seq(S)
  BY DEF Contents
<1>2. Tail(s) \in Seq(S) /\ Len(Tail(s)) = Len(s) - 1 /\ Len(s) \in Nat /\ Len(Tail(s)) \in Nat
  BY <1>1
<1>3. Contents(Tail(s))
  BY <1>2, Zenon DEF Contents
<1> QED
  BY <1>2, <1>3

\* One pipe holds s from now on.
LEMMA PipeChanges ==
    ASSUME PipesBounded, NEW i, NEW s, Contents(s), Len(s) <= PipeCap,
           pipe' = [pipe EXCEPT ![i] = s]
    PROVE  PipesBounded'
<1>1. pipe' = [j \in PipeId |-> pipe'[j]]
  BY Zenon DEF PipesBounded
<1>2. \A j \in PipeId : pipe'[j] = pipe[j] \/ pipe'[j] = s
  BY Zenon DEF PipesBounded
<1> QED
  BY <1>1, <1>2, Zenon DEF PipesBounded

\* A descriptor of a pipe that a program holds.
LEMMA EndOfPipe ==
    ASSUME Processes, NEW p \in Child, NEW n \in DOMAIN proc[p].fd,
           proc[p].fd[n].kind \in {"r", "w"}
    PROVE  proc[p].fd[n].pipe \in PipeId
<1>1. Names(proc[p].fd[n], DOMAIN file)
  BY ChildNames, Zenon
<1>2. proc[p].fd[n] # tty
  BY DEF tty
<1> QED
  BY <1>1, <1>2 DEF Names

LEMMA NextPipes ==
    ASSUME IInv, Processes, PipesBounded, [Next]_vars
    PROVE  PipesBounded'
<1>0. PipeCap \in Nat
  BY BoundsAssumption
<1>1. CASE UNCHANGED pipe
  BY <1>1, Zenon DEF PipesBounded
<1>2. CASE MainStep
  BY <1>1, <1>2 DEF MainStep, EndOfInput, Cd, ReadLine, ForkCommand, Wait, Exit, Fork1,
                    ForkSucceeds, ForkFails
<1>3. ASSUME NEW p \in Child, Runcmd(p)
      PROVE  PipesBounded'
  <2>1. CASE ParseFails(p) \/ NothingToRun(p) \/ Exec(p) \/ ExecFails(p)
    BY <1>1, <2>1, Zenon DEF ParseFails, NothingToRun, Exec, ExecFails, Exit, ExitSaying, Goto
  <2>2. CASE RedirClose(p) \/ RedirOpen(p) \/ RedirOpenFails(p)
    BY <1>1, <2>2, Zenon DEF RedirClose, RedirOpen, RedirOpenFails, ExitSaying, Goto
  <2>3. CASE PipeFails(p) \/ PipeFork(p)
    BY <1>1, <2>3, Zenon DEF PipeFails, PipeFork, Fork1, ForkSucceeds, ForkFails, ExitSaying
  <2>4. CASE LeftSide(p) \/ RightSide(p)
    BY <1>1, <2>4 DEF LeftSide, RightSide, Close, Dup2, CloseAndRun, Goto
  <2>5. CASE Pipe(p)
    <3>1. PICK i \in PipeId : pipe' = [pipe EXCEPT ![i] = <<>>]
      BY <2>5, Zenon DEF Pipe
    <3>2. Contents(<<>>) /\ Len(<<>>) <= PipeCap
      BY <1>0, Nothing
    <3> QED BY <3>1, <3>2, PipeChanges, Zenon
  <2> QED BY <1>3, <2>1, <2>2, <2>3, <2>4, <2>5 DEF Runcmd
<1>4. ASSUME NEW p \in Child, ProgramWrites(p)
      PROVE  PipesBounded'
  <2> DEFINE i == Stdout(p).pipe
             t == Head(proc[p].prog.out)
             s == Append(pipe[i], t)
  <2>1. CASE /\ Stdout(p).kind = "w" /\ Len(pipe[i]) < PipeCap
             /\ pipe' = [pipe EXCEPT ![i] = Append(@, t)]
    <3>1. At(p, "program")
      BY <1>4 DEF ProgramWrites, AtWork
    <3>2. i \in PipeId
      BY <2>1, <3>1, ProgramHolds, EndOfPipe DEF Stdout
    <3> HIDE DEF i, t
    <3>3. pipe' = [pipe EXCEPT ![i] = s]
      BY <2>1
    <3>4. Contents(s) /\ Len(s) <= PipeCap
      <4>1. Contents(pipe[i])
        BY <3>2 DEF PipesBounded
      <4>2. Contents(s) /\ Len(s) = Len(pipe[i]) + 1 /\ Len(pipe[i]) \in Nat
        BY <4>1, AppendOne, Zenon
      <4> HIDE DEF s
      <4> QED BY <1>0, <2>1, <4>2
    <3> HIDE DEF s
    <3> QED BY <3>3, <3>4, PipeChanges, Zenon
  <2> QED BY <1>1, <1>4, <2>1, Zenon DEF ProgramWrites
<1>5. ASSUME NEW p \in Child, ProgramReads(p)
      PROVE  PipesBounded'
  <2> DEFINE i == Stdin(p).pipe
             s == Tail(pipe[i])
  <2>1. CASE /\ Stdin(p).kind = "r" /\ pipe[i] # <<>>
             /\ pipe' = [pipe EXCEPT ![i] = Tail(@)]
    <3>1. At(p, "program")
      BY <1>5 DEF ProgramReads, WantsInput, AtWork
    <3>2. i \in PipeId
      BY <2>1, <3>1, ProgramHolds, EndOfPipe DEF Stdin
    <3> HIDE DEF i
    <3>3. pipe' = [pipe EXCEPT ![i] = s]
      BY <2>1
    <3>4. Contents(s) /\ Len(s) <= PipeCap
      <4>1. Contents(pipe[i]) /\ Len(pipe[i]) <= PipeCap
        BY <3>2 DEF PipesBounded
      <4>2. Contents(s) /\ Len(s) <= Len(pipe[i]) /\ Len(s) \in Nat /\ Len(pipe[i]) \in Nat
        BY <2>1, <4>1, DropOne, Zenon
      <4> HIDE DEF s
      <4> QED BY <1>0, <4>1, <4>2
    <3> HIDE DEF s
    <3> QED BY <3>3, <3>4, PipeChanges, Zenon
  <2> QED BY <1>1, <1>5, <2>1, Zenon DEF ProgramReads
<1>6. ASSUME NEW p \in Child, ProgramEnds(p) \/ ProgramComplains(p)
      PROVE  PipesBounded'
  BY <1>1, <1>6, Zenon DEF ProgramEnds, ProgramComplains, Exit
<1>7. CASE UNCHANGED vars
  BY <1>1, <1>7 DEF vars
<1> QED
  BY <1>2, <1>3, <1>4, <1>5, <1>6, <1>7 DEF Next, Step, ProgramStep

LEMMA NextFailures ==
    ASSUME failures \in Nat, [Next]_vars
    PROVE  failures' \in Nat
<1>1. CASE failures' = failures \/ failures' = failures + 1
  BY <1>1
<1>2. CASE MainStep
  BY <1>2 DEF MainStep, EndOfInput, Cd, ReadLine, ForkCommand, Wait, Exit, Fork1,
              ForkSucceeds, ForkFails
<1>3. ASSUME NEW p \in Child, Runcmd(p)
      PROVE  failures' \in Nat
  <2>1. CASE ParseFails(p) \/ NothingToRun(p) \/ Exec(p) \/ ExecFails(p)
    BY <1>1, <2>1, Zenon DEF ParseFails, NothingToRun, Exec, ExecFails, Exit, Goto
  <2>2. CASE RedirClose(p) \/ RedirOpen(p) \/ RedirOpenFails(p)
    BY <1>1, <2>2, Zenon DEF RedirClose, RedirOpen, RedirOpenFails, FailsAnyhow, Goto
  <2>3. CASE Pipe(p) \/ PipeFails(p) \/ PipeFork(p)
    BY <1>1, <2>3, Zenon DEF Pipe, PipeFails, PipeFork, Fork1, ForkSucceeds, ForkFails,
                             FailsAnyhow
  <2>4. CASE LeftSide(p) \/ RightSide(p)
    BY <1>1, <2>4 DEF LeftSide, RightSide, Close, Dup2, CloseAndRun, Goto
  <2> QED BY <1>3, <2>1, <2>2, <2>3, <2>4 DEF Runcmd
<1>4. ASSUME NEW p \in Child, ProgramStep(p)
      PROVE  failures' \in Nat
  BY <1>1, <1>4, Zenon DEF ProgramStep, ProgramComplains, ProgramWrites, ProgramReads,
                           ProgramEnds, Exit
<1>5. CASE UNCHANGED vars
  BY <1>1, <1>5 DEF vars
<1> QED
  BY <1>2, <1>3, <1>4, <1>5 DEF Next, Step

LEMMA InitTInv == ASSUME Init PROVE TInv
<1>0. Unused.st = "unused" /\ Unused.parent = init /\ Unused.pc = "none" /\ Unused.fd = <<>>
  BY DEF Unused
<1> DEFINE shell == [Unused EXCEPT !.st = "live", !.pc = "getcmd",
                                   !.fd = [n \in 0 .. 2 |-> tty]]
<1>1. shell.st = "live" /\ shell.parent = init /\ shell.fd = [n \in 0 .. 2 |-> tty]
  BY <1>0, Zenon DEF Unused
<1>2. \A p \in Pid : proc[p] = shell \/ proc[p] = Unused
  BY Zenon DEF Init
<1> HIDE DEF shell
<1>3. EndedAreEmpty
  BY <1>0, <1>1, <1>2 DEF EndedAreEmpty, Live
<1>4. ParentsLive
  BY <1>0, <1>1, <1>2 DEF ParentsLive
<1>5. DescriptorsName
  <2> SUFFICES ASSUME NEW p \in Pid, NEW n \in DOMAIN proc[p].fd
               PROVE  proc[p].fd[n] = tty
    BY DEF DescriptorsName, FdsOf, Names
  <2>1. proc[p].fd # <<>>
    OBVIOUS
  <2> QED BY <1>0, <1>1, <1>2, <2>1
<1>6. PipesBounded
  <2>1. pipe = [i \in PipeId |-> pipe[i]] /\ \A i \in PipeId : pipe[i] = <<>>
    BY Zenon DEF Init
  <2>2. Contents(<<>>) /\ Len(<<>>) <= PipeCap
    BY BoundsAssumption, Nothing
  <2> QED BY <2>1, <2>2, Zenon DEF PipesBounded
<1> QED
  BY <1>3, <1>4, <1>5, <1>6 DEF TInv, Processes, Init

LEMMA NextTInv == ASSUME IInv, TInv, [Next]_vars PROVE TInv'
<1>1. Processes'
  <2>1. CASE MainStep
    BY <2>1, MainKeepsProcesses DEF TInv
  <2>2. CASE \E p \in Child : Step(p)
    BY <2>2, RuncmdKeepsProcesses, ProgramKeepsProcesses DEF TInv, Step
  <2>3. CASE UNCHANGED vars
    BY <2>3, SameKeepsProcesses DEF vars, TInv
  <2> QED BY <2>1, <2>2, <2>3 DEF Next
<1>2. PipesBounded'
  BY NextPipes DEF TInv
<1>3. failures' \in Nat
  BY NextFailures DEF TInv
<1> QED
  BY <1>1, <1>2, <1>3 DEF TInv

\* Five descriptors are enough, in every process.
LEMMA FewDescriptors ==
    ASSUME IInv, TInv, NEW p \in Pid
    PROVE  FdsOf(p) \subseteq 0 .. 4 /\ proc[p].pc \in Labels
<1>1. CASE ~Live(p)
  <2>1. proc[p].fd = <<>> /\ proc[p].pc = "none"
    BY <1>1 DEF TInv, Processes, EndedAreEmpty
  <2> QED BY <2>1 DEF FdsOf, Labels
<1>2. CASE Live(p) /\ p = main
  <2>1. proc[p].fd = [n \in 0 .. 2 |-> tty] /\ proc[p].pc \in {"getcmd", "fork", "wait"}
    BY <1>2 DEF IInv, MainHoldsStdio
  <2>2. FdsOf(p) \subseteq 0 .. 4
    BY <2>1 DEF FdsOf
  <2> QED BY <2>1, <2>2 DEF Labels
<1>3. CASE Live(p) /\ p \in Child
  <2>1. HoldsAt(proc[p].pc, proc[p].cmd, proc[p].fd, proc[p].pfd)
    BY <1>3 DEF IInv, ChildrenDisciplined, Disciplined
  <2>2. proc[p].pc \in ChildLabels
    BY <2>1 DEF HoldsAt
  <2>3. DOMAIN proc[p].fd \subseteq {0, 1, 2, 3, 4}
    BY <2>1 DEF HoldsAt, ChildLabels
  <2>4. FdsOf(p) \subseteq 0 .. 4
    BY <2>3 DEF FdsOf
  <2>5. proc[p].pc \in Labels
    BY <2>2 DEF Labels, ChildLabels
  <2> QED BY <2>4, <2>5
<1> QED
  BY <1>1, <1>2, <1>3, Pids

\* For every session, set of programs, size of the process table and of a
\* pipe: descriptors name pipes and files that exist, a process below the
\* shell has a parent that is still there, or init, no pipe holds more than it
\* can, and five descriptors are enough however long a pipeline.
THEOREM TablesTyped == Spec => []TypeOK
<1>1. Init => TInv
  BY InitTInv
<1>2. IInv /\ TInv /\ [Next]_vars => TInv'
  BY NextTInv
<1>3. IInv /\ TInv => TypeOK
  <2> SUFFICES ASSUME IInv, TInv PROVE TypeOK
    OBVIOUS
  <2>1. \A p \in Pid : proc[p].st \in {"unused", "live", "zombie"}
    BY DEF TInv, Processes, EndedAreEmpty, Live
  <2>2. \A p \in Pid : proc[p].parent # init => Live(proc[p].parent)
    BY DEF TInv, Processes, ParentsLive, Live
  <2>3. \A p \in Pid : \A n \in FdsOf(p) :
            LET d == proc[p].fd[n]
            IN  \/ d = tty
                \/ d.kind \in {"r", "w"} /\ d.pipe \in PipeId
                \/ d.kind \in {"in", "out"} /\ d.key \in DOMAIN file /\ d.pos \in Nat
    BY Zenon DEF TInv, Processes, DescriptorsName, Names
  <2>4. failures \in Nat /\ \A i \in PipeId : Len(pipe[i]) <= PipeCap
    BY DEF TInv, PipesBounded
  <2> QED BY <2>1, <2>2, <2>3, <2>4, FewDescriptors, Zenon DEF TypeOK
<1> QED
  BY <1>1, <1>2, <1>3, AlwaysIInv, PTL DEF Spec

---------------------------------------------------------------------------
(* How main gets its lines: ShellInput.                                    *)

\* Every BUFSIZ characters of the input in a row hold a newline.
LinesFit == \A i \in BUFSIZ .. Len(text) : \E j \in i - BUFSIZ + 1 .. i : text[j] = "\n"

Chars == Seq(STRING)
Sharers == [fate : Fate, unread : Chars]

IType ==
    /\ text \in Chars /\ kind \in Kinds /\ offset \in 0 .. Len(text)
    /\ unread \in Chars /\ Len(unread) <= BUFSIZ
    /\ line \in Chars /\ Len(line) < nbuf
    /\ buf \in Chars /\ Len(buf) < nbuf
    /\ child \in Sharers \cup {None}
    /\ strays \in Seq(Sharers) /\ Len(strays) <= MaxStrays
    /\ pc \in {"getcmd", "fgets", "main", "wait", "done"}

\* Where the piece of number m begins of a line that begins at s.
Cut(s, m) == s + m * (nbuf - 1)

AtBoundary == offset = 0 \/ offset = Len(text) \/ text[offset] = "\n" \/ offset \in breaks

\* What fgets has and what stdio has is the rest of a line, from a cut on.
HoldsRest ==
    \/ line = <<>> /\ unread = <<>>
    \/ \E s, m \in 0 .. Len(text), e \in 1 .. Len(text) :
          /\ IsLine(s, e) /\ e <= offset /\ Cut(s, m) < e
          /\ line \o unread = SubSeq(text, Cut(s, m) + 1, e)

IsPiece ==
    \E s, m \in 0 .. Len(text), e \in 1 .. Len(text) :
        IsLine(s, e) /\ e <= offset /\ Cut(s, m) < e /\ buf = CString(Piece(s, e, m))

TtyInv ==
    /\ AtBoundary /\ HoldsRest
    /\ pc # "fgets" => unread = <<>> \/ Complete(line)
    /\ pc = "fgets" => buf = <<>>
    /\ pc = "main" /\ buf # <<>> => IsPiece

InputInv == IType /\ (kind = "tty" /\ LinesFit => TtyInv)

---------------------------------------------------------------------------
(* Least elements. *)

LEMMA LeastIs ==
  ASSUME NEW T, T \subseteq Nat, T # {}
  PROVE  Least(T) \in T /\ \A y \in T : Least(T) <= y
<1> DEFINE R == OpToRel(<, Nat)
<1>1. IsWellFoundedOn(R, Nat)
  BY NatLessThanWellFounded
<1>2. \A x, y \in Nat : x < y => <<x, y>> \in R
  BY DEF OpToRel
<1> HIDE DEF R
<1>3. PICK x \in T : \A y \in T : ~ (<<y, x>> \in R)
  BY <1>1, WFMin
<1>a. \A y \in T : ~ (y < x)
  BY <1>2, <1>3
<1>4. \A y \in T : x <= y
  BY <1>a
<1>5. \E z \in T : \A y \in T : z <= y
  BY <1>4
<1> QED
  BY <1>5 DEF Least

LEMMA LeastOfTwo ==
  ASSUME NEW a \in Nat, NEW c \in Nat
  PROVE  Least({a, c}) = IF a <= c THEN a ELSE c
<1>1. {a, c} \subseteq Nat /\ {a, c} # {}
  OBVIOUS
<1>2. Least({a, c}) \in {a, c} /\ Least({a, c}) <= a /\ Least({a, c}) <= c
  BY <1>1, LeastIs
<1> QED
  BY <1>2

\* A piece is nbuf - 1 characters long, but for the last.
LEMMA CutNext ==
  ASSUME NEW s \in Nat, NEW m \in Nat
  PROVE  /\ Cut(s, m) \in Nat /\ s <= Cut(s, m) /\ m <= Cut(s, m)
         /\ Cut(s, m + 1) = Cut(s, m) + (nbuf - 1)
<1> DEFINE w == nbuf - 1
           d == nbuf - 2
<1>1. w \in Nat /\ d \in Nat /\ w = d + 1
  BY BuffersAssumption
<1> HIDE DEF w, d
<1>2. m * d \in Nat /\ m * w = m * d + m /\ (m + 1) * w = m * w + w
  BY <1>1
<1>3. Cut(s, m) = s + m * w /\ Cut(s, m + 1) = s + (m + 1) * w
  BY DEF Cut, w
<1> QED
  BY <1>1, <1>2, <1>3 DEF w

LEMMA FirstCut == ASSUME NEW s \in Nat PROVE Cut(s, 0) = s
BY BuffersAssumption DEF Cut

---------------------------------------------------------------------------
(* What fgets takes, what a read returns, and what a string is. *)

LEMMA LineHasPlace ==
  ASSUME IType, ~Complete(line)
  PROVE  Len(line) \in 0 .. nbuf - 2
BY BuffersAssumption DEF IType, Chars, Complete

LEMMA TakenIs ==
  ASSUME IType, unread # <<>>, ~Complete(line)
  PROVE  /\ Taken \in 1 .. Len(unread) /\ Len(line) + Taken <= nbuf - 1
<1> DEFINE T == {k \in 1 .. Len(unread) :
                k = Len(unread) \/ unread[k] = "\n" \/ Len(line) + k = nbuf - 1}
<1>1. Len(unread) \in Nat \ {0}
  BY DEF IType, Chars
<1>2. Len(unread) \in T /\ T \subseteq Nat
  BY <1>1
<1>3. Taken = Least(T)
  BY DEF Taken
<1>4. Least(T) \in T /\ \A y \in T : Least(T) <= y
  BY <1>2, LeastIs
<1>5. Len(line) \in 0 .. nbuf - 2 /\ nbuf \in Nat
  BY LineHasPlace, BuffersAssumption
<1>6. nbuf - 1 - Len(line) <= Len(unread) => nbuf - 1 - Len(line) \in T
  BY <1>1, <1>5
<1>7. Taken \in 1 .. Len(unread)
  BY <1>3, <1>4
<1>8. CASE nbuf - 1 - Len(line) <= Len(unread)
  <2>1. Taken <= nbuf - 1 - Len(line)
    BY <1>3, <1>4, <1>6, <1>8
  <2> QED BY <1>1, <1>5, <1>7, <2>1
<1>9. CASE ~ (nbuf - 1 - Len(line) <= Len(unread))
  BY <1>1, <1>5, <1>7, <1>9
<1> QED
  BY <1>8, <1>9

LEMMA AmountsAre ==
  ASSUME IType, offset < Len(text), NEW k \in Amounts
  PROVE  /\ k \in 1 .. BUFSIZ /\ offset + k <= Len(text)
         /\ kind = "tty" /\ LinesFit =>
               /\ offset + k = Len(text) \/ text[offset + k] = "\n"
               /\ \A j \in offset + 1 .. offset + k - 1 : text[j] # "\n"
<1> DEFINE left == Len(text) - offset
           full == Least({BUFSIZ, left})
           newline == {i \in 1 .. full : text[offset + i] = "\n"}
<1>1. Len(text) \in Nat /\ offset \in Nat /\ left \in Nat \ {0} /\ BUFSIZ \in Nat \ {0}
  BY BuffersAssumption DEF IType, Chars
<1>2. full = IF BUFSIZ <= left THEN BUFSIZ ELSE left
  BY <1>1, LeastOfTwo
<1>3. full \in 1 .. BUFSIZ /\ full <= left
  BY <1>1, <1>2
<1>4. k \in CASE kind = "file" -> {full}
          [] kind = "tty"  -> {IF newline = {} THEN full ELSE Least(newline)}
          [] kind = "pipe" -> 1 .. full
  BY DEF Amounts
<1>5. kind \in {"tty", "pipe", "file"}
  BY DEF IType, Kinds
<1> HIDE DEF full, left
<1>6. newline # {} => Least(newline) \in newline /\ \A y \in newline : Least(newline) <= y
  <2>1. newline \subseteq Nat
    OBVIOUS
  <2> HIDE DEF newline
  <2> QED BY <2>1, LeastIs
<1>7. kind = "tty" => k = IF newline = {} THEN full ELSE Least(newline)
  BY <1>4
<1>8. kind # "tty" => k \in 1 .. full
  BY <1>3, <1>4, <1>5
<1>9. kind = "tty" => k \in 1 .. full
  BY <1>3, <1>6, <1>7
<1>10. k \in 1 .. full
  BY <1>8, <1>9
<1>11. k \in 1 .. BUFSIZ /\ offset + k <= Len(text)
  BY <1>1, <1>3, <1>10 DEF left
<1>12. ASSUME kind = "tty", LinesFit
       PROVE  /\ offset + k = Len(text) \/ text[offset + k] = "\n"
              /\ \A j \in offset + 1 .. offset + k - 1 : text[j] # "\n"
  <2>1. CASE newline = {}
    <3>1. k = full /\ \A i \in 1 .. full : text[offset + i] # "\n"
      BY <1>7, <1>12, <2>1
    <3>2. \A j \in offset + 1 .. offset + full : text[j] # "\n"
      <4> SUFFICES ASSUME NEW j \in offset + 1 .. offset + full PROVE text[j] # "\n"
        OBVIOUS
      <4>1. j - offset \in 1 .. full /\ offset + (j - offset) = j
        BY <1>1, <1>3
      <4> QED BY <3>1, <4>1
    <3>3. full = left
      <4> SUFFICES ASSUME full # left PROVE FALSE
        OBVIOUS
      <4>1. full = BUFSIZ /\ BUFSIZ < left
        BY <1>1, <1>2
      <4>2. offset + BUFSIZ \in BUFSIZ .. Len(text)
        BY <1>1, <4>1 DEF left
      <4>3. PICK j \in (offset + BUFSIZ) - BUFSIZ + 1 .. offset + BUFSIZ : text[j] = "\n"
        BY <1>12, <4>2 DEF LinesFit
      <4>4. j \in offset + 1 .. offset + full
        BY <1>1, <4>1, <4>3
      <4> QED BY <3>2, <4>3, <4>4
    <3>4. offset + k = Len(text)
      BY <1>1, <3>1, <3>3 DEF left
    <3>5. \A j \in offset + 1 .. offset + k - 1 : text[j] # "\n"
      BY <1>1, <1>3, <3>1, <3>2
    <3> QED BY <3>4, <3>5
  <2>2. CASE newline # {}
    <3>1. k \in newline /\ \A y \in newline : k <= y
      BY <1>6, <1>7, <1>12, <2>2
    <3>2. text[offset + k] = "\n"
      BY <3>1
    <3>3. \A j \in offset + 1 .. offset + k - 1 : text[j] # "\n"
      <4> SUFFICES ASSUME NEW j \in offset + 1 .. offset + k - 1, text[j] = "\n" PROVE FALSE
        OBVIOUS
      <4>1. j - offset \in 1 .. full /\ offset + (j - offset) = j /\ ~ (k <= j - offset)
        BY <1>1, <1>3, <1>10
      <4>2. j - offset \in newline
        BY <4>1
      <4> QED BY <3>1, <4>1, <4>2
    <3> QED BY <3>2, <3>3
  <2> QED BY <2>1, <2>2
<1> QED
  BY <1>11, <1>12

LEMMA CStringIs ==
  ASSUME NEW l \in Chars
  PROVE  CString(l) \in Chars /\ Len(CString(l)) <= Len(l)
<1> DEFINE T == {i \in 1 .. Len(l) + 1 : i = Len(l) + 1 \/ l[i] = NUL}
           n == Least(T)
<1>1. Len(l) \in Nat
  BY DEF Chars
<1>2. T \subseteq Nat /\ Len(l) + 1 \in T
  BY <1>1
<1>3. n \in T
  <2> HIDE DEF T
  <2> QED BY <1>2, LeastIs
<1>4. n \in 1 .. Len(l) + 1
  BY <1>3
<1>5. CString(l) = SubSeq(l, 1, n - 1)
  BY DEF CString
<1> HIDE DEF n
<1>6. n - 1 \in 0 .. Len(l)
  BY <1>1, <1>4
<1> QED
  BY <1>5, <1>6 DEF Chars

---------------------------------------------------------------------------
(* The types. *)

LEMMA NoneIs == None.unread \in Chars /\ None.fate = "none"
BY DEF None, Chars

LEMMA ProcessTypes ==
  ASSUME IType
  PROVE  /\ child.unread \in Chars
         /\ \A i \in DOMAIN strays : strays[i] \in Sharers /\ strays[i].unread \in Chars
<1>1. \A q \in Sharers : q.unread \in Chars
  BY DEF Sharers
<1>2. child \in Sharers \cup {None} /\ strays \in Seq(Sharers)
  BY DEF IType
<1>3. child.unread \in Chars
  BY <1>1, <1>2, NoneIs
<1>4. \A i \in DOMAIN strays : strays[i] \in Sharers
  BY <1>2
<1> QED
  BY <1>1, <1>3, <1>4

\* What main does, and leaves.
LEMMA MainTypes ==
  ASSUME IType, UNCHANGED <<source, child, strays>>,
         offset' \in 0 .. Len(text), unread' \in Chars, Len(unread') <= BUFSIZ,
         line' \in Chars, Len(line') < nbuf, buf' \in Chars, Len(buf') < nbuf,
         pc' \in {"getcmd", "fgets", "main", "wait", "done"}
  PROVE  IType'
BY Zenon DEF IType, source

\* What the other processes do.
LEMMA OtherTypes ==
  ASSUME IType, UNCHANGED <<source, unread, buf, line, pc>>,
         offset' \in 0 .. Len(text), child' \in Sharers \cup {None},
         strays' \in Seq(Sharers), Len(strays') <= MaxStrays
  PROVE  IType'
BY Zenon DEF IType, source

LEMMA BuffersAre ==
  ASSUME IType
  PROVE  /\ text \in Chars /\ unread \in Chars /\ line \in Chars /\ buf \in Chars
         /\ offset \in 0 .. Len(text) /\ Len(text) \in Nat
         /\ Len(unread) <= BUFSIZ /\ Len(line) < nbuf /\ Len(buf) < nbuf
BY DEF IType, Chars

LEMMA GetcmdTypes == ASSUME IType, Getcmd PROVE IType'
<1>1. <<>> \in Chars /\ Len(<<>>) < nbuf
  BY BuffersAssumption DEF Chars
<1> QED
  BY <1>1, BuffersAre, MainTypes DEF Getcmd, Others

LEMMA TakeTypes == ASSUME IType, Take PROVE IType'
<1>1. /\ Taken \in 1 .. Len(unread) /\ Len(line) + Taken <= nbuf - 1
      /\ unread \in Seq(STRING) /\ line \in Seq(STRING) /\ Len(unread) <= BUFSIZ
  BY TakenIs, BuffersAre DEF Take, Chars
<1>2. line' = line \o SubSeq(unread, 1, Taken) /\ unread' = SubSeq(unread, Taken + 1, Len(unread))
  BY DEF Take
<1>3. Len(line) \in Nat /\ Len(unread) \in Nat /\ BUFSIZ \in Nat /\ nbuf \in Nat
  BY <1>1, BuffersAssumption
<1> DEFINE k == Taken
<1> HIDE DEF k
<1>4. SubSeq(unread, 1, k) \in Seq(STRING) /\ Len(SubSeq(unread, 1, k)) = k
  BY <1>1, <1>3 DEF k
<1>5. line' \in Chars /\ Len(line') = Len(line) + k
  BY <1>1, <1>2, <1>4 DEF Chars, k
<1>6. unread' \in Chars /\ Len(unread') = Len(unread) - k
  BY <1>1, <1>2, <1>3 DEF Chars, k
<1>7. Len(line') < nbuf /\ Len(unread') <= BUFSIZ
  BY <1>1, <1>3, <1>5, <1>6 DEF k
<1>8. pc' \in {"getcmd", "fgets", "main", "wait", "done"}
  BY DEF Take
<1> QED
  BY <1>5, <1>6, <1>7, <1>8, BuffersAre, MainTypes DEF Take, Others

LEMMA RefillTypes == ASSUME IType, Refill PROVE IType'
<1>1. PICK k \in Amounts : /\ unread' = SubSeq(text, offset + 1, offset + k)
                           /\ offset' = offset + k
  BY DEF Refill
<1>2. k \in 1 .. BUFSIZ /\ offset + k <= Len(text)
  BY AmountsAre DEF Refill
<1>3. text \in Seq(STRING) /\ offset \in Nat /\ BUFSIZ \in Nat /\ Len(text) \in Nat
  BY BuffersAre, BuffersAssumption DEF Chars
<1>4. unread' \in Chars /\ Len(unread') = k
  BY <1>1, <1>2, <1>3 DEF Chars
<1>5. offset' \in 0 .. Len(text) /\ Len(unread') <= BUFSIZ
  BY <1>1, <1>2, <1>3, <1>4
<1>6. pc' \in {"getcmd", "fgets", "main", "wait", "done"}
  BY DEF Refill
<1> QED
  BY <1>4, <1>5, <1>6, BuffersAre, MainTypes DEF Refill, source

LEMMA FgetsReturnsTypes == ASSUME IType, FgetsReturns PROVE IType'
<1>1. CString(line) \in Chars /\ Len(CString(line)) <= Len(line)
  BY CStringIs, BuffersAre
<1>2. Len(line) \in Nat /\ Len(CString(line)) \in Nat /\ nbuf \in Nat /\ Len(line) < nbuf
  BY <1>1, BuffersAre, BuffersAssumption DEF Chars
<1>3. Len(CString(line)) < nbuf
  BY <1>1, <1>2
<1>4. buf' = IF line = <<>> THEN buf ELSE CString(line)
  BY DEF FgetsReturns
<1>5. buf' \in Chars /\ Len(buf') < nbuf
  BY <1>1, <1>3, <1>4, BuffersAre
<1> QED
  BY <1>5, BuffersAre, MainTypes DEF FgetsReturns

LEMMA MainLabelTypes ==
  ASSUME IType, NoMoreLines \/ CdLine \/ WaitForChild
  PROVE  IType'
BY BuffersAre, MainTypes DEF NoMoreLines, CdLine, WaitForChild, Others

LEMMA ForkLineTypes == ASSUME IType, ForkLine PROVE IType'
<1>1. /\ UNCHANGED <<source, offset, unread, buf, line>> /\ pc' = "wait"
      /\ child' \in Sharers \cup {None}
      /\ strays' \in Seq(Sharers) /\ Len(strays') <= MaxStrays
  <2>0. \A fate \in Fate : Process(fate) \in Sharers
    BY BuffersAre DEF Process, Sharers
  <2>1. strays \in Seq(Sharers) /\ Len(strays) <= MaxStrays
    BY DEF IType
  <2>2. \A q \in Sharers : Len(strays) < MaxStrays =>
            Append(strays, q) \in Seq(Sharers) /\ Len(Append(strays, q)) <= MaxStrays
    BY <2>1, BuffersAssumption
  <2>3. PICK cmd \in {Parse(buf)} :
           \/ child' = None /\ UNCHANGED strays
           \/ /\ \E fate \in Fate : EndsAs(cmd, fate) /\ child' = Process(fate)
              /\ UNCHANGED strays
           \/ /\ cmd.type = "|"
              /\ Len(strays) < MaxStrays
              /\ child' = Process("other")
              /\ \E fate \in Fate :
                   EndsAs(cmd.left, fate) /\ strays' = Append(strays, Process(fate))
    BY Zenon DEF ForkLine
  <2>4. CASE child' = None /\ UNCHANGED strays
    BY <2>1, <2>4 DEF ForkLine
  <2>5. CASE /\ \E fate \in Fate : EndsAs(cmd, fate) /\ child' = Process(fate)
             /\ UNCHANGED strays
    BY <2>0, <2>1, <2>5 DEF ForkLine
  <2>6. CASE /\ Len(strays) < MaxStrays
             /\ child' = Process("other")
             /\ \E fate \in Fate :
                   EndsAs(cmd.left, fate) /\ strays' = Append(strays, Process(fate))
    <3>1. PICK fate \in Fate : strays' = Append(strays, Process(fate))
      BY <2>6
    <3>2. "other" \in Fate
      BY DEF Fate
    <3> QED BY <2>0, <2>2, <2>6, <3>1, <3>2 DEF ForkLine
  <2> QED BY <2>3, <2>4, <2>5, <2>6, Zenon
<1> QED
  BY <1>1, Zenon DEF IType, source

\* No seek and no read leaves the file.
LEMMA EndsInFile ==
  ASSUME IType, NEW q, q.unread \in Chars, Ends(q)
  PROVE  offset' \in 0 .. Len(text) /\ (kind = "tty" => offset' = offset)
<1>1. offset \in 0 .. Len(text) /\ Len(text) \in Nat /\ Len(q.unread) \in Nat
  BY BuffersAre DEF Chars
<1>2. offset' = IF q.fate = "exit" /\ kind = "file" /\ q.unread # <<>> /\ offset >= Len(q.unread)
                THEN offset - Len(q.unread) ELSE offset
  BY DEF Ends
<1> QED
  BY <1>1, <1>2

LEMMA ReadsInFile ==
  ASSUME IType, NEW q, Reads(q)
  PROVE  /\ offset' \in 0 .. Len(text) /\ offset <= offset'
         /\ breaks' = (breaks \ {offset}) \cup {offset'}
         /\ UNCHANGED <<child, strays>>
<1>1. PICK k \in Asked : offset' = offset + k /\ breaks' = (breaks \ {offset}) \cup {offset + k}
  BY DEF Reads
<1>2. k \in 1 .. Len(text) - offset
  BY DEF Asked
<1>3. offset \in 0 .. Len(text) /\ Len(text) \in Nat
  BY BuffersAre
<1>4. offset' \in 0 .. Len(text) /\ offset <= offset'
  BY <1>1, <1>2, <1>3
<1> QED
  BY <1>1, <1>4 DEF Reads

LEMMA ChildRunsTypes == ASSUME IType, ChildRuns PROVE IType'
<1>1. UNCHANGED <<source, unread, buf, line, pc>>
  BY DEF ChildRuns
<1>2. child \in Sharers \cup {None} /\ strays \in Seq(Sharers) /\ Len(strays) <= MaxStrays
  BY DEF IType
<1>3. CASE Ends(child) /\ child' = None /\ UNCHANGED strays
  <2>1. offset' \in 0 .. Len(text)
    BY <1>3, ProcessTypes, EndsInFile
  <2> QED BY <1>1, <1>2, <1>3, <2>1, OtherTypes
<1>4. CASE Reads(child)
  <2>1. offset' \in 0 .. Len(text) /\ UNCHANGED <<child, strays>>
    BY <1>4, ReadsInFile DEF Reads
  <2> QED BY <1>1, <1>2, <2>1, OtherTypes
<1> QED
  BY <1>3, <1>4 DEF ChildRuns

LEMMA DroppedIs ==
  ASSUME NEW S, NEW s \in Seq(S), NEW i \in 1 .. Len(s)
  PROVE  Dropped(s, i) \in Seq(S) /\ Len(Dropped(s, i)) = Len(s) - 1
<1> DEFINE before == SubSeq(s, 1, i - 1)
           after == SubSeq(s, i + 1, Len(s))
<1>1. Len(s) \in Nat /\ i \in Nat
  OBVIOUS
<1>2. before \in Seq(S) /\ Len(before) = i - 1
  BY <1>1
<1>3. after \in Seq(S) /\ Len(after) = Len(s) - i
  BY <1>1
<1>4. Dropped(s, i) = before \o after
  BY DEF Dropped
<1> HIDE DEF before, after
<1>5. before \o after \in Seq(S) /\ Len(before \o after) = Len(before) + Len(after)
  BY <1>2, <1>3
<1> QED
  BY <1>1, <1>2, <1>3, <1>4, <1>5

LEMMA StrayTypes == ASSUME IType, NEW i \in 1 .. MaxStrays, Stray(i) PROVE IType'
<1>1. UNCHANGED <<source, unread, buf, line, pc>> /\ i \in DOMAIN strays
  BY DEF Stray
<1>2. child \in Sharers \cup {None} /\ strays \in Seq(Sharers) /\ Len(strays) <= MaxStrays
  BY DEF IType
<1>3. CASE Ends(strays[i]) /\ strays' = Dropped(strays, i) /\ UNCHANGED child
  <2>1. offset' \in 0 .. Len(text)
    BY <1>1, <1>3, ProcessTypes, EndsInFile
  <2>2. Len(strays) \in Nat /\ i \in 1 .. Len(strays)
    BY <1>1, <1>2
  <2>4. Dropped(strays, i) \in Seq(Sharers) /\ Len(Dropped(strays, i)) = Len(strays) - 1
    BY <1>2, <2>2, DroppedIs
  <2>5. strays' \in Seq(Sharers) /\ Len(strays') <= MaxStrays
    BY <1>2, <1>3, <2>2, <2>4, BuffersAssumption
  <2> QED BY <1>1, <1>2, <1>3, <2>1, <2>5, OtherTypes
<1>4. CASE Reads(strays[i])
  <2>1. offset' \in 0 .. Len(text) /\ UNCHANGED <<child, strays>>
    BY <1>4, ReadsInFile DEF Reads
  <2> QED BY <1>1, <1>2, <2>1, OtherTypes
<1> QED
  BY <1>3, <1>4 DEF Stray

---------------------------------------------------------------------------
(* Lines of a terminal. *)

LEMMA SourceStays ==
  ASSUME UNCHANGED source
  PROVE  kind' = kind /\ text' = text /\ (LinesFit' <=> LinesFit)
BY DEF source, LinesFit

LEMMA LinesAre ==
  ASSUME UNCHANGED <<source, breaks>>
  PROVE  /\ kind' = kind /\ text' = text /\ (LinesFit' <=> LinesFit)
         /\ \A s, e : IsLine(s, e)' <=> IsLine(s, e)
BY DEF source, LinesFit, IsLine

LEMMA PieceStays ==
  ASSUME UNCHANGED <<source, offset, buf, breaks>>, IsPiece
  PROVE  IsPiece'
BY DEF source, IsPiece, IsLine, Piece

\* A step of main between two lines, which leaves the input.
LEMMA RestStays ==
  ASSUME IType, UNCHANGED <<source, offset, unread, line, breaks>>
  PROVE  (AtBoundary => AtBoundary') /\ (HoldsRest => HoldsRest')
<1>1. AtBoundary => AtBoundary'
  BY LinesAre DEF AtBoundary
<1>2. HoldsRest => HoldsRest'
  <2>1. text' = text /\ \A s, e : IsLine(s, e)' <=> IsLine(s, e)
    BY LinesAre
  <2> QED BY <2>1 DEF HoldsRest
<1> QED
  BY <1>1, <1>2

LEMMA MainLabelLines ==
  ASSUME IType, TtyInv, NoMoreLines \/ CdLine \/ ForkLine \/ WaitForChild
  PROVE  TtyInv'
<1>1. /\ UNCHANGED <<source, offset, unread, buf, line, breaks>>
      /\ pc # "fgets" /\ pc' # "fgets" /\ pc' # "main"
  BY DEF NoMoreLines, CdLine, ForkLine, WaitForChild, Others
<1>2. AtBoundary' /\ HoldsRest'
  BY <1>1, RestStays DEF TtyInv
<1>3. unread' = <<>> \/ Complete(line)'
  BY <1>1 DEF TtyInv, Complete
<1> QED
  BY <1>1, <1>2, <1>3, Zenon DEF TtyInv

LEMMA SameSequence ==
  ASSUME NEW S, NEW s \in Seq(S), NEW t \in Seq(S), Len(s) = Len(t),
         \A i \in 1 .. Len(s) : s[i] = t[i]
  PROVE  s = t
OBVIOUS

LEMMA JoinedIs ==
  ASSUME NEW S, NEW a \in Seq(S), NEW d \in Seq(S)
  PROVE  /\ a \o d \in Seq(S) /\ Len(a \o d) = Len(a) + Len(d)
         /\ \A j \in 1 .. Len(a) : (a \o d)[j] = a[j]
         /\ \A j \in 1 .. Len(d) : (a \o d)[Len(a) + j] = d[j]
OBVIOUS

LEMMA JoinedInAnyOrder ==
  ASSUME NEW S, NEW a \in Seq(S), NEW d \in Seq(S), NEW f \in Seq(S)
  PROVE  (a \o d) \o f = a \o (d \o f)
OBVIOUS

\* Moving the beginning of d to the end of a changes nothing.
LEMMA JoinedAgain ==
  ASSUME NEW S, NEW a \in Seq(S), NEW d \in Seq(S), NEW k \in 1 .. Len(d)
  PROVE  (a \o SubSeq(d, 1, k)) \o SubSeq(d, k + 1, Len(d)) = a \o d
<1> DEFINE first == SubSeq(d, 1, k)
           rest == SubSeq(d, k + 1, Len(d))
<1>1. first \in Seq(S) /\ rest \in Seq(S)
  OBVIOUS
<1>2. first \o rest = d
  OBVIOUS
<1> HIDE DEF first, rest
<1>3. (a \o first) \o rest = a \o (first \o rest)
  BY <1>1, JoinedInAnyOrder, SMTT(30)
<1> QED
  BY <1>2, <1>3 DEF first, rest

LEMMA JoinedAfter ==
  ASSUME NEW S, NEW a \in Seq(S), NEW d \in Seq(S), NEW j \in 1 .. Len(d)
  PROVE  (a \o d)[Len(a) + j] = d[j]
OBVIOUS

\* What fgets has and what stdio has, where they make up a part of the input.
LEMMA PartsOfRest ==
  ASSUME IType, NEW c \in Nat, NEW e \in Nat, c < e, e <= Len(text),
         line \o unread = SubSeq(text, c + 1, e)
  PROVE  /\ Len(line) + Len(unread) = e - c
         /\ \A j \in 1 .. Len(line) : line[j] = text[c + j]
         /\ line = SubSeq(text, c + 1, c + Len(line))
         /\ unread = SubSeq(text, c + Len(line) + 1, e)
<1> DEFINE l == Len(line)
           u == Len(unread)
           r == line \o unread
           first == SubSeq(text, c + 1, c + l)
           rest == SubSeq(text, c + l + 1, e)
<1>1. /\ line \in Seq(STRING) /\ unread \in Seq(STRING) /\ text \in Seq(STRING)
      /\ l \in Nat /\ u \in Nat /\ Len(text) \in Nat
  BY BuffersAre DEF Chars
<1>2. Len(r) = l + u /\ \A j \in 1 .. l : r[j] = line[j]
  BY <1>1, JoinedIs
<1>3. \A j \in 1 .. u : r[l + j] = unread[j]
  <2> SUFFICES ASSUME NEW j \in 1 .. Len(unread) PROVE (line \o unread)[Len(line) + j] = unread[j]
    OBVIOUS
  <2>1. line \in Seq(STRING) /\ unread \in Seq(STRING)
    BY <1>1
  <2> QED BY ONLY <2>1, j \in 1 .. Len(unread), JoinedAfter
<1> HIDE DEF l, u
<1>4. r = SubSeq(text, c + 1, e)
  OBVIOUS
<1> HIDE DEF r
<1>5. Len(r) = e - c /\ \A j \in 1 .. e - c : r[j] = text[c + j]
  BY <1>1, <1>4
<1>6. l + u = e - c
  BY <1>2, <1>5
<1>7. \A j \in 1 .. l : j \in 1 .. e - c
  BY <1>1, <1>6
<1>8. \A j \in 1 .. l : line[j] = text[c + j]
  BY <1>2, <1>5, <1>7
<1>9. \A j \in 1 .. u : unread[j] = text[c + (l + j)]
  <2> SUFFICES ASSUME NEW j \in 1 .. u PROVE unread[j] = text[c + (l + j)]
    OBVIOUS
  <2>1. l + j \in 1 .. e - c
    BY <1>1, <1>6
  <2> QED BY <1>3, <1>5, <2>1
<1>10. first \in Seq(STRING) /\ Len(first) = l /\ \A j \in 1 .. l : first[j] = text[c + j]
  BY <1>1, <1>6
<1>11. rest \in Seq(STRING) /\ Len(rest) = u /\ \A j \in 1 .. u : rest[j] = text[c + (l + j)]
  BY <1>1, <1>6
<1> HIDE DEF first, rest
<1>12. line = first
  BY <1>1, <1>8, <1>10, SameSequence DEF l
<1>13. unread = rest
  BY <1>1, <1>9, <1>11, SameSequence DEF u
<1> QED
  BY <1>6, <1>8, <1>12, <1>13 DEF l, u, first, rest

\* The rest of a line that holds more than a piece begins with one.
LEMMA RestFollows ==
  ASSUME IType, HoldsRest, Complete(line), unread # <<>>
  PROVE  \E s, m \in 0 .. Len(text), e \in 1 .. Len(text) :
            /\ IsLine(s, e) /\ e <= offset /\ Cut(s, m) < e
            /\ unread = SubSeq(text, Cut(s, m) + 1, e)
<1>1. PICK s \in 0 .. Len(text), m \in 0 .. Len(text), e \in 1 .. Len(text) :
          /\ IsLine(s, e) /\ e <= offset /\ Cut(s, m) < e
          /\ line \o unread = SubSeq(text, Cut(s, m) + 1, e)
  BY DEF HoldsRest
<1> DEFINE c == Cut(s, m)
           l == Len(line)
           u == Len(unread)
<1>2. /\ text \in Seq(STRING) /\ line \in Seq(STRING) /\ unread \in Seq(STRING)
      /\ Len(text) \in Nat /\ l \in Nat \ {0} /\ u \in Nat \ {0}
      /\ s \in Nat /\ m \in Nat /\ e \in Nat /\ e <= Len(text)
  BY <1>1, BuffersAre DEF Chars, Complete
<1>3. c \in Nat /\ s <= c /\ c < e /\ Cut(s, m + 1) = c + (nbuf - 1) /\ nbuf - 1 \in Nat \ {0}
      /\ m + 1 <= Cut(s, m + 1)
  <2>1. m + 1 \in Nat
    BY <1>2
  <2> QED BY <1>1, <1>2, <2>1, CutNext, BuffersAssumption
<1> HIDE DEF c, l, u
<1>4. line \o unread = SubSeq(text, c + 1, e)
  BY <1>1 DEF c
<1>5. /\ l + u = e - c /\ \A j \in 1 .. l : line[j] = text[c + j]
      /\ unread = SubSeq(text, c + l + 1, e)
  BY <1>2, <1>3, <1>4, PartsOfRest DEF l, u
<1>6. l \in 1 .. l
  BY <1>2
<1>7. line[l] = text[c + l]
  BY <1>5, <1>6
<1>8. line[l] # "\n"
  <2>1. c + l + u = e
    <3>1. l + u = e - c
      BY <1>5
    <3> QED BY <1>2, <1>3, <3>1
  <2>2. c + l \in s + 1 .. e - 1
    BY <1>2, <1>3, <2>1
  <2> QED BY <1>1, <1>7, <2>2 DEF IsLine
<1>9. l = nbuf - 1
  BY <1>8 DEF Complete, l
<1>10. c + l < e /\ Cut(s, m + 1) = c + l
  <2>1. l + u = e - c
    BY <1>5
  <2>2. c + l < e
    BY <1>2, <1>3, <2>1
  <2> QED BY <1>3, <1>9, <2>2
<1>11. Cut(s, m + 1) < e /\ m + 1 \in 0 .. Len(text) /\ Cut(s, m + 1) + 1 = c + l + 1
  <2>1. m + 1 <= c + l
    BY <1>3, <1>10
  <2>2. m + 1 \in 0 .. Len(text)
    BY <1>2, <1>3, <1>10, <2>1
  <2> QED BY <1>10, <2>2
<1> QED
  BY <1>1, <1>5, <1>11

LEMMA GetcmdLines == ASSUME IType, TtyInv, Getcmd PROVE TtyInv'
<1>1. /\ UNCHANGED <<source, offset, unread, breaks>> /\ line' = <<>> /\ buf' = <<>>
      /\ pc' = "fgets" /\ pc # "fgets"
  BY DEF Getcmd, Others
<1>2. text' = text /\ \A s, e : IsLine(s, e)' <=> IsLine(s, e)
  BY <1>1, LinesAre
<1>3. AtBoundary'
  BY <1>1, <1>2 DEF TtyInv, AtBoundary
<1>4. HoldsRest'
  <2>1. CASE unread = <<>>
    BY <1>1, <2>1 DEF HoldsRest
  <2>2. CASE unread # <<>>
    <3>1. Complete(line) /\ HoldsRest
      BY <1>1, <2>2 DEF TtyInv
    <3>2. PICK s \in 0 .. Len(text), m \in 0 .. Len(text), e \in 1 .. Len(text) :
            /\ IsLine(s, e) /\ e <= offset /\ Cut(s, m) < e
            /\ unread = SubSeq(text, Cut(s, m) + 1, e)
      BY <2>2, <3>1, RestFollows
    <3>3. line' \o unread' = unread
      BY <1>1, BuffersAre DEF Chars
    <3> QED BY <1>1, <1>2, <3>2, <3>3 DEF HoldsRest
  <2> QED BY <2>1, <2>2
<1> QED
  BY <1>1, <1>3, <1>4 DEF TtyInv

LEMMA TakeLines == ASSUME IType, TtyInv, Take PROVE TtyInv'
<1>1. /\ UNCHANGED <<source, offset, buf, pc, breaks>> /\ pc = "fgets" /\ unread # <<>>
      /\ line' = line \o SubSeq(unread, 1, Taken)
      /\ unread' = SubSeq(unread, Taken + 1, Len(unread))
  BY DEF Take, Others
<1>2. text' = text /\ \A s, e : IsLine(s, e)' <=> IsLine(s, e)
  BY <1>1, LinesAre
<1>3. AtBoundary'
  BY <1>1, <1>2 DEF TtyInv, AtBoundary
<1>4. line' \o unread' = line \o unread
  <2>1. Taken \in 1 .. Len(unread) /\ unread \in Seq(STRING) /\ line \in Seq(STRING)
    BY TakenIs, BuffersAre DEF Chars, Take
  <2> QED BY <1>1, <2>1, JoinedAgain
<1>5. HoldsRest'
  <2>1. ~ (line = <<>> /\ unread = <<>>)
    BY <1>1
  <2>2. PICK s \in 0 .. Len(text), m \in 0 .. Len(text), e \in 1 .. Len(text) :
          /\ IsLine(s, e) /\ e <= offset /\ Cut(s, m) < e
          /\ line \o unread = SubSeq(text, Cut(s, m) + 1, e)
    BY <2>1 DEF TtyInv, HoldsRest
  <2> QED BY <1>1, <1>2, <1>4, <2>2 DEF HoldsRest
<1> QED
  BY <1>1, <1>3, <1>5 DEF TtyInv

\* A read takes what is left of a line, and only when fgets has nothing yet: what it has
\* would otherwise be the end of the input.
LEMMA RefillLines ==
  ASSUME IType, kind = "tty", LinesFit, TtyInv, Refill
  PROVE  TtyInv'
<1>1. /\ UNCHANGED <<source, buf, line, pc, breaks>> /\ pc = "fgets" /\ unread = <<>>
      /\ ~Complete(line) /\ offset < Len(text)
  BY DEF Refill
<1>2. PICK k \in Amounts : unread' = SubSeq(text, offset + 1, offset + k) /\ offset' = offset + k
  BY DEF Refill
<1>3. /\ k \in 1 .. BUFSIZ /\ offset + k <= Len(text)
      /\ offset + k = Len(text) \/ text[offset + k] = "\n"
      /\ \A j \in offset + 1 .. offset + k - 1 : text[j] # "\n"
  BY <1>1, AmountsAre
<1>4. /\ text \in Seq(STRING) /\ line \in Seq(STRING) /\ Len(text) \in Nat
      /\ offset \in Nat /\ BUFSIZ \in Nat
  BY BuffersAre, BuffersAssumption DEF Chars
<1>5. text' = text /\ \A s, e : IsLine(s, e)' <=> IsLine(s, e)
  BY <1>1, LinesAre
<1>6. line = <<>>
  <2> SUFFICES ASSUME line # <<>> PROVE FALSE
    OBVIOUS
  <2>1. PICK s \in 0 .. Len(text), m \in 0 .. Len(text), e \in 1 .. Len(text) :
          /\ IsLine(s, e) /\ e <= offset /\ Cut(s, m) < e
          /\ line \o unread = SubSeq(text, Cut(s, m) + 1, e)
    BY DEF TtyInv, HoldsRest
  <2> DEFINE c == Cut(s, m)
             l == Len(line)
  <2>2. c \in Nat /\ e \in Nat /\ e <= Len(text) /\ l \in Nat \ {0}
    BY <1>4, <2>1, CutNext
  <2>3. Len(line) + Len(unread) = e - c /\ \A j \in 1 .. Len(line) : line[j] = text[c + j]
    BY <2>1, <2>2, PartsOfRest
  <2>4. Len(unread) = 0
    BY <1>1
  <2> HIDE DEF c, l
  <2>5. l = e - c /\ l \in 1 .. l /\ c + l = e
    BY <2>2, <2>3, <2>4 DEF l
  <2>6. line[l] = text[e]
    BY <2>3, <2>5 DEF l
  <2>7. e < Len(text)
    BY <1>1, <1>4, <2>1, <2>2
  <2>8. text[e] = "\n"
    BY <1>4, <2>1, <2>2, <2>7 DEF IsLine
  <2> QED BY <1>1, <2>6, <2>8 DEF Complete, l
<1>7. AtBoundary'
  BY <1>2, <1>3, <1>5 DEF AtBoundary
<1>8. HoldsRest'
  <2>1. offset \in 0 .. Len(text) /\ 0 \in 0 .. Len(text) /\ offset + k \in 1 .. Len(text)
    BY <1>1, <1>3, <1>4
  <2>2. PICK s \in 0 .. Len(text), e \in 1 .. Len(text) : s = offset /\ e = offset + k
    BY <2>1
  <2>3. s = 0 \/ text[s] = "\n" \/ s \in breaks
    BY <1>1, <1>4, <2>2 DEF TtyInv, AtBoundary
  <2>4. IsLine(s, e)
    BY <1>3, <2>2, <2>3 DEF IsLine
  <2>5. Cut(s, 0) = s /\ s < e /\ e <= offset'
    BY <1>2, <1>3, <1>4, <2>2, FirstCut
  <2>6. line' \o unread' = SubSeq(text, s + 1, e)
    <3>1. unread' \in Seq(STRING) /\ line' = <<>>
      BY <1>1, <1>2, <1>3, <1>4, <1>6
    <3> QED BY <1>2, <2>2, <3>1
  <2>7. /\ IsLine(s, e)' /\ e <= offset' /\ Cut(s, 0) < e
        /\ line' \o unread' = SubSeq(text', Cut(s, 0) + 1, e)
    BY <1>5, <2>4, <2>5, <2>6
  <2> QED BY <1>5, <2>1, <2>7 DEF HoldsRest
<1> QED
  BY <1>1, <1>7, <1>8 DEF TtyInv

\* What fgets returns with is a piece: it stops at a newline, when the buffer
\* is full, or at the end of the input.
LEMMA LineIsPiece ==
  ASSUME IType, HoldsRest, line # <<>>, Complete(line) \/ unread = <<>>
  PROVE  \E s, m \in 0 .. Len(text), e \in 1 .. Len(text) :
            IsLine(s, e) /\ e <= offset /\ Cut(s, m) < e /\ line = Piece(s, e, m)
<1>1. PICK s \in 0 .. Len(text), m \in 0 .. Len(text), e \in 1 .. Len(text) :
          /\ IsLine(s, e) /\ e <= offset /\ Cut(s, m) < e
          /\ line \o unread = SubSeq(text, Cut(s, m) + 1, e)
  BY DEF HoldsRest
<1> DEFINE c == Cut(s, m)
           l == Len(line)
           u == Len(unread)
           w == nbuf - 1
<1>2. /\ text \in Seq(STRING) /\ line \in Seq(STRING) /\ unread \in Seq(STRING)
      /\ Len(text) \in Nat /\ l \in Nat \ {0} /\ u \in Nat /\ w \in Nat \ {0} /\ l <= w
      /\ s \in Nat /\ m \in Nat /\ e \in Nat /\ e <= Len(text)
  BY <1>1, BuffersAre, BuffersAssumption DEF Chars
<1>3. c \in Nat /\ s <= c /\ c < e /\ Cut(s, m + 1) = c + w
  BY <1>1, <1>2, CutNext
<1> HIDE DEF c
<1>4. /\ Len(line) + Len(unread) = e - c
      /\ \A j \in 1 .. Len(line) : line[j] = text[c + j]
      /\ line = SubSeq(text, c + 1, c + Len(line))
  BY <1>1, <1>2, <1>3, PartsOfRest DEF c
<1>5. line[l] = "\n" \/ l = w \/ u = 0
  BY DEF Complete
<1> HIDE DEF l, u, w
<1>6. l + u = e - c /\ line[l] = text[c + l]
  BY <1>2, <1>4 DEF l, u
<1>7. line[l] = "\n" => c + l = e
  <2> SUFFICES ASSUME text[c + l] = "\n", c + l # e PROVE FALSE
    BY <1>6
  <2>1. c + l \in s + 1 .. e - 1
    BY <1>2, <1>3, <1>6
  <2> QED BY <1>1, <2>1 DEF IsLine
<1>8. c + l = IF e <= c + w THEN e ELSE c + w
  BY <1>2, <1>3, <1>5, <1>6, <1>7
<1>9. Piece(s, e, m) = SubSeq(text, c + 1, c + l)
  <2>1. Piece(s, e, m) = SubSeq(text, c + 1, Least({e, Cut(s, m + 1)}))
    BY DEF Piece, Cut, c
  <2>2. Least({e, c + w}) = IF e <= c + w THEN e ELSE c + w
    BY <1>2, <1>3, LeastOfTwo
  <2> QED BY <1>3, <1>8, <2>1, <2>2
<1> QED
  BY <1>1, <1>4, <1>9 DEF l

LEMMA FgetsReturnsLines == ASSUME IType, TtyInv, FgetsReturns PROVE TtyInv'
<1>1. /\ UNCHANGED <<source, offset, unread, line, breaks>> /\ pc = "fgets" /\ pc' = "main"
      /\ Complete(line) \/ unread = <<>>
      /\ buf' = IF line = <<>> THEN buf ELSE CString(line)
  BY DEF FgetsReturns
<1>2. AtBoundary' /\ HoldsRest' /\ HoldsRest
  BY <1>1, RestStays DEF TtyInv
<1>3. unread' = <<>> \/ Complete(line)'
  BY <1>1 DEF Complete
<1>4. ASSUME buf' # <<>>
      PROVE  IsPiece'
  <2>1. line # <<>> /\ buf' = CString(line)
    BY <1>1, <1>4 DEF TtyInv
  <2>2. PICK s \in 0 .. Len(text), m \in 0 .. Len(text), e \in 1 .. Len(text) :
            IsLine(s, e) /\ e <= offset /\ Cut(s, m) < e /\ line = Piece(s, e, m)
    BY <1>1, <1>2, <2>1, LineIsPiece
  <2>3. text' = text /\ IsLine(s, e)' /\ Piece(s, e, m)' = Piece(s, e, m)
    BY <1>1, <2>2, LinesAre DEF Piece
  <2>4. IsLine(s, e)' /\ e <= offset' /\ Cut(s, m) < e /\ buf' = CString(Piece(s, e, m)')
    BY <1>1, <2>1, <2>2, <2>3
  <2> QED BY <2>3, <2>4 DEF IsPiece
<1> QED
  BY <1>1, <1>2, <1>3, <1>4, Zenon DEF TtyInv

\* Another process that reads stops at a new place, ahead of all that main has.
LEMMA LineHeld ==
  ASSUME UNCHANGED source, breaks \ {offset} \subseteq breaks',
         NEW s, s # offset, NEW e, IsLine(s, e)
  PROVE  IsLine(s, e)'
<1>1. text' = text
  BY SourceStays
<1>2. s \in breaks => s \in breaks'
  OBVIOUS
<1> QED
  BY <1>1, <1>2, Zenon DEF IsLine

LEMMA OthersLines ==
  ASSUME IType, TtyInv, UNCHANGED <<source, unread, buf, line, pc>>,
         offset' \in Nat, offset <= offset',
         breaks' = (breaks \ {offset}) \cup {offset'}
  PROVE  TtyInv'
<1>1. text' = text /\ breaks \ {offset} \subseteq breaks'
  BY SourceStays
<1>2. AtBoundary'
  BY DEF AtBoundary
<1>3. ASSUME NEW s \in 0 .. Len(text), NEW m \in 0 .. Len(text), NEW e \in 1 .. Len(text),
             IsLine(s, e), e <= offset, Cut(s, m) < e
      PROVE  IsLine(s, e)' /\ e <= offset'
  <2>1. s <= Cut(s, m) /\ Cut(s, m) \in Nat
    BY CutNext
  <2>2. s # offset /\ e <= offset'
    BY <1>3, <2>1, BuffersAre
  <2> QED BY <1>1, <1>3, <2>2, LineHeld
<1>4. HoldsRest'
  <2>1. CASE line = <<>> /\ unread = <<>>
    BY <2>1 DEF HoldsRest
  <2>2. CASE ~ (line = <<>> /\ unread = <<>>)
    <3>1. PICK s \in 0 .. Len(text), m \in 0 .. Len(text), e \in 1 .. Len(text) :
            /\ IsLine(s, e) /\ e <= offset /\ Cut(s, m) < e
            /\ line \o unread = SubSeq(text, Cut(s, m) + 1, e)
      BY <2>2 DEF TtyInv, HoldsRest
    <3>2. IsLine(s, e)' /\ e <= offset'
      BY <1>3, <3>1
    <3> QED BY <1>1, <3>1, <3>2 DEF HoldsRest
  <2> QED BY <2>1, <2>2
<1>5. IsPiece => IsPiece'
  <2> SUFFICES ASSUME IsPiece PROVE IsPiece'
    OBVIOUS
  <2>1. PICK s \in 0 .. Len(text), m \in 0 .. Len(text), e \in 1 .. Len(text) :
            IsLine(s, e) /\ e <= offset /\ Cut(s, m) < e /\ buf = CString(Piece(s, e, m))
    BY DEF IsPiece
  <2>2. IsLine(s, e)' /\ e <= offset' /\ Piece(s, e, m)' = Piece(s, e, m)
    BY <1>1, <1>3, <2>1 DEF Piece
  <2> QED BY <1>1, <2>1, <2>2 DEF IsPiece
<1>6. Complete(line)' <=> Complete(line)
  BY DEF Complete
<1> QED
  BY <1>2, <1>4, <1>5, <1>6, Zenon DEF TtyInv

LEMMA SameLines ==
  ASSUME IType, TtyInv, UNCHANGED <<source, offset, unread, buf, line, pc, breaks>>
  PROVE  TtyInv'
BY RestStays, PieceStays, Zenon DEF TtyInv, Complete

LEMMA ProcessLines ==
  ASSUME IType, kind = "tty", TtyInv, UNCHANGED <<source, unread, buf, line, pc>>,
         NEW q, q.unread \in Chars, (Ends(q) /\ UNCHANGED breaks) \/ Reads(q)
  PROVE  TtyInv'
<1>1. CASE Ends(q) /\ UNCHANGED breaks
  <2>1. offset' = offset
    BY <1>1, EndsInFile
  <2> QED BY <1>1, <2>1, SameLines
<1>2. CASE Reads(q)
  BY <1>2, ReadsInFile, OthersLines
<1> QED
  BY <1>1, <1>2

LEMMA ChildRunsLines ==
  ASSUME IType, kind = "tty", TtyInv, ChildRuns
  PROVE  TtyInv'
<1>1. /\ UNCHANGED <<source, unread, buf, line, pc>>
      /\ (Ends(child) /\ UNCHANGED breaks) \/ Reads(child)
  BY DEF ChildRuns
<1> QED
  BY <1>1, ProcessTypes, ProcessLines

LEMMA StrayLines ==
  ASSUME IType, kind = "tty", TtyInv, NEW i \in 1 .. MaxStrays, Stray(i)
  PROVE  TtyInv'
<1>1. /\ UNCHANGED <<source, unread, buf, line, pc>> /\ i \in DOMAIN strays
      /\ (Ends(strays[i]) /\ UNCHANGED breaks) \/ Reads(strays[i])
  BY DEF Stray
<1>2. strays[i].unread \in Chars
  BY <1>1, ProcessTypes
<1> QED
  BY <1>1, <1>2, ProcessLines

---------------------------------------------------------------------------
(* The invariant. *)

LEMMA InputBegins == InputInit => InputInv
<1> SUFFICES ASSUME InputInit PROVE InputInv
  OBVIOUS
<1>1. PICK i \in Inputs : text = i[1] /\ kind = i[2]
  BY DEF InputInit
<1>2. text \in Seq(STRING) /\ kind \in Kinds /\ Len(text) \in Nat
  BY <1>1, InputsAssumption
<1>3. /\ offset = 0 /\ unread = <<>> /\ buf = <<>> /\ line = <<>> /\ child = None
      /\ strays = <<>> /\ pc = "getcmd"
  BY DEF InputInit
<1>4. IType
  BY <1>2, <1>3, BuffersAssumption DEF IType, Chars
<1>5. TtyInv
  BY <1>3 DEF TtyInv, AtBoundary, HoldsRest
<1> QED
  BY <1>4, <1>5 DEF InputInv

LEMMA InputKept == InputInv /\ [InputNext]_inputVars => InputInv'
<1> SUFFICES ASSUME InputInv, [InputNext]_inputVars PROVE InputInv'
  OBVIOUS
<1>1. IType /\ (kind = "tty" /\ LinesFit => TtyInv)
  BY DEF InputInv
<1>2. UNCHANGED source => kind' = kind /\ (LinesFit' <=> LinesFit)
  BY SourceStays
<1>3. CASE Getcmd
  <2>1. UNCHANGED source
    BY <1>3 DEF Getcmd, Others
  <2> QED BY <1>1, <1>2, <1>3, <2>1, GetcmdTypes, GetcmdLines, Zenon DEF InputInv
<1>4. CASE Take
  <2>1. UNCHANGED source
    BY <1>4 DEF Take, Others
  <2> QED BY <1>1, <1>2, <1>4, <2>1, TakeTypes, TakeLines, Zenon DEF InputInv
<1>5. CASE Refill
  <2>1. UNCHANGED source
    BY <1>5 DEF Refill
  <2> QED BY <1>1, <1>2, <1>5, <2>1, RefillTypes, RefillLines, Zenon DEF InputInv
<1>6. CASE FgetsReturns
  <2>1. UNCHANGED source
    BY <1>6 DEF FgetsReturns
  <2> QED BY <1>1, <1>2, <1>6, <2>1, FgetsReturnsTypes, FgetsReturnsLines, Zenon DEF InputInv
<1>7. CASE NoMoreLines \/ CdLine \/ WaitForChild
  <2>1. UNCHANGED source
    BY <1>7 DEF NoMoreLines, CdLine, WaitForChild, Others
  <2> QED BY <1>1, <1>2, <1>7, <2>1, MainLabelTypes, MainLabelLines, Zenon DEF InputInv
<1>8. CASE ForkLine
  <2>1. UNCHANGED source
    BY <1>8 DEF ForkLine
  <2> QED BY <1>1, <1>2, <1>8, <2>1, ForkLineTypes, MainLabelLines, Zenon DEF InputInv
<1>9. CASE ChildRuns
  <2>1. UNCHANGED source
    BY <1>9 DEF ChildRuns
  <2> QED BY <1>1, <1>2, <1>9, <2>1, ChildRunsTypes, ChildRunsLines, Zenon DEF InputInv
<1>10. ASSUME NEW i \in 1 .. MaxStrays, Stray(i)
       PROVE  InputInv'
  <2>1. UNCHANGED source
    BY <1>10 DEF Stray
  <2> QED BY <1>1, <1>2, <1>10, <2>1, StrayTypes, StrayLines, Zenon DEF InputInv
<1>11. CASE UNCHANGED inputVars
  <2>1. UNCHANGED <<source, offset, unread, buf, line, child, strays, pc, breaks>>
    BY <1>11 DEF inputVars
  <2>2. IType'
    BY <1>1, <2>1, Zenon DEF IType, source
  <2>3. TtyInv => TtyInv'
    BY <1>1, <2>1, SameLines
  <2> QED BY <1>1, <1>2, <2>1, <2>2, <2>3, Zenon DEF InputInv
<1> QED
  BY <1>3, <1>4, <1>5, <1>6, <1>7, <1>8, <1>9, <1>10, <1>11, Zenon DEF InputNext, Main, Ended

LEMMA InputHolds == InputSpec => []InputInv
<1>1. InputInit => InputInv
  BY InputBegins
<1>2. InputInv /\ [InputNext]_inputVars => InputInv'
  BY InputKept
<1> QED
  BY <1>1, <1>2, PTL DEF InputSpec

\* Whatever the input, the sizes of the buffers and the ends of the processes:
\* fgets never writes past buf, nor a read past stdio's buffer, and no seek of
\* a process that ends takes the offset out of the file.
THEOREM InputTyped == InputSpec => []InputTypeOK
<1>1. InputInv => InputTypeOK
  <2> SUFFICES ASSUME InputInv PROVE InputTypeOK
    OBVIOUS
  <2>1. IType
    BY DEF InputInv
  <2>2. child \in Sharers \cup {None}
    BY <2>1 DEF IType
  <2>3. \A q \in Sharers : q.fate \in Fate
    BY DEF Sharers
  <2>4. child.fate \in {"none"} \cup Fate
    BY <2>2, <2>3, NoneIs
  <2> QED BY <2>1, <2>4, Zenon DEF IType, InputTypeOK
<1> QED
  BY <1>1, InputHolds, PTL

\* Whatever is typed, whichever processes read the terminal, in whichever order
\* and however little of it at a time: as long as stdio's buffer holds a line,
\* what main executes begins after a newline or where another process stopped
\* reading and goes on to the end of that line (or is a piece that fgets cuts it
\* into): it is never parts of two lines.
THEOREM TerminalLinesWhole == InputSpec => []LinesStayWhole
<1>1. InputInv => LinesStayWhole
  <2> SUFFICES ASSUME InputInv, kind = "tty", pc = "main", buf # <<>>, LinesFit
               PROVE  \E s, m \in 0 .. Len(text), e \in 1 .. Len(text) :
                          /\ IsLine(s, e) /\ s + m * (nbuf - 1) < e
                          /\ buf = CString(Piece(s, e, m))
    BY DEF LinesStayWhole, LinesFit
  <2>1. IsPiece
    BY DEF InputInv, TtyInv
  <2> QED BY <2>1 DEF IsPiece, Cut
<1> QED
  BY <1>1, InputHolds, PTL
===========================================================================
