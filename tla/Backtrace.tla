---------------------------- MODULE Backtrace ----------------------------
(***************************************************************************)
(* The kernel's calls once it has started: i386_init calls test_backtrace, *)
(* which calls itself and, at the bottom, mon_backtrace of                 *)
(* lab/kern/monitor.c; then i386_init drops into the monitor, where the    *)
(* user may ask for a backtrace again.  mon_backtrace knows nothing of the *)
(* calls: it walks the frames in memory, up to the one that entry.S made   *)
(* the last.                                                               *)
(*                                                                         *)
(* What the listing looks like is left out, and so are debuginfo_eip's     *)
(* names, but not the addresses it refuses.                                *)
(***************************************************************************)
EXTENDS KernelStart

CONSTANT Depth      \* the argument of the first test_backtrace: 5

\* The functions are in the kernel, and so are the places to which their calls
\* return, each another one.  The stack has room for the deepest calls.
ASSUME CallsAssumption ==
    /\ Depth \in Nat
    /\ \A im \in Images :
        /\ {im.test_backtrace, im.mon_backtrace, im.monitor, im.runcmd} \subseteq
                {va \in Nat : va >= KERNBASE}
        /\ LET returns == <<im.spin, im.i386_init + 1, im.i386_init + 2, im.test_backtrace + 1,
                            im.test_backtrace + 2, im.monitor + 1, im.runcmd + 1>>
           IN  \A i, j \in 1 .. 7 : returns[i] = returns[j] => i = j
        /\ im.bootstacktop - im.bootstack >= 2 + 3 * (Depth + 1) + 5
        /\ im.bootstacktop - im.bootstack >= 2 + 3 + 4 + 5

VARIABLES
    frame,      \* mon_backtrace's ebp: where it is in the chain of frames
    listed,     \* what it printed of each frame so far
    calls       \* history: the calls in progress, the innermost first

traceVars == <<startVars, frame, listed, calls>>
listing == <<frame, listed>>

\* Addresses below it are the user's.
ULIM == KERNBASE - 2 * PTSIZE

---------------------------------------------------------------------------
(* Calls and returns. *)

CallFrom(args, return, f) ==
    /\ Fetch
    /\ Enter(ebp, esp, args, return, f)
    /\ calls' = <<[eip |-> return, args |-> args]>> \o calls

\* Where the code goes on that called: return addresses, as linked.
Resumes(va) ==
    CASE va = image.i386_init + 1 -> "tested"
      [] va \in {image.test_backtrace + 1, image.test_backtrace + 2} -> "leaving"
      [] va = image.monitor + 1 -> "monitor"
      [] va = image.runcmd + 1 -> "runcmd"

Linked(va) == IF va < KERNBASE THEN va + KERNBASE ELSE va

\* leave; ret; and the caller drops the arguments it pushed.
Return ==
    /\ Fetch
    /\ eip' = WordAt(ebp + 1)
    /\ ebp' = WordAt(ebp)
    /\ esp' = ebp + 2 + Len(Head(calls).args)
    /\ at' = Resumes(Linked(eip'))
    /\ calls' = Tail(calls)
    /\ UNCHANGED <<image, mem, ph, segment, disk, paging, listing>>

\* The first argument of the function that runs.
Argument == WordAt(ebp + 2)

---------------------------------------------------------------------------
(* i386_init and test_backtrace. *)

TestBacktrace ==
    /\ at = "cons_init"
    /\ CallFrom(<<Depth>>, image.i386_init + 1, image.test_backtrace)
    /\ at' = "test_backtrace"
    /\ UNCHANGED listing

Deeper ==
    /\ at = "test_backtrace"
    /\ Argument > 0
    /\ CallFrom(<<Argument - 1>>, image.test_backtrace + 1, image.test_backtrace)
    /\ UNCHANGED <<at, listing>>

\* mon_backtrace begins with its own frame: read_ebp is inlined.
Backtrace(args, return) ==
    /\ CallFrom(args, return, image.mon_backtrace)
    /\ at' = "mon_backtrace"
    /\ frame' = ebp'
    /\ listed' = <<>>

AtTheBottom ==
    /\ at = "test_backtrace"
    /\ Argument = 0
    /\ Backtrace(<<0, 0, 0>>, image.test_backtrace + 2)

Leave == at = "leaving" /\ Return

DropIntoMonitor ==
    /\ at = "tested"
    /\ CallFrom(<<0>>, image.i386_init + 2, image.monitor)
    /\ at' = "monitor"
    /\ UNCHANGED listing

---------------------------------------------------------------------------
(* The monitor. *)

\* readline returns its buffer, which is in the BSS, and runcmd gets it.
TypesBacktrace ==
    /\ at = "monitor"
    /\ CallFrom(<<image.edata, 0>>, image.monitor + 1, image.runcmd)
    /\ at' = "backtrace"
    /\ UNCHANGED listing

\* One word, in an array of runcmd's frame.
RunsBacktrace ==
    /\ at = "backtrace"
    /\ Backtrace(<<1, ebp, 0>>, image.runcmd + 1)

RuncmdReturns == at = "runcmd" /\ Return

---------------------------------------------------------------------------
(* mon_backtrace *)

\* Mutant: the arguments begin where the return address is.
ShowFrameTooLow ==
    /\ at = "mon_backtrace"
    /\ frame # 0
    /\ \A n \in 0 .. 6 : Mapped(frame + n)
    /\ listed' = Append(listed,
            [eip |-> WordAt(frame + 1), args |-> [n \in 1 .. 5 |-> WordAt(frame + n)]])
    /\ at' = IF WordAt(frame + 1) < ULIM THEN "panic" ELSE at
    /\ frame' = WordAt(frame)
    /\ UNCHANGED <<image, mem, ph, segment, disk, cpu, calls>>

\* One turn of the loop.  Five words are taken for arguments, however many
\* there are; debuginfo_eip panics on a user's address.
ShowFrame ==
    /\ at = "mon_backtrace"
    /\ frame # 0
    /\ \A n \in 0 .. 6 : Mapped(frame + n)
    /\ listed' = Append(listed,
            [eip |-> WordAt(frame + 1), args |-> [n \in 1 .. 5 |-> WordAt(frame + 1 + n)]])
    /\ at' = IF WordAt(frame + 1) < ULIM THEN "panic" ELSE at
    /\ frame' = WordAt(frame)
    /\ UNCHANGED <<image, mem, ph, segment, disk, cpu, calls>>

BacktraceReturns == at = "mon_backtrace" /\ frame = 0 /\ Return

---------------------------------------------------------------------------
TraceInit == Init /\ frame = 0 /\ listed = <<>> /\ calls = <<>>

Starts ==
    /\ Next
    /\ calls' = IF at = "relocated" THEN <<[eip |-> image.spin, args |-> <<>>]>> ELSE calls
    /\ UNCHANGED listing

Runs == \/ TestBacktrace \/ Deeper \/ AtTheBottom \/ Leave \/ DropIntoMonitor
        \/ RunsBacktrace \/ RuncmdReturns \/ ShowFrame \/ BacktraceReturns

TraceNext == Starts \/ Runs \/ TypesBacktrace
TraceSpec == TraceInit /\ [][TraceNext]_traceVars

\* The processor runs, and the disk answers; nobody has to type.
FairSpec == /\ TraceSpec
            /\ WF_traceVars((Load \/ Kernel) /\ Starts) /\ WF_traceVars(Disk /\ Starts)
            /\ WF_traceVars(Runs)

---------------------------------------------------------------------------
\* Types, and that nothing is copied to where there is no memory; the stack
\* pointer is where the frames say.
TypeOK ==
    /\ image \in Images
    /\ DOMAIN mem = 0 .. MemSize - 1
    /\ at \in Booting \cup {"cons_init", "test_backtrace", "leaving", "tested", "monitor",
                            "backtrace", "runcmd", "mon_backtrace", "panic"}
    /\ ph \in 0 .. Len(image.phs)
    /\ pa % SECTSIZE = 0 /\ pa \in 0 .. MemSize /\ end_pa \in 0 .. MemSize
    /\ offset \in Nat
    /\ disk.status \in {"ready", "busy", "starting"}
    /\ disk.regs \in [1 .. 4 -> 0 .. Port - 1]
    /\ paging \in BOOLEAN
    /\ at \notin Booting => esp \in Stack /\ ebp = esp
    /\ frame \in Stack \cup {0}

\* A backtrace lists the calls in progress, each with where it returns to and
\* its arguments, the innermost first, and ends with that of i386_init: the
\* chain of frames in memory is the history of calls, from entry.S, which
\* clears the frame pointer and jumps to the addresses the kernel is linked
\* at, down to the frame of mon_backtrace itself.
BacktraceListsCalls ==
    at \in {"mon_backtrace", "panic"} =>
        /\ Len(listed) <= Len(calls)
        /\ frame = 0 => Len(listed) = Len(calls)
        /\ \A k \in DOMAIN listed :
            /\ listed[k].eip = calls[k].eip
            /\ \A n \in DOMAIN calls[k].args : listed[k].args[n] = calls[k].args[n]

\* A good image starts, and never gets lost: no wait is for ever, the
\* processor finds what it fetches, and may write where it writes, at each
\* step from the loader's low addresses to the kernel's high ones; every
\* backtrace ends, and every function returns to the one that called it.
MonitorReached == image.magic ~> at = "monitor"
=========================================================================
