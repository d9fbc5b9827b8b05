-------------------------- MODULE Syscalls --------------------------
(***************************************************************************)
(* The system calls of hw/hw2/source/syscall.c and sysproc.c: how syscall  *)
(* dispatches on a number, how arguments come from the stack of the caller *)
(* and are checked against its size, and sys_sleep, which waits for ticks  *)
(* under tickslock.  The rest of xv6 (traps, the timer, proc.c and the     *)
(* calls that take a path) is external: it is what these files use.        *)
(***************************************************************************)
EXTENDS Integers, FiniteSets

CONSTANTS
    Procs,      \* the pids
    Teams,      \* which of them there are: a set of sets
    Uses,       \* Uses[p]: the numbers in eax with which p makes system calls
    Stack,      \* Stack[p]: the words p may have on its stack
    Half,       \* an int is in -Half .. Half - 1, and KERNBASE is Half
    IntSize, DateSize,  \* sizeof(int), sizeof(struct rtcdate)
    MaxLag      \* bound: ticks between a wakeup and its process' look at ticks

M == 2 * Half

ASSUME SizesAssumption ==
    /\ Half \in Nat \ {0, 1} /\ IntSize \in 1 .. Half - 1 /\ DateSize \in 1 .. Half - 1
    /\ MaxLag \in Nat

ASSUME ProcsAssumption == Procs \subseteq Nat \ {0} /\ \A p \in Procs : Stack[p] \subseteq 0 .. M - 1

VARIABLES
    sz,         \* sz[p]: the size of p's memory
    pc,         \* pc[p]: "none", "user", "return", "dead", or where in sys_sleep
    eax,        \* eax[p]: what the call returns
    handed,     \* handed[p]: the block of p's memory a call was handed
    killed,     \* killed[p]: proc->killed
    n, ticks0,  \* the locals of p in sys_sleep
    ticks,
    tickslock,  \* who holds it, or Free
    lag,        \* lag[p]: ticks since p was woken
    elapsed     \* history: ticks since p's ticks0, up to M

memory == <<sz, handed>>
sleep == <<n, ticks0, lag, elapsed>>
vars == <<memory, pc, eax, killed, sleep, ticks, tickslock>>

Free == 0
Nothing == [start |-> 0, size |-> 0]

Init ==
    /\ \E team \in Teams : pc = [p \in Procs |-> IF p \in team THEN "user" ELSE "none"]
    /\ sz = [p \in Procs |-> Half - 1]
    /\ eax = [p \in Procs |-> 0]
    /\ handed = [p \in Procs |-> Nothing]
    /\ killed = [p \in Procs |-> FALSE]
    /\ n = [p \in Procs |-> 0] /\ ticks0 = [p \in Procs |-> 0]
    /\ ticks = 0
    /\ tickslock = Free
    /\ lag = [p \in Procs |-> 0] /\ elapsed = [p \in Procs |-> 0]

---------------------------------------------------------------------------
(* Arguments.  Words are unsigned: their sums wrap. *)

Word == 0 .. M - 1
Plus(a, b) == IF a + b < M THEN a + b ELSE a + b - M
Minus(a, b) == IF a >= b THEN a - b ELSE a - b + M
Signed(w) == IF w < Half THEN w ELSE w - M

fetchint(p, addr) == ~(addr >= sz[p] \/ Plus(addr, IntSize) > sz[p])

\* The nth argument can be fetched; the caller chooses what it is.
argint(p, esp, nth) == fetchint(p, Plus(esp, IntSize + nth * IntSize))

\* Mutant: only the beginning of the block is checked.
InSizeStart(p, i, size) == ~(size < 0 \/ i >= sz[p])
InSize(p, i, size) == ~(size < 0 \/ i >= sz[p] \/ Plus(i, size) > sz[p])
argptr(p, esp, nth, i, size) == argint(p, esp, nth) /\ InSize(p, i, size)

\* fetchstr looks for a NUL from addr on and below sz; nul is where the first is.
fetchstr(p, addr, nul) == addr < sz[p] /\ nul \in addr .. sz[p] - 1
argstr(p, esp, nth, addr, nul) == argint(p, esp, nth) /\ fetchstr(p, addr, nul)

---------------------------------------------------------------------------
(* syscall.  A call is named by its entry in the table; a number without an  *)
(* entry is "unknown".                                                       *)

\* p has made the call, and syscall stores in eax what its function returns.
Called(p, call) == pc[p] = "user" /\ ~killed[p] /\ call \in Uses[p]

Return(p, value, block) ==
    /\ pc' = [pc EXCEPT ![p] = "return"]
    /\ eax' = [eax EXCEPT ![p] = value]
    /\ handed' = [handed EXCEPT ![p] = block]

Unknown(p) ==
    /\ Called(p, "unknown")
    /\ Return(p, -1, Nothing)
    /\ UNCHANGED <<sz, killed, sleep, ticks, tickslock>>

sys_getpid(p) ==
    /\ Called(p, "getpid")
    /\ Return(p, p, Nothing)
    /\ UNCHANGED <<sz, killed, sleep, ticks, tickslock>>

Alive(q) == pc[q] \notin {"none", "dead"}

\* kill in proc.c marks q and ends its sleep.
sys_kill(p) ==
    /\ Called(p, "kill")
    /\ \E esp \in Word, q \in Stack[p] :
        IF argint(p, esp, 0) /\ q \in Procs /\ Alive(q)
        THEN /\ killed' = [killed EXCEPT ![q] = TRUE]
             /\ eax' = [eax EXCEPT ![p] = 0]
             /\ pc' = [r \in Procs |-> IF r = p THEN "return"
                                       ELSE IF r = q /\ pc[r] = "asleep" THEN "woken" ELSE pc[r]]
             /\ UNCHANGED handed
        ELSE Return(p, -1, Nothing) /\ UNCHANGED killed
    /\ UNCHANGED <<sz, sleep, ticks, tickslock>>

\* growproc in proc.c: sizes are below KERNBASE, none is not allowed, and taking
\* away more than there is changes nothing.
growproc(p, k) == IF sz[p] + k < 0 THEN {sz[p]} ELSE {sz[p] + k} \cap 1 .. Half - 1

sys_sbrk(p) ==
    /\ Called(p, "sbrk")
    /\ \E esp \in Word, w \in Stack[p] :
        \/ Return(p, -1, Nothing) /\ UNCHANGED sz
        \/ /\ argint(p, esp, 0)
           /\ \E size \in growproc(p, Signed(w)) : sz' = [sz EXCEPT ![p] = size]
           /\ Return(p, sz[p], Nothing)
    /\ UNCHANGED <<killed, sleep, ticks, tickslock>>

\* cmostime fills the block it is handed.
sys_date(p) ==
    /\ Called(p, "date")
    /\ \E esp \in Word, i \in Stack[p] :
        IF argptr(p, esp, 0, i, DateSize)
        THEN Return(p, 0, [start |-> i, size |-> DateSize])
        ELSE Return(p, -1, Nothing)
    /\ UNCHANGED <<sz, killed, sleep, ticks, tickslock>>

\* read, write and fstat (sysfile.c): a block and, for the first two, its size,
\* which argint takes from the stack as well.
sys_read(p) ==
    /\ Called(p, "read")
    /\ \E esp \in Word, i, size \in Stack[p] :
        IF argint(p, esp, 2) /\ argptr(p, esp, 1, i, Signed(size))
        THEN Return(p, 0, [start |-> i, size |-> Signed(size)])
        ELSE Return(p, -1, Nothing)
    /\ UNCHANGED <<sz, killed, sleep, ticks, tickslock>>

\* open and the other calls with a path (sysfile.c).
sys_open(p) ==
    /\ Called(p, "open")
    /\ \E esp, nul \in Word, addr \in Stack[p] :
        IF argstr(p, esp, 0, addr, nul)
        THEN Return(p, 0, [start |-> addr, size |-> nul - addr + 1])
        ELSE Return(p, -1, Nothing)
    /\ UNCHANGED <<sz, killed, sleep, ticks, tickslock>>

---------------------------------------------------------------------------
(* sys_uptime and sys_sleep.  Who holds tickslock is not interrupted.      *)

\* One step under the lock.
sys_uptime(p) ==
    /\ Called(p, "uptime")
    /\ tickslock = Free
    /\ Return(p, ticks, Nothing)
    /\ UNCHANGED <<sz, killed, sleep, ticks, tickslock>>

\* argint has n; acquire waits while another has the lock.
sys_sleep(p) ==
    /\ Called(p, "sleep")
    /\ \E esp \in Word, w \in Stack[p] :
        IF argint(p, esp, 0)
        THEN /\ n' = [n EXCEPT ![p] = w]
             /\ pc' = [pc EXCEPT ![p] = "acquire"]
             /\ UNCHANGED <<eax, handed>>
        ELSE Return(p, -1, Nothing) /\ UNCHANGED n
    /\ UNCHANGED <<sz, killed, ticks0, lag, elapsed, ticks, tickslock>>

Acquire(p) ==
    /\ pc[p] = "acquire"
    /\ tickslock = Free
    /\ tickslock' = p
    /\ ticks0' = [ticks0 EXCEPT ![p] = ticks]
    /\ elapsed' = [elapsed EXCEPT ![p] = 0]
    /\ pc' = [pc EXCEPT ![p] = "test"]
    /\ UNCHANGED <<memory, eax, killed, n, lag, ticks>>

\* Mutant: compares with the tick to wake up at, which may have wrapped.
TooEarlyAbsolute(p) == ticks < Plus(ticks0[p], n[p])

\* ticks - ticks0 < n: ticks0 is unsigned, so n is converted.
TooEarly(p) == Minus(ticks, ticks0[p]) < n[p]

\* Mutant: the lock is not released when the process was killed.
TestKeepsLock(p) ==
    /\ pc[p] = "test"
    /\ IF TooEarly(p) /\ ~killed[p]
       THEN pc' = [pc EXCEPT ![p] = "sleep"] /\ UNCHANGED <<eax, handed, tickslock>>
       ELSE /\ Return(p, IF TooEarly(p) THEN -1 ELSE 0, Nothing)
            /\ IF TooEarly(p) THEN UNCHANGED tickslock ELSE tickslock' = Free
    /\ UNCHANGED <<sz, killed, sleep, ticks>>

\* Mutant: a killed process goes on sleeping.
TestIgnoresKill(p) ==
    /\ pc[p] = "test"
    /\ IF TooEarly(p)
       THEN pc' = [pc EXCEPT ![p] = "sleep"] /\ UNCHANGED <<eax, handed, tickslock>>
       ELSE Return(p, 0, Nothing) /\ tickslock' = Free
    /\ UNCHANGED <<sz, killed, sleep, ticks>>

Test(p) ==
    /\ pc[p] = "test"
    /\ IF TooEarly(p) /\ ~killed[p]
       THEN pc' = [pc EXCEPT ![p] = "sleep"] /\ UNCHANGED <<eax, handed, tickslock>>
       ELSE Return(p, IF TooEarly(p) THEN -1 ELSE 0, Nothing) /\ tickslock' = Free
    /\ UNCHANGED <<sz, killed, sleep, ticks>>

\* sleep in proc.c: asleep before the lock is free, whoever killed p meanwhile.
Sleep(p) ==
    /\ pc[p] = "sleep"
    /\ pc' = [pc EXCEPT ![p] = "asleep"]
    /\ tickslock' = Free
    /\ UNCHANGED <<memory, eax, killed, sleep, ticks>>

\* Woken, sleep takes the lock again before it returns.
Reacquire(p) ==
    /\ pc[p] = "woken"
    /\ tickslock = Free
    /\ tickslock' = p
    /\ pc' = [pc EXCEPT ![p] = "test"]
    /\ lag' = [lag EXCEPT ![p] = 0]
    /\ UNCHANGED <<memory, eax, killed, n, ticks0, elapsed, ticks>>

---------------------------------------------------------------------------
(* The rest of the kernel. *)

Waiting(p) == pc[p] \in {"test", "sleep", "asleep", "woken"}
InSleep(p) == Waiting(p) \/ pc[p] = "acquire"

\* The timer interrupt counts and wakes everybody (trap.c).
Tick ==
    /\ tickslock = Free
    /\ \A p \in Procs : pc[p] = "woken" => lag[p] < MaxLag
    /\ ticks' = Plus(ticks, 1)
    /\ pc' = [p \in Procs |-> IF pc[p] = "asleep" THEN "woken" ELSE pc[p]]
    /\ lag' = [p \in Procs |-> IF pc[p] = "woken" THEN lag[p] + 1 ELSE lag[p]]
    /\ elapsed' = [p \in Procs |-> IF Waiting(p) /\ elapsed[p] < M
                                   THEN elapsed[p] + 1 ELSE elapsed[p]]
    /\ UNCHANGED <<memory, eax, killed, n, ticks0, tickslock>>

\* A killed process does not get back to its program (trap.c).
Leave(p) ==
    /\ pc[p] = "return" \/ (pc[p] = "user" /\ killed[p])
    /\ pc' = [pc EXCEPT ![p] = IF killed[p] THEN "dead" ELSE "user"]
    /\ eax' = [eax EXCEPT ![p] = 0]
    /\ handed' = [handed EXCEPT ![p] = Nothing]
    /\ n' = [n EXCEPT ![p] = 0]
    /\ ticks0' = [ticks0 EXCEPT ![p] = 0]
    /\ elapsed' = [elapsed EXCEPT ![p] = 0]
    /\ UNCHANGED <<sz, killed, lag, ticks, tickslock>>

Syscall(p) ==
    \/ Unknown(p) \/ sys_getpid(p) \/ sys_kill(p) \/ sys_sbrk(p) \/ sys_date(p)
    \/ sys_read(p) \/ sys_open(p) \/ sys_uptime(p) \/ sys_sleep(p)

Inside(p) == Acquire(p) \/ Test(p) \/ Sleep(p) \/ Reacquire(p)

Next == Tick \/ \E p \in Procs : Syscall(p) \/ Inside(p) \/ Leave(p)

Spec == Init /\ [][Next]_vars

\* The timer ticks, and a process in sys_sleep goes on: both get the spinlock in
\* the end, as it is free again and again.
FairSpec == Spec /\ SF_vars(Tick) /\ \A p \in Procs : SF_vars(Inside(p))

---------------------------------------------------------------------------
\* Types, and the lock is held exactly between acquire and release.
TypeOK ==
    /\ sz \in [Procs -> 1 .. Half - 1]
    /\ pc \in [Procs -> {"none", "user", "return", "dead", "acquire", "test", "sleep",
                         "asleep", "woken"}]
    /\ ticks \in Word
    /\ n \in [Procs -> Word] /\ ticks0 \in [Procs -> Word]
    /\ elapsed \in [Procs -> 0 .. M]
    /\ \A p \in Procs : tickslock = p <=> pc[p] \in {"test", "sleep"}

\* A block that a call is handed lies in its caller's memory, every byte of it:
\* argptr does not look whether its sum wraps, and need not while no process
\* is larger than KERNBASE and sizes are ints.
BlocksInside ==
    \A p \in Procs : handed[p] # Nothing =>
        /\ handed[p].start \in 0 .. sz[p] - 1
        /\ handed[p].size >= 0
        /\ handed[p].start + handed[p].size <= sz[p]

\* sleep(n) tells its caller that n ticks have passed only when they have, wherever
\* ticks wraps; a negative n counts as its unsigned value.
SleepsLongEnough ==
    [][\A p \in Procs : Test(p) /\ eax'[p] = 0 /\ pc'[p] = "return" => elapsed[p] >= n[p]]_vars

\* A sleep ends: when its time has come, if that leaves room for the ticks that
\* pass before the process looks (else it may look too late, when ticks - ticks0
\* is small again), and in any case once the process is killed.
SleepEnds ==
    \A p \in Procs :
        (InSleep(p) /\ (killed[p] \/ n[p] + MaxLag < M)) ~> ~InSleep(p)
=========================================================================
