------------------------- MODULE SyscallsProofs -------------------------
(***************************************************************************)
(* Proofs about Syscalls, for every width of an int: where the blocks lie  *)
(* that calls are handed, and how long a sleep lasts.                      *)
(***************************************************************************)
EXTENDS Syscalls, TLAPS

Kinds ==
    /\ killed \in [Procs -> BOOLEAN]
    /\ eax \in [Procs -> Int]
    /\ handed \in [Procs -> [start : Int, size : Int]]
    /\ lag \in [Procs -> Nat]

\* What sys_sleep sees of the ticks that passed is never more than did pass.
Counted == \A p \in Procs : Waiting(p) => Minus(ticks, ticks0[p]) <= elapsed[p]

IInv == TypeOK /\ Kinds /\ BlocksInside /\ Counted

USE DEF M, Word, Free, Nothing

---------------------------------------------------------------------------
\* A sum that passes argptr's test did not wrap.
LEMMA SumsInside ==
  ASSUME NEW p \in Procs, sz[p] \in 1 .. Half - 1, NEW i \in Word,
         NEW size \in Int, size < Half, InSize(p, i, size)
  PROVE  i \in 0 .. sz[p] - 1 /\ size >= 0 /\ i + size <= sz[p]
BY SizesAssumption DEF InSize, Plus

\* One more tick adds at most one to the difference, also where a counter wraps.
LEMMA OneTick ==
  ASSUME NEW t \in Word, NEW t0 \in Word
  PROVE  /\ Plus(t, 1) \in Word
         /\ Minus(t, t0) \in 0 .. M - 1
         /\ Minus(Plus(t, 1), t0) <= Minus(t, t0) + 1
         /\ Minus(Plus(t, 1), t0) \in 0 .. M - 1
BY SizesAssumption DEF Plus, Minus

LEMMA WordsOnStack ==
  ASSUME NEW p \in Procs, NEW w \in Stack[p]
  PROVE  w \in Word /\ Signed(w) \in Int /\ Signed(w) < Half
BY SizesAssumption, ProcsAssumption DEF Signed

LEMMA Start == Init => IInv
BY SizesAssumption, ProcsAssumption
DEF Init, IInv, TypeOK, Kinds, BlocksInside, Counted, Waiting

\* A call that returns at once and is handed nothing, or a block of its memory.
LEMMA Returns ==
  ASSUME IInv, NEW p \in Procs, pc[p] = "user",
         NEW value \in Int, NEW block \in [start : Int, size : Int],
         Return(p, value, block),
         block = Nothing \/ (/\ block.start \in 0 .. sz[p] - 1 /\ block.size >= 0
                            /\ block.start + block.size <= sz[p]),
         UNCHANGED <<sz, killed, sleep, ticks, tickslock>>
  PROVE  IInv'
BY DEF IInv, TypeOK, Kinds, BlocksInside, Counted, Return, Waiting, Minus, sleep

LEMMA CallsAtOnce ==
  ASSUME IInv, NEW p \in Procs,
         Unknown(p) \/ sys_getpid(p) \/ sys_date(p) \/ sys_read(p) \/ sys_open(p) \/ sys_uptime(p)
  PROVE  IInv'
<1>. Nothing \in [start : Int, size : Int] /\ p \in Int /\ ticks \in Int /\ -1 \in Int /\ 0 \in Int
  BY ProcsAssumption, SizesAssumption DEF IInv, TypeOK
<1>. sz[p] \in 1 .. Half - 1
  BY DEF IInv, TypeOK
<1>1. CASE Unknown(p)
  BY <1>1, Returns DEF Unknown, Called
<1>2. CASE sys_getpid(p)
  BY <1>2, Returns DEF sys_getpid, Called
<1>3. CASE sys_uptime(p)
  BY <1>3, Returns DEF sys_uptime, Called
<1>4. CASE sys_date(p)
  <2>1. PICK esp \in Word, i \in Stack[p] :
            IF argptr(p, esp, 0, i, DateSize)
            THEN Return(p, 0, [start |-> i, size |-> DateSize])
            ELSE Return(p, -1, Nothing)
    BY <1>4 DEF sys_date
  <2>2. CASE argptr(p, esp, 0, i, DateSize)
    <3>1. DateSize \in Int /\ DateSize < Half /\ i \in Word /\ i \in Int
      BY SizesAssumption, WordsOnStack
    <3>2. i \in 0 .. sz[p] - 1 /\ DateSize >= 0 /\ i + DateSize <= sz[p]
      BY <2>2, <3>1, SumsInside DEF argptr
    <3> QED BY <1>4, <2>1, <2>2, <3>1, <3>2, Returns DEF sys_date, Called
  <2>3. CASE ~argptr(p, esp, 0, i, DateSize)
    BY <1>4, <2>1, <2>3, Returns DEF sys_date, Called
  <2> QED BY <2>2, <2>3
<1>5. CASE sys_read(p)
  <2>1. PICK esp \in Word, i \in Stack[p], size \in Stack[p] :
            IF argint(p, esp, 2) /\ argptr(p, esp, 1, i, Signed(size))
            THEN Return(p, 0, [start |-> i, size |-> Signed(size)])
            ELSE Return(p, -1, Nothing)
    BY <1>5 DEF sys_read
  <2>2. CASE argint(p, esp, 2) /\ argptr(p, esp, 1, i, Signed(size))
    <3>1. Signed(size) \in Int /\ Signed(size) < Half /\ i \in Word /\ i \in Int
      BY SizesAssumption, WordsOnStack
    <3>2. i \in 0 .. sz[p] - 1 /\ Signed(size) >= 0 /\ i + Signed(size) <= sz[p]
      BY <2>2, <3>1, SumsInside DEF argptr
    <3> QED BY <1>5, <2>1, <2>2, <3>1, <3>2, Returns DEF sys_read, Called
  <2>3. CASE ~(argint(p, esp, 2) /\ argptr(p, esp, 1, i, Signed(size)))
    BY <1>5, <2>1, <2>3, Returns DEF sys_read, Called
  <2> QED BY <2>2, <2>3
<1>6. CASE sys_open(p)
  <2>1. PICK esp \in Word, nul \in Word, addr \in Stack[p] :
            IF argstr(p, esp, 0, addr, nul)
            THEN Return(p, 0, [start |-> addr, size |-> nul - addr + 1])
            ELSE Return(p, -1, Nothing)
    BY <1>6 DEF sys_open
  <2>. addr \in Word /\ addr \in Int /\ nul - addr + 1 \in Int
    BY SizesAssumption, WordsOnStack
  <2>2. CASE argstr(p, esp, 0, addr, nul)
    <3>1. addr \in 0 .. sz[p] - 1 /\ nul - addr + 1 >= 0 /\ addr + (nul - addr + 1) <= sz[p]
      BY <2>2, SizesAssumption DEF argstr, fetchstr
    <3> QED BY <1>6, <2>1, <2>2, <3>1, Returns DEF sys_open, Called
  <2>3. CASE ~argstr(p, esp, 0, addr, nul)
    BY <1>6, <2>1, <2>3, Returns DEF sys_open, Called
  <2> QED BY <2>2, <2>3
<1> QED BY <1>1, <1>2, <1>3, <1>4, <1>5, <1>6

\* kill changes other processes too, but no clock and no block.
LEMMA Kills ==
  ASSUME IInv, NEW p \in Procs, sys_kill(p)
  PROVE  IInv'
<1>. pc[p] = "user" /\ UNCHANGED <<sz, sleep, ticks, tickslock>>
  BY DEF sys_kill, Called
<1>1. PICK esp \in Word, q \in Stack[p] :
          IF argint(p, esp, 0) /\ q \in Procs /\ Alive(q)
          THEN /\ killed' = [killed EXCEPT ![q] = TRUE]
               /\ eax' = [eax EXCEPT ![p] = 0]
               /\ pc' = [r \in Procs |-> IF r = p THEN "return"
                                         ELSE IF r = q /\ pc[r] = "asleep" THEN "woken" ELSE pc[r]]
               /\ UNCHANGED handed
          ELSE Return(p, -1, Nothing) /\ UNCHANGED killed
  BY DEF sys_kill
<1>2. CASE argint(p, esp, 0) /\ q \in Procs /\ Alive(q)
  <2>1. /\ pc' \in [Procs -> {"none", "user", "return", "dead", "acquire", "test", "sleep",
                             "asleep", "woken"}]
        /\ \A r \in Procs : pc'[r] \in {"test", "sleep"} <=> pc[r] \in {"test", "sleep"}
        /\ \A r \in Procs : Waiting(r)' => Waiting(r)
    BY <1>1, <1>2 DEF IInv, TypeOK, Waiting
  <2>2. TypeOK'
    BY <2>1 DEF IInv, TypeOK, sleep
  <2>3. Kinds'
    <3>1. killed' \in [Procs -> BOOLEAN]
      BY <1>1, <1>2 DEF IInv, Kinds
    <3>2. eax' \in [Procs -> Int]
      BY <1>1, <1>2 DEF IInv, Kinds
    <3> QED BY <1>1, <1>2, <3>1, <3>2 DEF IInv, Kinds, sleep
  <2>4. BlocksInside'
    BY <1>1, <1>2 DEF IInv, BlocksInside
  <2>5. Counted'
    BY <2>1 DEF IInv, Counted, Minus, sleep
  <2> QED BY <2>2, <2>3, <2>4, <2>5 DEF IInv
<1>3. CASE ~(argint(p, esp, 0) /\ q \in Procs /\ Alive(q))
  BY <1>1, <1>3, Returns
<1> QED BY <1>2, <1>3

\* sbrk moves the end of the memory when no block of it is handed out.
LEMMA Grows ==
  ASSUME IInv, NEW p \in Procs, sys_sbrk(p)
  PROVE  IInv'
<1>. pc[p] = "user" /\ UNCHANGED <<killed, sleep, ticks, tickslock>>
  BY DEF sys_sbrk, Called
<1>1. /\ \/ Return(p, -1, Nothing) \/ Return(p, sz[p], Nothing)
      /\ \E size \in 1 .. Half - 1 : sz' = [sz EXCEPT ![p] = size]
  <2>1. sz[p] \in 1 .. Half - 1 /\ sz = [sz EXCEPT ![p] = sz[p]]
    BY DEF IInv, TypeOK
  <2>2. \A w \in Stack[p] : growproc(p, Signed(w)) \subseteq 1 .. Half - 1
    BY <2>1 DEF growproc
  <2> QED BY <2>1, <2>2 DEF sys_sbrk
<1>2. TypeOK'
  BY <1>1 DEF IInv, TypeOK, Return, sleep
<1>3. Kinds'
  <2>. sz[p] \in Int /\ -1 \in Int /\ 0 \in Int
    BY SizesAssumption DEF IInv, TypeOK
  <2> QED BY <1>1, SMTT(30) DEF IInv, Kinds, Return, sleep
<1>4. BlocksInside'
  <2>1. handed'[p] = Nothing /\ \A q \in Procs \ {p} : handed'[q] = handed[q] /\ sz'[q] = sz[q]
    BY <1>1 DEF IInv, TypeOK, Kinds, Return
  <2> QED BY <2>1 DEF IInv, BlocksInside
<1>5. Counted'
  BY <1>1 DEF IInv, TypeOK, Counted, Return, Waiting, Minus, sleep
<1> QED BY <1>2, <1>3, <1>4, <1>5 DEF IInv

LEMMA EntersSleep ==
  ASSUME IInv, NEW p \in Procs, sys_sleep(p)
  PROVE  IInv'
<1>. pc[p] = "user" /\ UNCHANGED <<sz, killed, ticks0, lag, elapsed, ticks, tickslock>>
  BY DEF sys_sleep, Called
<1>1. CASE Return(p, -1, Nothing) /\ UNCHANGED n
  BY <1>1, Returns DEF sleep
<1>2. CASE \E w \in Word : /\ n' = [n EXCEPT ![p] = w]
                           /\ pc' = [pc EXCEPT ![p] = "acquire"]
                           /\ UNCHANGED <<eax, handed>>
  BY <1>2 DEF IInv, TypeOK, Kinds, BlocksInside, Counted, Waiting, Minus
<1> QED BY <1>1, <1>2, WordsOnStack DEF sys_sleep

LEMMA StepsInside ==
  ASSUME IInv, NEW p \in Procs, Inside(p)
  PROVE  IInv'
<1>. \A q \in Procs : q # 0
  BY ProcsAssumption
<1>1. CASE Acquire(p)
  <2>1. TypeOK'
    BY <1>1, SizesAssumption DEF Acquire, memory, IInv, TypeOK
  <2>2. Kinds' /\ BlocksInside'
    BY <1>1 DEF Acquire, memory, IInv, Kinds, BlocksInside
  <2>3. Counted'
    <3> SUFFICES ASSUME NEW q \in Procs, Waiting(q)' PROVE Minus(ticks, ticks0[q])' <= elapsed'[q]
      BY DEF Counted
    <3>1. CASE q = p
      BY <1>1, <3>1, SizesAssumption DEF Acquire, IInv, TypeOK, Minus
    <3>2. CASE q # p
      BY <1>1, <3>2 DEF Acquire, IInv, TypeOK, Counted, Waiting, Minus
    <3> QED BY <3>1, <3>2
  <2> QED BY <2>1, <2>2, <2>3 DEF IInv
<1>2. CASE Test(p)
  <2>1. TypeOK'
    BY <1>2 DEF Test, Return, sleep, IInv, TypeOK
  <2>2. Kinds'
    <3>. 0 \in Int /\ -1 \in Int
      OBVIOUS
    <3> QED BY <1>2 DEF Test, Return, sleep, IInv, Kinds
  <2>3. BlocksInside'
    BY <1>2 DEF Test, Return, IInv, Kinds, BlocksInside
  <2>4. Counted'
    BY <1>2 DEF Test, Return, sleep, IInv, TypeOK, Counted, Waiting, Minus
  <2> QED BY <2>1, <2>2, <2>3, <2>4 DEF IInv
<1>3. CASE Sleep(p)
  <2>1. TypeOK'
    BY <1>3 DEF Sleep, sleep, memory, IInv, TypeOK
  <2>2. Kinds' /\ BlocksInside'
    BY <1>3 DEF Sleep, sleep, memory, IInv, Kinds, BlocksInside
  <2>3. Counted'
    BY <1>3 DEF Sleep, sleep, IInv, TypeOK, Counted, Waiting, Minus
  <2> QED BY <2>1, <2>2, <2>3 DEF IInv
<1>4. CASE Reacquire(p)
  <2>1. TypeOK'
    BY <1>4 DEF Reacquire, memory, IInv, TypeOK
  <2>2. Kinds' /\ BlocksInside'
    BY <1>4 DEF Reacquire, memory, IInv, Kinds, BlocksInside
  <2>3. Counted'
    BY <1>4 DEF Reacquire, IInv, TypeOK, Counted, Waiting, Minus
  <2> QED BY <2>1, <2>2, <2>3 DEF IInv
<1> QED BY <1>1, <1>2, <1>3, <1>4 DEF Inside

LEMMA Ticks ==
  ASSUME IInv, Tick
  PROVE  IInv'
<1>1. BlocksInside' /\ Kinds'
  BY DEF IInv, Kinds, BlocksInside, Tick, memory
<1>2. TypeOK'
  <2>1. ticks' \in Word
    BY OneTick DEF IInv, TypeOK, Tick
  <2>2. elapsed' \in [Procs -> 0 .. M]
    BY SizesAssumption DEF IInv, TypeOK, Tick
  <2>3. UNCHANGED <<sz, n, ticks0, tickslock>> /\ tickslock = 0
    BY DEF Tick, memory
  <2>4. /\ pc' \in [Procs -> {"none", "user", "return", "dead", "acquire", "test", "sleep",
                             "asleep", "woken"}]
        /\ \A p \in Procs : pc'[p] \in {"test", "sleep"} <=> pc[p] \in {"test", "sleep"}
    BY DEF IInv, TypeOK, Tick
  <2> QED BY <2>1, <2>2, <2>3, <2>4 DEF IInv, TypeOK
<1>3. Counted'
  <2> SUFFICES ASSUME NEW p \in Procs, Waiting(p)' PROVE Minus(ticks, ticks0[p])' <= elapsed'[p]
    BY DEF Counted
  <2>1. Waiting(p) /\ ticks0'[p] = ticks0[p] /\ ticks' = Plus(ticks, 1)
    BY DEF Waiting, Tick, IInv, TypeOK
  <2>2. /\ Minus(ticks, ticks0[p]) <= elapsed[p] /\ elapsed[p] \in 0 .. M
        /\ ticks \in Word /\ ticks0[p] \in Word
    BY <2>1 DEF IInv, TypeOK, Counted
  <2>3. elapsed'[p] = IF elapsed[p] < M THEN elapsed[p] + 1 ELSE elapsed[p]
    BY <2>1 DEF Tick
  <2>4. Minus(ticks, ticks0[p])' = Minus(Plus(ticks, 1), ticks0[p])
    BY <2>1 DEF Minus
  <2>5. /\ Minus(ticks, ticks0[p]) \in 0 .. M - 1
        /\ Minus(Plus(ticks, 1), ticks0[p]) \in 0 .. M - 1
        /\ Minus(Plus(ticks, 1), ticks0[p]) <= Minus(ticks, ticks0[p]) + 1
    BY <2>2, OneTick
  <2> HIDE DEF M
  <2>6. M \in Int
    BY SizesAssumption DEF M
  <2> QED BY <2>2, <2>3, <2>4, <2>5, <2>6
<1> QED BY <1>1, <1>2, <1>3 DEF IInv

LEMMA Leaves ==
  ASSUME IInv, NEW p \in Procs, Leave(p)
  PROVE  IInv'
BY SizesAssumption DEF Leave, IInv, TypeOK, Kinds, BlocksInside, Counted, Waiting, Minus

LEMMA Invariance == Spec => []IInv
<1>1. IInv /\ [Next]_vars => IInv'
  <2> SUFFICES ASSUME IInv, [Next]_vars PROVE IInv'
    OBVIOUS
  <2>1. CASE Tick
    BY <2>1, Ticks
  <2>2. ASSUME NEW p \in Procs, Syscall(p) PROVE IInv'
    BY <2>2, CallsAtOnce, Kills, Grows, EntersSleep DEF Syscall
  <2>3. ASSUME NEW p \in Procs, Inside(p) PROVE IInv'
    BY <2>3, StepsInside
  <2>4. ASSUME NEW p \in Procs, Leave(p) PROVE IInv'
    BY <2>4, Leaves
  <2>5. CASE UNCHANGED vars
    BY <2>5 DEF vars, memory, sleep, IInv, TypeOK, Kinds, BlocksInside, Counted, Waiting, Minus
  <2> QED BY <2>1, <2>2, <2>3, <2>4, <2>5 DEF Next
<1> QED BY Start, <1>1, PTL DEF Spec

---------------------------------------------------------------------------
\* Sizes, states and counters are of their types, and exactly a process that
\* looks at ticks in sys_sleep, or is about to sleep on it, holds tickslock.
THEOREM CallsTyped == Spec => []TypeOK
<1>1. IInv => TypeOK
  BY DEF IInv
<1> QED BY Invariance, <1>1, PTL

\* Every block that a call is handed lies in its caller's memory, for every width
\* of an int and every size below KERNBASE (argptr, argstr).
THEOREM BlocksHandedInside == Spec => []BlocksInside
<1>1. IInv => BlocksInside
  BY DEF IInv
<1> QED BY Invariance, <1>1, PTL

\* No sleep reports success early, wherever the tick counter stands and wraps.
THEOREM SleepLasts == Spec => SleepsLongEnough
<1>1. IInv /\ [Next]_vars =>
        [\A p \in Procs : Test(p) /\ eax'[p] = 0 /\ pc'[p] = "return" => elapsed[p] >= n[p]]_vars
  <2> SUFFICES ASSUME IInv, NEW p \in Procs, Test(p), eax'[p] = 0, pc'[p] = "return"
               PROVE  elapsed[p] >= n[p]
    OBVIOUS
  <2>1. ~TooEarly(p)
    BY DEF Test, Return, IInv, TypeOK, Kinds
  <2>2. Minus(ticks, ticks0[p]) <= elapsed[p]
    BY DEF Test, Waiting, IInv, Counted
  <2>3. ticks \in Word /\ ticks0[p] \in Word /\ n[p] \in Word /\ elapsed[p] \in Nat
    BY SizesAssumption DEF IInv, TypeOK
  <2>4. Minus(ticks, ticks0[p]) \in 0 .. M - 1
    BY <2>3, OneTick
  <2> QED BY <2>1, <2>2, <2>3, <2>4, SizesAssumption DEF TooEarly
<1> QED BY Invariance, <1>1, PTL DEF Spec, SleepsLongEnough
=========================================================================
