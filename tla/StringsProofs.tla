------------------------- MODULE StringsProofs -------------------------
(***************************************************************************)
(* Proofs about Strings: memset, memmove and memcpy, for memories and      *)
(* blocks of every size, and the types of all routines, for which those    *)
(* that copy strings must never read outside memory.                       *)
(***************************************************************************)
EXTENDS Strings, TLAPS

Fill == call.fn = "memset"
Moves == call.fn \in {"memmove", "memcpy"}

\* What the block shall hold at a.
Want(a) == IF Fill THEN Char(call.c) ELSE call.mem[call.src + (a - call.dst)]

Size == IF width \in {1, -1} THEN 1 ELSE 4

\* What the instruction has written so far: the block's beginning when it goes
\* up, its end when it goes down.
Done == IF width > 0 THEN call.dst .. d - 1
        ELSE d + Size .. call.dst + call.n - 1

Copied == mem = [a \in Addr |-> IF a \in Done THEN Want(a) ELSE call.mem[a]]

\* The pointers are where the count says, and the copy goes down exactly when
\* dst begins inside src: only then are the bytes still to be read not among
\* those already written.
Progress ==
    /\ s \in Int /\ d \in Int /\ n \in Nat
    /\ width \in {-4, -1, 1, 4}
    /\ Fill => width > 0
    /\ Moves => s - call.src = d - call.dst
    /\ Moves => (width < 0 <=> DstInsideSrc)
    /\ width > 0 => d >= call.dst /\ d + Size * n = call.dst + call.n
    /\ width < 0 => Size * n <= call.n /\ d + Size = call.dst + Size * n
    /\ Copied

BlockInv ==
    /\ call \in Cases
    /\ pc \in {"entry", "loop", "done"}
    /\ Fill \/ Moves =>
        /\ pc = "entry" => mem = call.mem /\ s = call.src
        /\ pc = "loop" => Progress
        /\ BlocksAsSpecified

---------------------------------------------------------------------------
LEMMA WholeWords ==
  ASSUME NEW k \in Nat, k % 4 = 0
  PROVE  k \div 4 \in Nat /\ 4 * (k \div 4) = k
OBVIOUS

\* The arguments of a call that fills or moves a block.
LEMMA Arguments ==
  ASSUME call \in Cases, Fill \/ Moves
  PROVE  /\ call.mem \in [Addr -> Byte]
         /\ call.dst \in Nat /\ call.src \in Nat /\ call.n \in Nat /\ call.c \in Int
         /\ call.dst + call.n <= MemSize
         /\ Moves => call.src + call.n <= MemSize
BY CasesAssumption DEF Fill, Moves

\* The instruction set up to go up has written nothing yet.
LEMMA SetUpUp ==
  ASSUME call \in Cases, Fill \/ Moves, pc = "entry", mem = call.mem,
         NEW w \in {1, 4}, NEW from \in Int, NEW count \in Nat,
         SetUp(w, from, call.dst, count), w * count = call.n,
         Moves => from = call.src /\ ~DstInsideSrc
  PROVE  pc' = "loop" /\ Progress'
<1>1. /\ width' = w /\ s' = from /\ d' = call.dst /\ n' = count /\ pc' = "loop"
      /\ call' = call /\ mem' = mem
  BY DEF SetUp
<1>2. Size' = w
  BY <1>1 DEF Size
<1>3. Done' = {}
  BY <1>1, Arguments DEF Done
<1>4. Copied'
  BY <1>1, <1>3, Arguments DEF Copied
<1>5. Fill' = Fill /\ Moves' = Moves /\ DstInsideSrc' = DstInsideSrc
  BY <1>1 DEF Fill, Moves, DstInsideSrc
<1> QED
  BY <1>1, <1>2, <1>4, <1>5, Arguments DEF Progress

LEMMA SetUpDown ==
  ASSUME call \in Cases, Moves, pc = "entry", mem = call.mem, DstInsideSrc,
         NEW w \in {1, 4}, NEW count \in Nat, w * count = call.n,
         SetUp(-w, call.src + call.n - w, call.dst + call.n - w, count)
  PROVE  pc' = "loop" /\ Progress'
<1>1. /\ width' = -w /\ s' = call.src + call.n - w /\ d' = call.dst + call.n - w
      /\ n' = count /\ pc' = "loop" /\ call' = call /\ mem' = mem
  BY DEF SetUp
<1>2. Size' = w
  BY <1>1 DEF Size
<1>3. Done' = {}
  BY <1>1, <1>2, Arguments DEF Done
<1>4. Copied'
  BY <1>1, <1>3, Arguments DEF Copied
<1>5. Moves' = Moves /\ DstInsideSrc' = DstInsideSrc /\ ~Fill'
  BY <1>1 DEF Fill, Moves, DstInsideSrc
<1> QED
  BY <1>1, <1>2, <1>4, <1>5, Arguments DEF Progress

\* One repetition writes the next bytes of the block and no other.
LEMMA RepeatProgress ==
  ASSUME call \in Cases, Fill \/ Moves, pc = "loop", Progress,
         NEW value, Repeat([a \in Addr |-> IF a - d \in Bytes THEN value[a] ELSE mem[a]]),
         \A a \in Addr : a - d \in Bytes => value[a] = Want(a)
  PROVE  pc' = "loop" /\ Progress'
<1>1. /\ n > 0 /\ n' = n - 1 /\ s' = s + width /\ d' = d + width
      /\ width' = width /\ call' = call /\ pc' = pc
      /\ mem' = [a \in Addr |-> IF a - d \in Bytes THEN value[a] ELSE mem[a]]
  BY DEF Repeat
<1>2. Size' = Size /\ Fill' = Fill /\ Moves' = Moves /\ DstInsideSrc' = DstInsideSrc
  BY <1>1 DEF Size, Fill, Moves, DstInsideSrc
<1>3. \A a \in Addr : Want(a)' = Want(a)
  BY <1>1 DEF Want, Fill
<1>4. \A a \in Addr : a \in Done' <=> a \in Done \/ a - d \in Bytes
  <2>1. CASE width = 1
    BY <1>1, <2>1, Arguments, SizesAssumption, SMTT(30) DEF Progress, Done, Bytes, Size, Addr
  <2>2. CASE width = 4
    BY <1>1, <2>2, Arguments, SizesAssumption DEF Progress, Done, Bytes, Size, Addr
  <2>3. CASE width = -1
    BY <1>1, <2>3, Arguments, SizesAssumption DEF Progress, Done, Bytes, Size, Addr
  <2>4. CASE width = -4
    BY <1>1, <2>4, Arguments, SizesAssumption, SMTT(30) DEF Progress, Done, Bytes, Size, Addr
  <2> QED
    BY <2>1, <2>2, <2>3, <2>4 DEF Progress
<1>5. Copied'
  BY <1>1, <1>3, <1>4 DEF Progress, Copied
<1>6. /\ width > 0 => d' >= call.dst /\ d' + Size * n' = call.dst + call.n
      /\ width < 0 => Size * n' <= call.n /\ d' + Size = call.dst + Size * n'
  BY <1>1, Arguments DEF Progress, Size
<1>7. s' \in Int /\ d' \in Int /\ n' \in Nat /\ width' \in {-4, -1, 1, 4}
  BY <1>1 DEF Progress
<1>8. Moves => s' - call.src = d' - call.dst
  BY <1>1, Arguments, SMTT(30) DEF Progress
<1> QED
  BY <1>1, <1>2, <1>5, <1>6, <1>7, <1>8 DEF Progress

\* The byte that a move reads is still what it was when the call began.
LEMMA ReadsOldByte ==
  ASSUME call \in Cases, Moves, Progress, n > 0, NEW a \in Addr, a - d \in Bytes
  PROVE  mem[s + (a - d)] = Want(a)
<1> DEFINE b == call.src + (a - call.dst)
<1>a. /\ call.dst \in Nat /\ call.src \in Nat /\ call.n \in Nat
      /\ call.dst + call.n <= MemSize /\ call.src + call.n <= MemSize
  BY Arguments
<1>b. a \in Int /\ MemSize \in Nat
  BY SizesAssumption DEF Addr
<1>c. /\ s \in Int /\ d \in Int /\ n \in Nat /\ width \in {-4, -1, 1, 4}
      /\ s - call.src = d - call.dst
      /\ width < 0 <=> DstInsideSrc
      /\ width > 0 => d >= call.dst /\ d + Size * n = call.dst + call.n
      /\ width < 0 => Size * n <= call.n /\ d + Size = call.dst + Size * n
  BY DEF Progress
<1>1. s + (a - d) = b
  BY <1>a, <1>b, <1>c
<1>2. a \in call.dst .. call.dst + call.n - 1
  BY <1>a, <1>b, <1>c DEF Bytes, Size
<1>3. b \in Addr
  BY <1>2, <1>a, <1>b DEF Addr
<1>4. b \notin Done
  <2>1. CASE width > 0
    <3>1. a >= d
      BY <1>b, <1>c DEF Bytes
    <3>2. b < call.dst \/ b >= d
      BY <1>2, <2>1, <3>1, <1>a, <1>b, <1>c DEF DstInsideSrc
    <3> QED
      BY <2>1, <3>2, <1>a, <1>b, <1>c DEF Done
  <2>2. CASE width < 0
    <3>1. a < d + Size
      BY <2>2, <1>b, <1>c DEF Bytes, Size
    <3>2. b < d + Size
      BY <2>2, <3>1, <1>a, <1>b, <1>c DEF DstInsideSrc, Size
    <3>3. Done = d + Size .. call.dst + call.n - 1 /\ Size \in Int
      BY <2>2, <1>c DEF Done, Size
    <3> QED
      BY <3>2, <3>3, <1>a, <1>b, <1>c
  <2> QED
    BY <1>c, <2>1, <2>2
<1>5. mem[b] = call.mem[b]
  BY <1>3, <1>4 DEF Progress, Copied
<1> QED
  BY <1>1, <1>5 DEF Want, Fill, Moves

\* When no repetition is left the whole block has been written.
LEMMA EndsWritten ==
  ASSUME call \in Cases, Fill \/ Moves, Progress, Ends
  PROVE  BlocksAsSpecified' /\ pc' = "done" /\ call' = call
<1>1. n = 0 /\ pc' = "done" /\ call' = call /\ mem' = mem
  BY DEF Ends, Answer, Return
<1>2. Done = Block
  BY <1>1, Arguments, SMTT(30) DEF Progress, Done, Block, Size
<1>3. mem = [a \in Addr |-> IF a \in Block THEN Want(a) ELSE call.mem[a]]
  BY <1>2 DEF Progress, Copied
<1> QED
  BY <1>1, <1>3 DEF BlocksAsSpecified, Block, Want, Fill, Moves

---------------------------------------------------------------------------
LEMMA InitBlockInv == Init => BlockInv
BY DEF Init, BlockInv, BlocksAsSpecified

\* The other routines leave the call as it is, which is none of a block.
LEMMA OtherRoutines ==
  ASSUME BlockInv, Look \/ Copy \/ Strtol
  PROVE  BlockInv'
<1>1. call' = call /\ ~Fill /\ ~Moves /\ pc' \in {"entry", "loop", "done"}
  BY DEF BlockInv, Look, Copy, Strtol, Strlen, Strnlen, Strcmp, Strncmp, Strchr, Strfind,
     Memcmp, Memfind, Strcpy, Strcat, Strncpy, Strlcpy, CopyString, Skip, Advance, Answer,
     Return, Runs, Fill, Moves
<1> QED
  BY <1>1 DEF BlockInv, Fill, Moves

LEMMA MemsetBlockInv ==
  ASSUME BlockInv, Memset
  PROVE  BlockInv'
<1>1. Fill /\ call \in Cases /\ call' = call /\ ~Moves
  BY DEF BlockInv, Memset, Runs, Fill, Moves, SetUp, Repeat, Ends, Answer, Return
<1>2. CASE pc = "entry"
  <2>1. mem = call.mem
    BY <1>1, <1>2 DEF BlockInv
  <2>2. s \in Int
    BY <1>1, <1>2, Arguments DEF BlockInv
  <2>3. CASE call.n % 4 = 0 /\ SetUp(4, s, call.dst, call.n \div 4)
    <3>1. call.n \div 4 \in Nat /\ 4 * (call.n \div 4) = call.n
      BY <1>1, <2>3, Arguments, WholeWords
    <3> QED
      BY <1>1, <1>2, <2>1, <2>2, <2>3, <3>1, SetUpUp DEF BlockInv, BlocksAsSpecified
  <2>4. CASE SetUp(1, s, call.dst, call.n)
    BY <1>1, <1>2, <2>1, <2>2, <2>4, SetUpUp, Arguments DEF BlockInv, BlocksAsSpecified
  <2> QED
    BY <1>2, <2>3, <2>4 DEF Memset, Repeat, Ends
<1>3. CASE pc = "loop"
  <2>1. Progress
    BY <1>1, <1>3 DEF BlockInv
  <2>2. CASE Ends
    BY <1>1, <2>1, <2>2, EndsWritten DEF BlockInv
  <2>3. CASE Repeat([a \in Addr |-> IF a - d \in Bytes THEN Char(call.c) ELSE mem[a]])
    <3> DEFINE value == [a \in Addr |-> Char(call.c)]
    <3>1. Repeat([a \in Addr |-> IF a - d \in Bytes THEN value[a] ELSE mem[a]])
      BY <2>3 DEF Repeat
    <3>2. \A a \in Addr : value[a] = Want(a)
      BY <1>1 DEF Want
    <3> HIDE DEF value
    <3>3. pc' = "loop" /\ Progress'
      BY <1>1, <1>3, <2>1, <3>1, <3>2, RepeatProgress
    <3> QED
      BY <1>1, <3>3 DEF BlockInv, BlocksAsSpecified
  <2> QED
    BY <1>3, <2>2, <2>3 DEF Memset, SetUp
<1> QED
  BY <1>2, <1>3 DEF BlockInv, Memset, Runs

LEMMA MemmoveBlockInv ==
  ASSUME BlockInv, Memmove
  PROVE  BlockInv'
<1>1. Moves /\ call \in Cases /\ call' = call
  BY DEF BlockInv, Memmove, Runs, Moves, Move, SetUp, Repeat, Ends, Answer, Return
<1>2. CASE pc = "entry"
  <2>1. mem = call.mem /\ Move
    BY <1>1, <1>2 DEF BlockInv, Memmove, Repeat, Ends
  <2>2. Words(call.src, call.dst) \/ Words(call.src + call.n, call.dst + call.n)
          => call.n \div 4 \in Nat /\ 4 * (call.n \div 4) = call.n
    BY <1>1, Arguments, WholeWords DEF Words
  <2>3. pc' = "loop" /\ Progress'
    <3>1. CASE DstInsideSrc
      BY <1>1, <1>2, <2>1, <2>2, <3>1, SetUpDown, Arguments DEF Move
    <3>2. CASE ~DstInsideSrc
      BY <1>1, <1>2, <2>1, <2>2, <3>2, SetUpUp, Arguments DEF Move
    <3> QED
      BY <3>1, <3>2
  <2> QED
    BY <1>1, <2>3 DEF BlockInv, BlocksAsSpecified
<1>3. CASE pc = "loop"
  <2>1. Progress
    BY <1>1, <1>3 DEF BlockInv
  <2>2. CASE Ends
    BY <1>1, <2>1, <2>2, EndsWritten DEF BlockInv
  <2>3. CASE Repeat([a \in Addr |-> IF a - d \in Bytes THEN mem[s + (a - d)] ELSE mem[a]])
    <3> DEFINE value == [a \in Addr |-> mem[s + (a - d)]]
    <3>1. Repeat([a \in Addr |-> IF a - d \in Bytes THEN value[a] ELSE mem[a]])
      BY <2>3 DEF Repeat
    <3>2. \A a \in Addr : a - d \in Bytes => value[a] = Want(a)
      BY <1>1, <2>1, <2>3, ReadsOldByte DEF Repeat
    <3> HIDE DEF value
    <3>3. pc' = "loop" /\ Progress'
      BY <1>1, <1>3, <2>1, <3>1, <3>2, RepeatProgress
    <3> QED
      BY <1>1, <3>3 DEF BlockInv, BlocksAsSpecified
  <2> QED
    BY <1>3, <2>2, <2>3 DEF Memmove, Move, SetUp
<1> QED
  BY <1>2, <1>3 DEF BlockInv, Memmove, Runs

LEMMA NextBlockInv == BlockInv /\ [Next]_vars => BlockInv'
<1> SUFFICES ASSUME BlockInv, [Next]_vars PROVE BlockInv'
  OBVIOUS
<1>1. CASE Look \/ Copy \/ Strtol
  BY <1>1, OtherRoutines
<1>2. CASE Memset
  BY <1>2, MemsetBlockInv
<1>3. CASE Memmove
  BY <1>3, MemmoveBlockInv
<1>4. CASE UNCHANGED vars
  BY <1>4 DEF BlockInv, vars, Fill, Moves, Progress, Copied, Want, Done, Size, DstInsideSrc,
     BlocksAsSpecified, Block
<1> QED
  BY <1>1, <1>2, <1>3, <1>4 DEF Next

\* For memories and blocks of every size, aligned or not, overlapping or not:
\* memmove and memcpy leave in dst what was in src when they were called,
\* memset the character, and nothing outside dst changes.
THEOREM BlocksCopied == Spec => []BlocksAsSpecified
<1>1. BlockInv => BlocksAsSpecified
  BY DEF BlockInv, BlocksAsSpecified, Fill, Moves
<1> QED
  BY <1>1, InitBlockInv, NextBlockInv, PTL DEF Spec

---------------------------------------------------------------------------
(* Types: what is written is a byte, because it is read inside memory. *)

Copies == call.fn \in {"strcpy", "strcat", "strncpy", "strlcpy"}

\* The size says how far the routine may look.
BySize ==
    /\ call.fn \in {"strncpy", "strlcpy"}
    /\ call.src + call.n <= MemSize /\ s <= call.src + n /\ n <= call.n

\* A NUL at e stops the routine: it is still there when s comes to it, since d
\* is behind it, or no further than s, or s is there already.
Looking == call.fn = "strcat" /\ pc = "entry"
ByNUL(e) ==
    /\ s <= e /\ mem[e] = NUL
    /\ \/ d > e
       \/ ~Looking /\ d <= s
       \/ mem[s] = NUL /\ call.fn = "strncpy"
       \/ Looking /\ \E f \in d .. s : mem[f] = NUL

ReadsInside ==
    Copies /\ pc # "done" => /\ s >= 0
                             /\ BySize \/ \E e \in Addr : ByNUL(e)

TInv == TypeOK /\ ReadsInside

LEMMA CopyArguments ==
  ASSUME call \in Cases, Copies
  PROVE  /\ call.mem \in [Addr -> Byte]
         /\ call.dst \in Nat /\ call.src \in Nat /\ call.n \in Nat
         /\ \/ call.fn \in {"strncpy", "strlcpy"} /\ call.src + call.n <= MemSize
            \/ \E e \in Addr :
                /\ call.src <= e /\ call.mem[e] = NUL
                /\ \/ call.dst > e
                   \/ call.fn # "strcat" /\ call.dst <= call.src
                   \/ call.fn = "strcat" /\ \E f \in call.dst .. call.src : call.mem[f] = NUL
BY CasesAssumption, CopiesAssumption DEF Copies

\* One byte is written.
LEMMA PutByte ==
  ASSUME mem \in [Addr -> Byte], NEW a, NEW v \in Byte, mem' = [mem EXCEPT ![a] = v]
  PROVE  /\ mem' \in [Addr -> Byte]
         /\ \A b \in Addr : mem'[b] = mem[b] \/ (b = a /\ mem'[b] = v)
OBVIOUS

LEMMA NULIsByte == NUL \in Byte
BY DEF NUL, Byte

\* The next character is in memory.
LEMMA ReadsByte ==
  ASSUME TInv, call \in Cases, Copies, pc # "done", call.fn \in {"strncpy", "strlcpy"} => n < call.n
  PROVE  mem[s] \in Byte
<1>1. s \in Addr
  <2>1. s \in Int /\ s >= 0 /\ n \in Nat /\ MemSize \in Nat /\ call.src \in Nat /\ call.n \in Nat
    BY SizesAssumption, CopyArguments DEF TInv, TypeOK, ReadsInside
  <2>2. CASE BySize
    BY <2>1, <2>2 DEF BySize, Addr
  <2>3. CASE \E e \in Addr : ByNUL(e)
    BY <2>1, <2>3 DEF ByNUL, Addr
  <2> QED BY <2>2, <2>3 DEF TInv, ReadsInside
<1> QED
  BY <1>1 DEF TInv, TypeOK

\* The character copied was not the last: s and d go on, and the NUL stays.
LEMMA AdvanceReads ==
  ASSUME TInv, call \in Cases, Copies, pc # "done", call.fn = "strcat" => pc # "entry",
         call.fn \in {"strncpy", "strlcpy"} => n < call.n, mem[s] # NUL,
         mem' = [mem EXCEPT ![d] = mem[s]], s' = s + 1, d' = d + 1, n' = n + 1,
         call' = call, pc' = pc
  PROVE  ReadsInside'
<1>0. /\ s \in Int /\ d \in Int /\ n \in Nat /\ s >= 0 /\ call.src \in Nat /\ call.n \in Nat
      /\ mem \in [Addr -> Byte] /\ mem[s] \in Byte
  BY CopyArguments, ReadsByte DEF TInv, TypeOK, ReadsInside
<1>1. CASE BySize
  <2>1. BySize'
    BY <1>0, <1>1 DEF BySize
  <2> QED BY <1>0, <2>1 DEF ReadsInside
<1>2. CASE \E e \in Addr : ByNUL(e)
  <2>1. PICK e \in Addr : ByNUL(e)
    BY <1>2
  <2>2. e \in Int
    BY SizesAssumption DEF Addr
  <2>3. s < e /\ (d > e \/ d <= s)
    BY <1>0, <2>1, <2>2 DEF ByNUL, Looking
  <2>4. mem'[e] = NUL
    BY <1>0, <2>1, <2>2, <2>3 DEF ByNUL, Looking
  <2>5. ByNUL(e)'
    BY <1>0, <2>2, <2>3, <2>4 DEF ByNUL, Looking
  <2> QED BY <1>0, <2>5 DEF ReadsInside
<1> QED
  BY <1>1, <1>2 DEF TInv, ReadsInside

LEMMA CopyStringTyped ==
  ASSUME TInv, call \in Cases, call.fn \in {"strcpy", "strcat"}, pc # "done",
         call.fn = "strcat" => pc # "entry", CopyString
  PROVE  TInv'
<1>0. Copies /\ call.fn \notin {"strncpy", "strlcpy"}
  BY DEF Copies
<1>1. mem[s] \in Byte /\ mem' = [mem EXCEPT ![d] = mem[s]] /\ call' = call
  BY <1>0, ReadsByte DEF CopyString, Put, Advance, Return
<1>2. mem' \in [Addr -> Byte]
  BY <1>1, PutByte DEF TInv, TypeOK
<1>3. CASE mem[s] # NUL /\ Advance
  <2>1. s' = s + 1 /\ d' = d + 1 /\ n' = n + 1 /\ pc' = pc /\ width' = width
    BY <1>3 DEF Advance
  <2>2. ReadsInside'
    BY <1>0, <1>1, <1>3, <2>1, AdvanceReads
  <2> QED BY <1>2, <2>1, <2>2 DEF TInv, TypeOK
<1>4. CASE Return(call.dst)
  BY <1>2, <1>4 DEF Return, TInv, TypeOK, ReadsInside
<1> QED
  BY <1>3, <1>4 DEF CopyString

\* strcat looks for the end of dst.
LEMMA StrcatTyped ==
  ASSUME TInv, call \in Cases, Strcat
  PROVE  TInv'
<1>0. call.fn = "strcat" /\ pc # "done" /\ Copies
  BY DEF Strcat, Runs, Copies
<1>1. CASE pc = "loop" /\ CopyString
  BY <1>0, <1>1, CopyStringTyped
<1>2. CASE /\ pc = "entry"
           /\ d' = IF mem[d] # NUL THEN d + 1 ELSE d
           /\ pc' = IF mem[d] # NUL THEN pc ELSE "loop"
           /\ UNCHANGED <<call, mem, s, n, width, neg, val, ret>>
  <2>1. s \in Int /\ d \in Int /\ s >= 0 /\ ~BySize
    BY <1>0 DEF TInv, TypeOK, ReadsInside, BySize
  <2>2. PICK e \in Addr : ByNUL(e)
    BY <1>0, <2>1 DEF TInv, ReadsInside
  <2>3. e \in Int
    BY SizesAssumption DEF Addr
  <2>4. d' \in Int /\ (d' = d \/ d' = d + 1)
    BY <1>2, <2>1
  <2>5. ReadsInside'
    <3>1. CASE d > e
      <4>1. ByNUL(e)'
        BY <1>0, <1>2, <2>1, <2>2, <2>3, <2>4, <3>1 DEF ByNUL, Looking
      <4> QED BY <1>2, <2>1, <4>1 DEF ReadsInside
    <3>2. CASE \E f \in d .. s : mem[f] = NUL
      <4>1. CASE mem[d] = NUL
        <5>1. ByNUL(e)'
          BY <1>0, <1>2, <2>1, <2>2, <2>3, <3>2, <4>1 DEF ByNUL, Looking
        <5> QED BY <1>2, <2>1, <5>1 DEF ReadsInside
      <4>2. CASE mem[d] # NUL
        <5>1. \E f \in d + 1 .. s : mem[f] = NUL
          BY <2>1, <3>2, <4>2
        <5>2. ByNUL(e)'
          BY <1>0, <1>2, <2>1, <2>2, <2>3, <4>2, <5>1 DEF ByNUL, Looking
        <5> QED BY <1>2, <2>1, <5>2 DEF ReadsInside
      <4> QED BY <4>1, <4>2
    <3>3. Looking
      BY <1>0, <1>2 DEF Looking
    <3> QED BY <1>0, <2>2, <3>1, <3>2, <3>3 DEF ByNUL
  <2> QED BY <1>2, <2>4, <2>5 DEF TInv, TypeOK
<1> QED
  BY <1>1, <1>2 DEF Strcat

LEMMA StrncpyTyped ==
  ASSUME TInv, call \in Cases, Strncpy
  PROVE  TInv'
<1>0. call.fn = "strncpy" /\ pc # "done" /\ Copies
  BY DEF Strncpy, Runs, Copies
<1>1. CASE Answer(call.dst)
  BY <1>1 DEF Answer, Return, TInv, TypeOK, ReadsInside
<1>2. CASE /\ n < call.n
           /\ Put(d, mem[s])
           /\ s' = IF mem[s] # NUL THEN s + 1 ELSE s
           /\ d' = d + 1
           /\ n' = n + 1
           /\ UNCHANGED <<call, width, neg, val, pc, ret>>
  <2>1. /\ s \in Int /\ d \in Int /\ n \in Nat /\ s >= 0 /\ call.src \in Nat /\ call.n \in Nat
        /\ mem \in [Addr -> Byte] /\ mem[s] \in Byte
    BY <1>0, <1>2, CopyArguments, ReadsByte DEF TInv, TypeOK, ReadsInside
  <2>2. mem' = [mem EXCEPT ![d] = mem[s]] /\ mem' \in [Addr -> Byte]
    BY <1>2, <2>1, PutByte DEF Put
  <2>3. ReadsInside'
    <3>1. CASE mem[s] # NUL
      BY <1>0, <1>2, <2>2, <3>1, AdvanceReads
    <3>2. CASE mem[s] = NUL
      <4>1. CASE BySize
        <5>1. BySize'
          BY <1>2, <2>1, <3>2, <4>1 DEF BySize
        <5> QED BY <1>2, <2>1, <3>2, <5>1 DEF ReadsInside
      <4>2. CASE \E e \in Addr : ByNUL(e)
        <5>1. PICK e \in Addr : ByNUL(e)
          BY <4>2
        <5>2. e \in Int /\ s \in Addr
          BY <2>1, <5>1, SizesAssumption DEF Addr, ByNUL
        <5>3. mem'[e] = NUL /\ mem'[s] = NUL
          BY <2>1, <2>2, <3>2, <5>1, <5>2 DEF ByNUL
        <5>4. ByNUL(e)'
          BY <1>0, <1>2, <3>2, <5>1, <5>3 DEF ByNUL
        <5> QED BY <1>2, <2>1, <3>2, <5>4 DEF ReadsInside
      <4> QED BY <1>0, <4>1, <4>2 DEF TInv, ReadsInside
    <3> QED BY <3>1, <3>2
  <2>4. s' \in Int /\ d' \in Int /\ n' \in Nat
    BY <1>2, <2>1
  <2> QED BY <1>2, <2>2, <2>3, <2>4 DEF TInv, TypeOK
<1> QED
  BY <1>1, <1>2 DEF Strncpy

LEMMA StrlcpyTyped ==
  ASSUME TInv, call \in Cases, Strlcpy
  PROVE  TInv'
<1>0. call.fn = "strlcpy" /\ pc # "done" /\ Copies /\ n \in Nat /\ call.n \in Nat
  BY CopyArguments DEF Strlcpy, Runs, Copies, TInv, TypeOK
<1>1. CASE RoomForChar /\ mem[s] # NUL /\ Put(d, mem[s]) /\ Advance
  <2>1. n < call.n
    BY <1>0, <1>1 DEF RoomForChar
  <2>2. mem' = [mem EXCEPT ![d] = mem[s]] /\ mem[s] \in Byte
    BY <1>0, <1>1, <2>1, ReadsByte DEF Put
  <2>3. mem' \in [Addr -> Byte]
    BY <2>2, PutByte DEF TInv, TypeOK
  <2>4. /\ s' = s + 1 /\ d' = d + 1 /\ n' = n + 1 /\ pc' = pc /\ width' = width
        /\ call' = call
    BY <1>1 DEF Advance
  <2>5. ReadsInside'
    BY <1>0, <1>1, <2>1, <2>2, <2>4, AdvanceReads
  <2> QED BY <2>3, <2>4, <2>5 DEF TInv, TypeOK
<1>2. CASE Put(d, NUL) /\ Return(n)
  <2>1. mem' \in [Addr -> Byte]
    BY <1>2, PutByte, NULIsByte DEF Put, TInv, TypeOK
  <2> QED BY <1>2, <2>1 DEF Return, TInv, TypeOK, ReadsInside
<1>3. CASE Answer(0)
  BY <1>3 DEF Answer, Return, TInv, TypeOK, ReadsInside
<1> QED
  BY <1>1, <1>2, <1>3 DEF Strlcpy

LEMMA LookTyped ==
  ASSUME TInv, call \in Cases, Look
  PROVE  TInv'
<1>1. ~Copies
  BY DEF Copies, Look, Strlen, Strnlen, Strcmp, Strncmp, Strchr, Strfind, Memcmp, Memfind, Runs
<1>2. Skip \/ \E v : Answer(v)
  BY Zenon DEF Look, Strlen, Strnlen, Strcmp, Strncmp, Strchr, Strfind, Memcmp, Memfind
<1>3. CASE Skip
  BY <1>1, <1>3 DEF Skip, Advance, TInv, TypeOK, ReadsInside, Copies
<1>4. CASE \E v : Answer(v)
  BY <1>1, <1>4 DEF Answer, Return, TInv, TypeOK, ReadsInside, Copies
<1> QED
  BY <1>2, <1>3, <1>4

LEMMA StrtolTyped ==
  ASSUME TInv, call \in Cases, Strtol
  PROVE  TInv'
<1>1. ~Copies /\ call' = call /\ mem' = mem /\ d' = d /\ width' = width /\ call.c \in Nat
  BY CasesAssumption DEF Strtol, Runs, Copies
<1>2. \A p : BaseAt(p).base \in Nat /\ BaseAt(p).skip \in Nat
  BY <1>1 DEF BaseAt
<1>3. s' \in Int /\ n' \in Nat /\ pc' \in {"entry", "loop", "done"}
  <2>1. s \in Int /\ n \in Nat /\ pc \in {"entry", "loop", "done"}
    BY DEF TInv, TypeOK
  <2>2. CASE \E p \in {s, s + 1} : s' = p + BaseAt(p).skip /\ n' = BaseAt(p).base /\ pc' = "loop"
    <3>1. PICK p \in {s, s + 1} :
            s' = p + BaseAt(p).skip /\ n' = BaseAt(p).base /\ pc' = "loop"
      BY <2>2
    <3> DEFINE b == BaseAt(p).base
               k == BaseAt(p).skip
    <3>2. b \in Nat /\ k \in Nat
      BY <1>2
    <3>3. s' = p + k /\ n' = b
      BY <3>1
    <3> HIDE DEF b, k
    <3> QED BY <2>1, <3>1, <3>2, <3>3
  <2>3. CASE (s' = s \/ s' = s + 1) /\ n' = n /\ (pc' = pc \/ pc' = "done")
    BY <2>1, <2>3
  <2>4. \/ \E p \in {s, s + 1} : s' = p + BaseAt(p).skip /\ n' = BaseAt(p).base /\ pc' = "loop"
        \/ (s' = s \/ s' = s + 1) /\ n' = n /\ (pc' = pc \/ pc' = "done")
    BY Zenon DEF Strtol
  <2> QED BY <2>2, <2>3, <2>4
<1> QED
  BY <1>1, <1>3 DEF TInv, TypeOK, ReadsInside, Copies

\* Memory in the middle of a block: what is written there is a byte.
MemoryTyped == mem \in [Addr -> Byte]

LEMMA BlocksTyped == BlockInv /\ (Fill \/ Moves) => MemoryTyped
<1> SUFFICES ASSUME BlockInv, Fill \/ Moves
             PROVE  mem \in [Addr -> Byte]
  BY DEF MemoryTyped
<1>0. /\ call \in Cases /\ call.mem \in [Addr -> Byte] /\ MemSize \in Nat
      /\ call.dst \in Nat /\ call.src \in Nat /\ call.n \in Nat /\ call.c \in Int
      /\ call.dst + call.n <= MemSize
      /\ Moves => call.src + call.n <= MemSize
  BY Arguments, SizesAssumption DEF BlockInv
<1>1. \A a \in Block : Want(a) \in Byte
  <2> SUFFICES ASSUME NEW a \in Block PROVE Want(a) \in Byte
    OBVIOUS
  <2>1. CASE Fill
    <3>1. Char(call.c) \in Byte
      <4> DEFINE c == call.c
      <4>1. c \in Int
        BY <1>0
      <4> HIDE DEF c
      <4>2. c % 256 \in 0 .. 255
        BY <4>1
      <4> QED BY <4>2 DEF Char, Byte, c
    <3> QED BY <2>1, <3>1 DEF Want
  <2>2. CASE Moves /\ ~Fill
    <3>1. call.src + (a - call.dst) \in Addr
      BY <1>0, <2>2, SMTT(30) DEF Block, Addr
    <3> QED BY <1>0, <2>2, <3>1 DEF Want
  <2> QED BY <2>1, <2>2
<1>2. CASE pc = "entry"
  BY <1>0, <1>2 DEF BlockInv
<1>3. CASE pc = "loop"
  <2>1. Progress
    BY <1>3 DEF BlockInv
  <2>2. Done \subseteq Block
    BY <1>0, <2>1 DEF Progress, Done, Block, Size
  <2> QED BY <1>0, <1>1, <2>1, <2>2 DEF Progress, Copied
<1>4. CASE pc = "done"
  <2>1. mem = [a \in Addr |-> IF a \in Block THEN Want(a) ELSE call.mem[a]]
    BY <1>4 DEF BlockInv, BlocksAsSpecified, Want, Fill, Moves
  <2> QED BY <1>0, <1>1, <2>1
<1> QED
  BY <1>2, <1>3, <1>4 DEF BlockInv

LEMMA BlockRoutinesTyped ==
  ASSUME TInv, BlockInv, Memset \/ Memmove
  PROVE  TInv'
<1>1. (Fill \/ Moves) /\ ~Copies /\ call' = call /\ call \in Cases
  BY DEF Memset, Memmove, Move, SetUp, Repeat, Ends, Answer, Return, Runs, Fill, Moves, Copies,
     BlockInv
<1>2. mem' \in [Addr -> Byte]
  <2>1. BlockInv' /\ (Fill \/ Moves)'
    BY <1>1, MemsetBlockInv, MemmoveBlockInv DEF Fill, Moves
  <2>2. MemoryTyped'
    BY <2>1, BlocksTyped, PTL
  <2> QED BY <2>2 DEF MemoryTyped
<1>3. /\ s' \in Int /\ d' \in Int /\ n' \in Nat
      /\ width' \in {-4, -1, 1, 4} /\ pc' \in {"entry", "loop", "done"}
  <2>1. /\ s \in Int /\ d \in Int /\ n \in Nat /\ width \in {-4, -1, 1, 4}
        /\ call.dst \in Nat /\ call.src \in Nat /\ call.n \in Nat
        /\ call.n \div 4 \in Int /\ call.n \div 4 >= 0
    BY <1>1, Arguments DEF TInv, TypeOK
  <2>2. CASE \E m : Repeat(m)
    BY <2>1, <2>2 DEF Repeat
  <2>3. CASE Ends
    BY <2>1, <2>3 DEF Ends, Answer, Return
  <2>4. CASE \/ SetUp(4, s, call.dst, call.n \div 4) \/ SetUp(1, s, call.dst, call.n)
             \/ Move
    BY <2>1, <2>4 DEF Move, SetUp
  <2> QED BY <2>2, <2>3, <2>4, Zenon DEF Memset, Memmove
<1> QED
  BY <1>1, <1>2, <1>3 DEF TInv, TypeOK, ReadsInside, Copies

LEMMA InitTInv == ASSUME Init PROVE TInv
<1>1. /\ call \in Cases /\ mem = call.mem /\ s = call.src /\ d = call.dst /\ n = 0
      /\ width = 1 /\ pc = "entry"
  BY DEF Init
<1>2. /\ call.mem \in [Addr -> Byte] /\ call.dst \in Nat /\ call.src \in Nat /\ call.n \in Nat
  BY <1>1, CasesAssumption
<1>3. ReadsInside
  <2> SUFFICES ASSUME Copies PROVE BySize \/ \E e \in Addr : ByNUL(e)
    BY <1>1, <1>2 DEF ReadsInside
  <2>1. CASE call.fn \in {"strncpy", "strlcpy"} /\ call.src + call.n <= MemSize
    BY <1>1, <1>2, <2>1 DEF BySize
  <2>2. CASE \E e \in Addr :
                /\ call.src <= e /\ call.mem[e] = NUL
                /\ \/ call.dst > e
                   \/ call.fn # "strcat" /\ call.dst <= call.src
                   \/ call.fn = "strcat" /\ \E f \in call.dst .. call.src : call.mem[f] = NUL
    BY <1>1, <2>2, Zenon DEF ByNUL, Looking
  <2> QED BY <1>1, <2>1, <2>2, CopyArguments
<1> QED
  BY <1>1, <1>2, <1>3 DEF TInv, TypeOK

LEMMA NextTInv == ASSUME TInv, BlockInv, [Next]_vars PROVE TInv'
<1>0. call \in Cases
  BY DEF BlockInv
<1>1. CASE Look
  BY <1>0, <1>1, LookTyped
<1>2. CASE Copy
  <2>1. CASE Strcpy
    BY <1>0, <2>1, CopyStringTyped DEF Strcpy, Runs
  <2> QED BY <1>0, <1>2, <2>1, StrcatTyped, StrncpyTyped, StrlcpyTyped DEF Copy
<1>3. CASE Memset \/ Memmove
  BY <1>3, BlockRoutinesTyped
<1>4. CASE Strtol
  BY <1>0, <1>4, StrtolTyped
<1>5. CASE UNCHANGED vars
  BY <1>5 DEF vars, TInv, TypeOK, ReadsInside, Copies, BySize, ByNUL, Looking
<1> QED
  BY <1>1, <1>2, <1>3, <1>4, <1>5 DEF Next

\* For every memory, every width of a long and every call whose arguments fit
\* memory: memory keeps its bytes, since no routine that copies reads outside
\* memory, and a string instruction keeps its direction and never counts past 0.
THEOREM RoutinesTyped == Spec => []TypeOK
<1>1. TInv => TypeOK
  BY DEF TInv
<1>2. Init => TInv
  BY InitTInv
<1>3. TInv /\ BlockInv /\ [Next]_vars => TInv'
  BY NextTInv
<1> QED
  BY <1>1, <1>2, <1>3, InitBlockInv, NextBlockInv, PTL DEF Spec
=========================================================================
