---------------------------- MODULE Strings ----------------------------
(***************************************************************************)
(* The string routines of lab/lib/string.c, on a memory of bytes.  One     *)
(* step is one turn of a routine's loop; memset and memmove are the        *)
(* versions with string instructions, of which one step is one repetition, *)
(* of a byte or of a word of four.  A call runs alone to its return.       *)
(***************************************************************************)
EXTENDS Integers

CONSTANTS
    MemSize,    \* bytes of memory; addresses are 0 .. MemSize-1
    LongBits,   \* width of a long
    Cases       \* calls: [mem, fn, dst, src, n, c], base in c for strtol

Addr == 0 .. MemSize-1
Byte == 0 .. 255
NUL  == 0
Null == -1      \* the null pointer

ASSUME SizesAssumption == MemSize \in Nat /\ LongBits \in Nat \ {0}
ASSUME CasesAssumption ==
    \A x \in Cases :
        /\ x.mem \in [Addr -> Byte]
        /\ x.dst \in Nat /\ x.src \in Nat /\ x.n \in Nat /\ x.c \in Int
        /\ x.fn \in {"memmove", "memcpy", "memset"} => x.dst + x.n <= MemSize
        /\ x.fn \in {"memmove", "memcpy"} => x.src + x.n <= MemSize
        /\ x.fn = "strtol" => x.c \in Nat
\* A string that is copied ends in memory, and the copy goes to where no
\* character is overwritten before it is read; or the size keeps the routine
\* inside memory.
ASSUME CopiesAssumption ==
    \A x \in Cases :
        x.fn \in {"strcpy", "strcat", "strncpy", "strlcpy"} =>
            \/ x.fn \in {"strncpy", "strlcpy"} /\ x.src + x.n <= MemSize
            \/ \E e \in Addr :
                /\ x.src <= e /\ x.mem[e] = NUL
                /\ \/ x.dst > e
                   \/ x.fn # "strcat" /\ x.dst <= x.src
                   \/ x.fn = "strcat" /\ \E f \in x.dst .. x.src : x.mem[f] = NUL

VARIABLES
    call,       \* the call: its arguments, and memory as it was
    mem,        \* memory
    s, d,       \* the pointers the loop moves
    n,          \* its counter
    width,      \* of a string instruction: 1 or 4, negative if it goes down
    neg, val,   \* strtol
    pc,         \* "entry", "loop" or "done"
    ret         \* what was returned

vars == <<call, mem, s, d, n, width, neg, val, pc, ret>>

Init ==
    /\ call \in Cases
    /\ mem = call.mem
    /\ s = call.src /\ d = call.dst /\ n = 0
    /\ width = 1
    /\ neg = FALSE /\ val = 0
    /\ pc = "entry"
    /\ ret = 0

Runs(fn) == pc # "done" /\ call.fn = fn

Return(v) ==
    /\ ret' = v
    /\ pc' = "done"
    /\ UNCHANGED <<call, s, d, n, width, neg, val>>

Answer(v) == Return(v) /\ UNCHANGED mem

\* Both pointers go on to the next byte.
Advance ==
    /\ s' = s + 1
    /\ d' = d + 1
    /\ n' = n + 1
    /\ UNCHANGED <<call, width, neg, val, pc, ret>>

Skip == Advance /\ UNCHANGED mem
Put(a, v) == mem' = [mem EXCEPT ![a] = v]

---------------------------------------------------------------------------
(* Looking at strings *)

Strlen == Runs("strlen") /\ IF mem[s] # NUL THEN Skip ELSE Answer(n)

Strnlen ==
    Runs("strnlen") /\ IF n < call.n /\ mem[s] # NUL THEN Skip ELSE Answer(n)

Strcmp ==
    Runs("strcmp") /\ IF mem[s] # NUL /\ mem[s] = mem[d] THEN Skip ELSE Answer(mem[s] - mem[d])

Strncmp ==
    /\ Runs("strncmp")
    /\ IF n = call.n THEN Answer(0)
       ELSE IF mem[s] # NUL /\ mem[s] = mem[d] THEN Skip
       ELSE Answer(mem[s] - mem[d])

Char(c) == c % 256

Strchr ==
    /\ Runs("strchr")
    /\ IF mem[s] = NUL THEN Answer(Null)
       ELSE IF mem[s] = Char(call.c) THEN Answer(s) ELSE Skip

Strfind ==
    Runs("strfind") /\ IF mem[s] \in {NUL, Char(call.c)} THEN Answer(s) ELSE Skip

Memcmp ==
    /\ Runs("memcmp")
    /\ IF n = call.n THEN Answer(0)
       ELSE IF mem[s] = mem[d] THEN Skip ELSE Answer(mem[s] - mem[d])

Memfind ==
    /\ Runs("memfind")
    /\ IF n < call.n /\ mem[s] # Char(call.c) THEN Skip ELSE Answer(s)

---------------------------------------------------------------------------
(* Copying strings *)

\* The NUL is copied before it ends the loop.
CopyString ==
    Put(d, mem[s]) /\ IF mem[s] # NUL THEN Advance ELSE Return(call.dst)

Strcpy == Runs("strcpy") /\ CopyString

\* strlen(dst), then strcpy to its end.
Strcat ==
    /\ Runs("strcat")
    /\ \/ /\ pc = "entry"
          /\ d' = IF mem[d] # NUL THEN d + 1 ELSE d
          /\ pc' = IF mem[d] # NUL THEN pc ELSE "loop"
          /\ UNCHANGED <<call, mem, s, n, width, neg, val, ret>>
       \/ pc = "loop" /\ CopyString

\* Past the end of src the pointer stays on its NUL, which pads dst.
Strncpy ==
    /\ Runs("strncpy")
    /\ \/ n = call.n /\ Answer(call.dst)
       \/ /\ n < call.n
          /\ Put(d, mem[s])
          /\ s' = IF mem[s] # NUL THEN s + 1 ELSE s
          /\ d' = d + 1
          /\ n' = n + 1
          /\ UNCHANGED <<call, width, neg, val, pc, ret>>

\* Mutant: the last place is not kept for the NUL.
RoomWithoutNUL == n < call.n
RoomForChar == n + 1 < call.n

\* At most call.n - 1 characters and a NUL; nothing at all for a size of 0.
Strlcpy ==
    /\ Runs("strlcpy")
    /\ IF RoomForChar /\ mem[s] # NUL THEN Put(d, mem[s]) /\ Advance
       ELSE IF call.n > 0 THEN Put(d, NUL) /\ Return(n)
       ELSE Answer(0)

---------------------------------------------------------------------------
(* Blocks of memory *)

\* One repetition of a string instruction writes the bytes at d and, if it
\* goes by words, the three after.
Bytes == IF width \in {1, -1} THEN {0} ELSE 0 .. 3

\* (Mutant: the count is one of bytes.)
RepeatCountsBytes(written) ==
    /\ pc = "loop"
    /\ n > 0
    /\ mem' = written
    /\ s' = s + width
    /\ d' = d + width
    /\ n' = n - IF width \in {1, -1} THEN 1 ELSE 4
    /\ UNCHANGED <<call, width, neg, val, pc, ret>>

Repeat(written) ==
    /\ pc = "loop"
    /\ n > 0
    /\ mem' = written
    /\ s' = s + width
    /\ d' = d + width
    /\ n' = n - 1
    /\ UNCHANGED <<call, width, neg, val, pc, ret>>

\* The instruction is set up with n repetitions of w bytes, from s to d.
SetUp(w, from, to, count) ==
    /\ pc = "entry"
    /\ width' = w
    /\ s' = from
    /\ d' = to
    /\ n' = count
    /\ pc' = "loop"
    /\ UNCHANGED <<call, mem, neg, val, ret>>

Ends == pc = "loop" /\ n = 0 /\ Answer(call.dst)

\* A block of no bytes goes through the instruction too, which then writes
\* nothing, as memset does by returning at once.
Memset ==
    /\ Runs("memset")
    /\ \/ IF call.dst % 4 = 0 /\ call.n % 4 = 0
          THEN SetUp(4, s, call.dst, call.n \div 4)
          ELSE SetUp(1, s, call.dst, call.n)
       \/ Repeat([a \in Addr |-> IF a - d \in Bytes THEN Char(call.c) ELSE mem[a]])
       \/ Ends

Words(from, to) == from % 4 = 0 /\ to % 4 = 0 /\ call.n % 4 = 0

\* Mutant: the pointers are compared the other way round.
DstInsideSrcSwapped == call.dst < call.src /\ call.dst + call.n > call.src
DstInsideSrc == call.src < call.dst /\ call.src + call.n > call.dst

\* If dst begins inside src the copy starts at the ends and goes down.
Move ==
    LET sEnd == call.src + call.n
        dEnd == call.dst + call.n
        words == call.n \div 4
    IN  \/ DstInsideSrc /\ IF Words(sEnd, dEnd) THEN SetUp(-4, sEnd - 4, dEnd - 4, words)
                           ELSE SetUp(-1, sEnd - 1, dEnd - 1, call.n)
        \/ ~DstInsideSrc /\ IF Words(call.src, call.dst)
                            THEN SetUp(4, call.src, call.dst, words)
                            ELSE SetUp(1, call.src, call.dst, call.n)

Memmove ==
    /\ Runs("memmove") \/ Runs("memcpy")
    /\ \/ Move
       \/ Repeat([a \in Addr |-> IF a - d \in Bytes THEN mem[s + (a - d)] ELSE mem[a]])
       \/ Ends

---------------------------------------------------------------------------
(* strtol *)

\* What a long keeps of a result; the processor drops the rest.
Long(x) == ((x + 2^(LongBits-1)) % 2^LongBits) - 2^(LongBits-1)

NoDigit == 99
Digit(b) ==
    CASE b \in 48 .. 57  -> b - 48
      [] b \in 97 .. 122 -> b - 97 + 10
      [] b \in 65 .. 90  -> b - 65 + 10
      [] OTHER -> NoDigit

Blank == mem[s] \in {32, 9}
Sign  == mem[s] \in {43, 45}

\* The base and the length of its prefix, for digits that begin at p.  (n holds
\* the base in strtol.)
BaseAt(p) ==
    IF call.c \in {0, 16} /\ mem[p] = 48 /\ mem[p + 1] = 120 THEN [base |-> 16, skip |-> 2]
    ELSE IF call.c = 0 /\ mem[p] = 48 THEN [base |-> 8, skip |-> 1]
    ELSE [base |-> IF call.c = 0 THEN 10 ELSE call.c, skip |-> 0]

Strtol ==
    /\ Runs("strtol")
    /\ \/ /\ pc = "entry" /\ Blank
          /\ s' = s + 1
          /\ UNCHANGED <<n, neg, val, pc, ret>>
       \/ /\ pc = "entry" /\ ~Blank
          /\ LET p == IF Sign THEN s + 1 ELSE s
             IN  /\ neg' = (mem[s] = 45)
                 /\ s' = p + BaseAt(p).skip
                 /\ n' = BaseAt(p).base
          /\ pc' = "loop"
          /\ UNCHANGED <<val, ret>>
       \/ /\ pc = "loop" /\ Digit(mem[s]) < n
          /\ s' = s + 1
          /\ val' = Long(val * n + Digit(mem[s]))
          /\ UNCHANGED <<n, neg, pc, ret>>
       \/ /\ pc = "loop" /\ Digit(mem[s]) >= n
          /\ ret' = IF neg THEN Long(-val) ELSE val
          /\ pc' = "done"
          /\ UNCHANGED <<s, n, neg, val>>
    /\ UNCHANGED <<call, mem, d, width>>

---------------------------------------------------------------------------
Look == Strlen \/ Strnlen \/ Strcmp \/ Strncmp \/ Strchr \/ Strfind \/ Memcmp \/ Memfind
Copy == Strcpy \/ Strcat \/ Strncpy \/ Strlcpy
Next == Look \/ Copy \/ Memset \/ Memmove \/ Strtol

Spec == Init /\ [][Next]_vars

---------------------------------------------------------------------------
\* Types: memory keeps its bytes and a string instruction its direction.
TypeOK ==
    /\ mem \in [Addr -> Byte]
    /\ s \in Int /\ d \in Int /\ n \in Nat
    /\ width \in {-4, -1, 1, 4}
    /\ pc \in {"entry", "loop", "done"}

Block == call.dst .. call.dst + call.n - 1

\* memmove leaves in dst what was in src before, however the two overlap, and
\* memset the character, in words or in bytes; no byte outside dst changes.
BlocksAsSpecified ==
    pc = "done" =>
        /\ call.fn = "memset" =>
            mem = [a \in Addr |-> IF a \in Block THEN Char(call.c) ELSE call.mem[a]]
        /\ call.fn \in {"memmove", "memcpy"} =>
            mem = [a \in Addr |-> IF a \in Block THEN call.mem[call.src + (a - call.dst)]
                                  ELSE call.mem[a]]
=========================================================================
