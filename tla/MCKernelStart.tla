-------------------------- MODULE MCKernelStart --------------------------
(* Instances of Backtrace for TLC: kernels as kernel.ld lays them out,   *)
(* with segments that end at, before and after a sector's end; and kernels *)
(* whose data follow the text in memory as in the file.                    *)
EXTENDS Backtrace

MCText == 40            \* load address of .text
MCKernbase == 384

Segment(p, o, f, s) == [p_pa |-> p, p_offset |-> o, p_filesz |-> f, p_memsz |-> s]
GNU_STACK == Segment(0, 0, 0, 0)

\* A kernel of .text and .data, with names of the file's bytes that matter.
Image(phs, d, size) ==
    LET va == MCKernbase + d.p_pa
    IN  [magic |-> TRUE, size |-> size, headers |-> 6, phs |-> phs,
         textPa |-> MCText, textOffset |-> 20, e_entry |-> MCText,
         relocated |-> MCKernbase + MCText + 2, spin |-> MCKernbase + MCText + 3,
         i386_init |-> MCKernbase + MCText + 4, test_backtrace |-> MCKernbase + MCText + 7,
         mon_backtrace |-> MCKernbase + MCText + 10, monitor |-> MCKernbase + MCText + 11,
         runcmd |-> MCKernbase + MCText + 13,
         bootstack |-> va + 1, bootstacktop |-> va + 17,
         pgdir |-> va + 17, pgdirOffset |-> d.p_offset + 17,
         edata |-> va + d.p_filesz, end |-> va + d.p_memsz]

Text(t) == Segment(MCText, 20, t, t)
Data(d, b) == Segment(60, 40, d, d + b)
Following(t, d, b) == Segment(MCText + t, 20 + t, d, d + b)

LinkedImages ==
    UNION {{Image(<<Text(t), Data(d, b)>>, Data(d, b), 40 + d + rest),
            Image(<<Text(t), Data(d, b), GNU_STACK>>, Data(d, b), 40 + d + rest)} :
           t \in {15, 16, 17}, d \in {18, 19, 20}, b \in {0, 1, 7}, rest \in {0, 5}}

ContiguousImages ==
    {Image(<<Text(t), Following(t, d, b)>>, Following(t, d, b), 20 + t + d) :
        t \in {15, 16, 18}, d \in {19, 20}, b \in {0, 3}}

NotAKernel == [Image(<<>>, Data(18, 0), 9) EXCEPT !.magic = FALSE]

MCImages == LinkedImages \cup ContiguousImages \cup {NotAKernel}

=========================================================================
