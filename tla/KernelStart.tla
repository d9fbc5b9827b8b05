--------------------------- MODULE KernelStart ---------------------------
(***************************************************************************)
(* From the boot loader to the console: lab/kern/entry.S turns paging on   *)
(* with the page directory of entrypgdir.c and sets up a stack, and        *)
(* i386_init clears the BSS.  The program counter is an address of the     *)
(* kernel; the processor fetches through the map that is in force.         *)
(***************************************************************************)
EXTENDS BootLoader

CONSTANTS
    KERNBASE,
    PTSIZE      \* bytes that one page directory entry maps

ASSUME PagingAssumption ==
    /\ PTSIZE \in Nat \ {0} /\ MemSize <= PTSIZE
    /\ KERNBASE \in Nat \ {0} /\ KERNBASE % PTSIZE = 0

\* The kernel is linked at KERNBASE, and its stack, with some of its data above
\* it, and its BSS are in memory; of the file's bytes none is in the BSS.
ASSUME LinkedAssumption ==
    \A im \in Images :
        /\ {im.relocated, im.spin, im.i386_init} \subseteq {va \in Nat : va >= KERNBASE}
        /\ {im.bootstack, im.bootstacktop + 5, im.edata, im.end} \subseteq
                KERNBASE .. KERNBASE + MemSize
        /\ im.bootstacktop <= im.edata \/ im.end <= im.bootstack
        /\ im.bootstacktop \in Nat /\ im.bootstack + 2 <= im.bootstacktop
        /\ \A i \in DOMAIN im.phs :
            LET h == im.phs[i]
            IN  KERNBASE + h.p_pa + h.p_filesz <= im.edata \/ im.end <= KERNBASE + h.p_pa

VARIABLES
    paging,     \* the PG bit of cr0, with entry_pgdir in cr3
    eip, esp, ebp

cpu == <<paging, eip, esp, ebp>>
startVars == <<loaderVars, cpu>>

\* RELOC of entry.S.
Reloc(va) == va - KERNBASE

\* Mutant: the first 4MB are mapped at KERNBASE only.
entry_pgdir_high == [e \in {KERNBASE \div PTSIZE} |-> [W |-> TRUE]]

\* Present entries of entry_pgdir.  entry_pgtable maps PTSIZE bytes to
\* themselves.
entry_pgdir == [e \in {0, KERNBASE \div PTSIZE} |-> [W |-> e # 0]]

\* The page directory is in the kernel's data: it is there if it was loaded.
PgdirInPlace == mem[Reloc(image.pgdir)] = FileByte(image.pgdirOffset)

Mapped(va) == paging =>
    PgdirInPlace /\ va \div PTSIZE \in DOMAIN entry_pgdir
Writable(va) == Mapped(va) /\ (paging => entry_pgdir[va \div PTSIZE].W)
Phys(va) == IF paging THEN va % PTSIZE ELSE va

---------------------------------------------------------------------------
\* The processor executes the instruction at eip.
Fetch == Mapped(eip) /\ mem[Phys(eip)] = FileByte(image.textOffset + Phys(eip) - image.textPa)

Load ==
    /\ Loader
    /\ eip' = IF at' = "entry" THEN image.e_entry ELSE eip
    /\ UNCHANGED <<paging, esp, ebp>>

Disk == DiskReady /\ UNCHANGED cpu

\* movl %eax, %cr0: the next instruction is still at a low address.
TurnOnPaging ==
    /\ at = "entry" /\ Fetch
    /\ paging' = TRUE
    /\ eip' = eip + 1
    /\ at' = "paging"
    /\ UNCHANGED <<image, mem, ph, segment, disk, esp, ebp>>

\* Mutant: the jump is relative to where the kernel was loaded.
JumpNear ==
    /\ at = "paging" /\ Fetch
    /\ eip' = Reloc(image.relocated)
    /\ at' = "relocated"
    /\ UNCHANGED <<image, mem, ph, segment, disk, paging, esp, ebp>>

\* jmp *%eax
JumpUp ==
    /\ at = "paging" /\ Fetch
    /\ eip' = image.relocated
    /\ at' = "relocated"
    /\ UNCHANGED <<image, mem, ph, segment, disk, paging, esp, ebp>>

\* A cell of the stack holds a word; the word 0 is zero bytes.
Word(n) == IF n = 0 THEN Zero ELSE Boot - n
WordAt(va) ==
    LET w == mem[Phys(va)]
    IN  CASE w = Zero -> 0 [] w < Boot -> Boot - w [] OTHER -> w

\* Calls are relative: they stay in the half of the address space where the
\* processor is.
Near(va) == IF eip < KERNBASE THEN Reloc(va) ELSE va

\* f(args) is called, with the stack pointer at sp and the frame pointer at
\* bp: arguments and return address are pushed, and bp by what f begins with.
\* (How much f takes for its locals is the compiler's choice: nothing here.)
Enter(bp, sp, args, return, f) ==
    LET words == <<bp, Near(return)>> \o args
        top == sp - Len(words)
    IN  /\ \A k \in DOMAIN words : Writable(top + k - 1)
        /\ mem' = [a \in DOMAIN mem |->
                     IF a - Phys(top) + 1 \in DOMAIN words
                     THEN Word(words[a - Phys(top) + 1]) ELSE mem[a]]
        /\ esp' = top
        /\ ebp' = top
        /\ eip' = Near(f)
        /\ UNCHANGED <<image, ph, segment, disk, paging>>

\* Mutant: the stack pointer is set to the low end of the stack.
CallInitLowStack ==
    /\ at = "relocated" /\ Fetch
    /\ Enter(0, image.bootstack, <<>>, image.spin, image.i386_init)
    /\ at' = "i386_init"

\* Mutant: the frame pointer stays as the boot loader left it.
CallInitOldFrame ==
    /\ at = "relocated" /\ Fetch
    /\ Enter(ebp, image.bootstacktop, <<>>, image.spin, image.i386_init)
    /\ at' = "i386_init"

\* movl $0x0, %ebp; movl $(bootstacktop), %esp; call i386_init
CallInit ==
    /\ at = "relocated" /\ Fetch
    /\ Enter(0, image.bootstacktop, <<>>, image.spin, image.i386_init)
    /\ at' = "i386_init"

Bss == image.edata .. image.end - 1

\* Mutant: the byte at end is cleared too, and that at edata is not.
ClearBssShifted ==
    /\ at = "i386_init" /\ Fetch
    /\ \A va \in Bss : Writable(va)
    /\ mem' = [a \in DOMAIN mem |->
                 IF a \in {Phys(va) + 1 : va \in Bss} THEN Zero ELSE mem[a]]
    /\ at' = "cons_init"
    /\ UNCHANGED <<image, ph, segment, disk, cpu>>

\* memset(edata, 0, end - edata)
ClearBss ==
    /\ at = "i386_init" /\ Fetch
    /\ \A va \in Bss : Writable(va)
    /\ mem' = [a \in DOMAIN mem |->
                 IF a \in {Phys(va) : va \in Bss} THEN Zero ELSE mem[a]]
    /\ at' = "cons_init"
    /\ UNCHANGED <<image, ph, segment, disk, cpu>>

Init ==
    /\ LoaderInit
    /\ paging = FALSE
    /\ eip = Junk
    /\ esp = Junk
    /\ ebp = 1       \* in the loader's stack, which is below the scratch page

Kernel == TurnOnPaging \/ JumpUp \/ CallInit \/ ClearBss
Next == Load \/ Disk \/ Kernel

---------------------------------------------------------------------------
Stack == image.bootstack .. image.bootstacktop - 1

Booting == {"readseg", "wait command", "command", "wait data", "data", "bad",
            "entry", "paging", "relocated", "i386_init"}

\* init.c:27: once i386_init has begun, the ELF loading process is complete,
\* and it stays so: no call takes more than the stack has room for.  Each
\* segment is in memory as in the file, but for the stack, and the BSS, into
\* which the loader copied whatever follows in the file, is zero.
KernelAsLinked ==
    at \notin Booting =>
        /\ \A i \in DOMAIN image.phs :
             LET h == image.phs[i]
             IN  \A b \in 0 .. h.p_filesz - 1 :
                    KERNBASE + h.p_pa + b \in Stack \/ mem[h.p_pa + b] = FileByte(h.p_offset + b)
        /\ \A va \in Bss : mem[Reloc(va)] = Zero

=========================================================================
