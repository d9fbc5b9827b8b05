--------------------------- MODULE BootLoader ---------------------------
(***************************************************************************)
(* lab/boot/main.c: the boot loader copies the kernel image from the IDE   *)
(* disk to memory, sector by sector, and jumps to it.                      *)
(*                                                                         *)
(* A byte of the image is the number of its place in the file, so that     *)
(* memory shows where each of its bytes came from.  The disk (external)    *)
(* is busy for any time.                                                   *)
(***************************************************************************)
EXTENDS Integers, Sequences

CONSTANTS
    SECTSIZE,
    ELFHDR,     \* the scratch page
    Port,       \* values of an 8-bit port
    MemSize,    \* physical memory: 0 .. MemSize-1
    Images      \* kernel files: magic, size, phs, and what KernelStart uses

\* Sectors that four ports can number.
Sectors == Port * (Port * (Port * Port))

\* The first sector that a segment's bytes are in begins here.
RoundDown(a) == (a \div SECTSIZE) * SECTSIZE

ASSUME LoaderAssumption ==
    /\ SECTSIZE \in Nat \ {0} /\ Port \in Nat \ {0, 1}
    /\ ELFHDR \in Nat /\ ELFHDR % SECTSIZE = 0
    /\ MemSize \in Nat /\ ELFHDR + 8 * SECTSIZE <= MemSize

\* What kernel.ld and the linker make of a kernel.
ProgramHeader == [p_pa : Nat, p_offset : Nat, p_filesz : Nat, p_memsz : Nat]
ASSUME ImagesAssumption ==
    \A im \in Images :
        /\ im.magic \in BOOLEAN /\ im.size \in Nat /\ im.phs \in Seq(ProgramHeader)
        /\ \A i \in DOMAIN im.phs :
            LET h == im.phs[i]
            \* Segments fit into memory and are placed in a sector as in the file,
            IN  /\ h.p_filesz <= h.p_memsz
                /\ h.p_pa % SECTSIZE = h.p_offset % SECTSIZE
                /\ h.p_memsz = 0 => h.p_pa % SECTSIZE = 0
                /\ h.p_pa + h.p_memsz + SECTSIZE - 1 <= MemSize
                /\ h.p_offset + h.p_memsz <= SECTSIZE * (Sectors - 1)
        \* and none begins in a sector of one before it, unless it follows
        \* that one in the file as in memory.
        /\ \A i, j \in DOMAIN im.phs :
            LET g == im.phs[i]
                h == im.phs[j]
            IN  i < j => \/ h.p_memsz = 0
                         \/ g.p_pa + g.p_filesz <= RoundDown(h.p_pa)
                         \/ h.p_pa + h.p_memsz + SECTSIZE - 1 <= g.p_pa
                         \/ h.p_pa - h.p_offset = g.p_pa - g.p_offset

Zero == -1      \* a byte that is 0
Junk == -2      \* a byte that was never written, or bad data
Boot == -3      \* a byte of the boot sector

VARIABLES
    image,              \* the file on the disk, from its second sector
    mem,
    at,                 \* where the loader is
    ph,                 \* program header; 0: the first page of the image
    pa, end_pa, offset, \* locals of readseg
    disk                \* [status, regs, data]

diskVars == <<image, disk>>
segment == <<pa, end_pa, offset>>
loaderVars == <<image, mem, at, ph, segment, disk>>

---------------------------------------------------------------------------
(* The disk. *)

\* The bytes after the end of the file are 0: the disk is made from /dev/zero.
FileByte(o) == IF o < image.size THEN o ELSE Zero

Sector(lba) == [b \in 0 .. SECTSIZE-1 |->
    IF lba = 0 THEN Boot ELSE FileByte((lba - 1) * SECTSIZE + b)]

\* Four ports hold the number of the sector.
Lba(regs) == regs[1] + Port * (regs[2] + Port * (regs[3] + Port * regs[4]))

\* The command is done, or the disk finished starting up.
DiskReady ==
    /\ disk.status # "ready"
    /\ disk' = [disk EXCEPT
                  !.status = "ready",
                  !.data = IF disk.status = "busy" THEN <<Sector(Lba(disk.regs))>> ELSE <<>>]
    /\ UNCHANGED <<image, mem, at, ph, segment>>

---------------------------------------------------------------------------
(* readsect: wait, command, wait, read. *)

Waitdisk ==
    /\ at \in {"wait command", "wait data"}
    /\ disk.status = "ready"
    /\ at' = IF at = "wait command" THEN "command" ELSE "data"
    /\ UNCHANGED <<image, mem, ph, segment, disk>>

\* outb keeps the low bits; offset >> 8 is what is left of them.
SectorPorts(n) ==
    LET n8  == n \div Port
        n16 == n8 \div Port
        n24 == n16 \div Port
    IN  <<n % Port, n8 % Port, n16 % Port, n24 % Port>>

\* A disk that is not ready takes no command.
Command ==
    /\ at = "command"
    /\ disk' = IF disk.status = "ready"
               THEN [status |-> "busy", regs |-> SectorPorts(offset), data |-> <<>>]
               ELSE disk
    /\ at' = "wait data"
    /\ UNCHANGED <<image, mem, ph, segment>>

\* insl, and the end of the turn of readseg's loop.
Insl ==
    /\ at = "data"
    /\ mem' = [a \in DOMAIN mem |->
                 IF a \notin pa .. pa + SECTSIZE - 1 THEN mem[a]
                 ELSE IF disk.data = <<>> THEN Junk ELSE disk.data[1][a - pa]]
    /\ disk' = [disk EXCEPT !.data = <<>>]
    /\ pa' = pa + SECTSIZE
    /\ offset' = offset + 1
    /\ at' = "readseg"
    /\ UNCHANGED <<image, ph, end_pa>>

---------------------------------------------------------------------------
(* readseg and bootmain. *)

\* Mutant: the address is not rounded.
ReadsegUnrounded(p, count, off) ==
    /\ pa' = p
    /\ end_pa' = p + count
    /\ offset' = off \div SECTSIZE + 1
    /\ at' = "readseg"

Readseg(p, count, off) ==
    /\ pa' = RoundDown(p)
    /\ end_pa' = p + count
    /\ offset' = off \div SECTSIZE + 1
    /\ at' = "readseg"

\* Mutant: a sector more, when the segment ends with one.
ReadNextInclusive ==
    /\ at = "readseg"
    /\ pa <= end_pa
    /\ at' = "wait command"
    /\ UNCHANGED <<image, mem, ph, segment, disk>>

ReadNext ==
    /\ at = "readseg"
    /\ pa < end_pa
    /\ at' = "wait command"
    /\ UNCHANGED <<image, mem, ph, segment, disk>>

\* The headers are read where the first page was put.
HeaderInPlace == \A b \in 0 .. image.headers - 1 : mem[ELFHDR + b] = FileByte(b)

NextSegment ==
    /\ at = "readseg" /\ pa >= end_pa
    /\ HeaderInPlace /\ image.magic
    /\ ph < Len(image.phs)
    /\ ph' = ph + 1
    /\ LET h == image.phs[ph + 1] IN Readseg(h.p_pa, h.p_memsz, h.p_offset)
    /\ UNCHANGED <<image, mem, disk>>

\* No ELF image, or headers that are lost: the loader stops for good.
Bad ==
    /\ at = "readseg" /\ pa >= end_pa
    /\ ~(HeaderInPlace /\ image.magic)
    /\ at' = "bad"
    /\ UNCHANGED <<image, mem, ph, segment, disk>>

JumpToEntry ==
    /\ at = "readseg" /\ pa >= end_pa
    /\ HeaderInPlace /\ image.magic
    /\ ph = Len(image.phs)
    /\ at' = "entry"
    /\ UNCHANGED <<image, mem, ph, segment, disk>>

Loader == Waitdisk \/ Command \/ Insl \/ ReadNext \/ NextSegment \/ Bad \/ JumpToEntry

\* bootmain calls readseg(ELFHDR, SECTSIZE*8, 0).  The BIOS may have left
\* the disk in any state.
LoaderInit ==
    /\ image \in Images
    /\ mem = [a \in 0 .. MemSize - 1 |-> Junk]
    /\ at = "readseg"
    /\ ph = 0
    /\ pa = RoundDown(ELFHDR)
    /\ end_pa = ELFHDR + 8 * SECTSIZE
    /\ offset = 1
    /\ disk \in [status : {"ready", "busy", "starting"}, regs : {<<0, 0, 0, 0>>}, data : {<<>>}]

---------------------------------------------------------------------------

\* readseg "might copy more than asked": less than a sector more at each end
\* of a segment, and nothing at all for a segment without bytes.
Asked(p, count) ==
    {a \in DOMAIN mem : count > 0 /\ p - SECTSIZE < a /\ a < p + count + SECTSIZE - 1}

NoStrayCopies ==
    at = "entry" =>
        \A a \in DOMAIN mem : mem[a] # Junk =>
            \/ a \in Asked(ELFHDR, 8 * SECTSIZE)
            \/ \E i \in DOMAIN image.phs : a \in Asked(image.phs[i].p_pa, image.phs[i].p_memsz)
=========================================================================
