--------------------------- MODULE BootProofs ---------------------------
(***************************************************************************)
(* Proofs about BootLoader, KernelStart and Backtrace, for every size of a *)
(* sector, every image that is linked as kernel.ld says, and every depth   *)
(* of calls.                                                               *)
(***************************************************************************)
EXTENDS Backtrace, TLAPS

---------------------------------------------------------------------------
(* Sectors and ports. *)

LEMMA Division ==
  ASSUME NEW n \in Nat, NEW d \in Nat \ {0}
  PROVE  /\ n \div d \in Nat /\ n % d \in 0 .. d - 1
         /\ n = d * (n \div d) + (n % d)
OBVIOUS

LEMMA Product ==
  ASSUME NEW a \in Nat, NEW b \in Nat, NEW c \in Nat, a <= b
  PROVE  c * a <= c * b /\ c * a \in Nat
<1>1. b - a \in Nat /\ b = a + (b - a)
  OBVIOUS
<1>2. c * b = c * a + c * (b - a)
  BY <1>1
<1>3. c * (b - a) \in Nat /\ c * a \in Nat
  BY <1>1
<1> QED
  BY <1>2, <1>3

LEMMA Quotient ==
  ASSUME NEW n \in Nat, NEW d \in Nat \ {0}, NEW m \in Nat, n < d * m
  PROVE  n \div d < m
<1> SUFFICES ASSUME m <= n \div d PROVE FALSE
  BY Division
<1>1. d * m <= d * (n \div d)
  BY Product, Division
<1>2. n \div d \in Nat /\ n % d >= 0 /\ n = d * (n \div d) + (n % d)
  BY Division
<1> QED
  BY <1>1, <1>2

\* The remainder is the only one.
LEMMA Remainder ==
  ASSUME NEW d \in Nat \ {0}, NEW q \in Nat, NEW r \in 0 .. d - 1,
         NEW n, n = d * q + r
  PROVE  n % d = r /\ n \div d = q
<1>1. n \in Nat
  OBVIOUS
<1>2. n \div d \in Nat /\ n % d \in 0 .. d - 1 /\ n = d * (n \div d) + (n % d)
  BY <1>1, Division
<1>3. n = d * q + r
  OBVIOUS
<1>4. ~ (n \div d < q)
  <2> SUFFICES ASSUME n \div d + 1 <= q PROVE FALSE
    BY <1>2
  <2>1. d * (n \div d + 1) <= d * q
    BY <1>2, Product
  <2>2. d * (n \div d + 1) = d * (n \div d) + d
    BY <1>2
  <2> QED
    BY <1>2, <1>3, <2>1, <2>2
<1>5. ~ (q < n \div d)
  <2> SUFFICES ASSUME q + 1 <= n \div d PROVE FALSE
    BY <1>2
  <2>1. d * (q + 1) <= d * (n \div d)
    BY <1>2, Product
  <2>2. d * (q + 1) = d * q + d
    OBVIOUS
  <2> QED
    BY <1>2, <1>3, <2>1, <2>2
<1>6. n \div d = q
  BY <1>2, <1>4, <1>5
<1> QED
  BY <1>2, <1>3, <1>6

LEMMA PortsHoldSector ==
  ASSUME NEW n \in Nat, n < Sectors
  PROVE  /\ SectorPorts(n) \in [1 .. 4 -> 0 .. Port - 1]
         /\ Lba(SectorPorts(n)) = n
<1> DEFINE n8  == n \div Port
           n16 == n8 \div Port
           n24 == n16 \div Port
           ports == <<n % Port, n8 % Port, n16 % Port, n24 % Port>>
<1>0. SectorPorts(n) = ports
  BY DEF SectorPorts
<1>1. Port \in Nat \ {0}
  BY LoaderAssumption
<1>2. n8 \in Nat /\ n % Port \in 0 .. Port - 1 /\ n = Port * n8 + (n % Port)
  BY <1>1, Division
<1>3. n16 \in Nat /\ n8 % Port \in 0 .. Port - 1 /\ n8 = Port * n16 + (n8 % Port)
  BY <1>1, <1>2, Division
<1>4. n24 \in Nat /\ n16 % Port \in 0 .. Port - 1 /\ n16 = Port * n24 + (n16 % Port)
  BY <1>1, <1>3, Division
<1>5. n24 < Port
  <2>1. Port * Port \in Nat /\ Port * (Port * Port) \in Nat
    BY <1>1
  <2>2. n8 < Port * (Port * Port)
    BY <1>1, <2>1, Quotient DEF Sectors
  <2>3. n16 < Port * Port
    <3> HIDE DEF n8
    <3> QED
      BY <1>1, <1>2, <2>1, <2>2, Quotient
  <2> HIDE DEF n16
  <2> QED
    BY <1>1, <1>3, <2>3, Quotient
<1> HIDE DEF n8, n16, n24
<1>6. n24 % Port = n24 /\ n24 \in 0 .. Port - 1
  <2>1. n24 = Port * 0 + n24 /\ n24 \in 0 .. Port - 1
    BY <1>1, <1>4, <1>5
  <2>2. n24 % Port = n24
    BY <1>1, <2>1, Remainder
  <2> QED
    BY <2>1, <2>2
<1>7. Lba(ports) = n
  <2>1. Lba(ports) = (n % Port) + Port * ((n8 % Port) + Port * ((n16 % Port) + Port * n24))
    BY <1>6 DEF Lba
  <2>2. (n16 % Port) + Port * n24 = n16
    BY <1>1, <1>4
  <2>3. (n8 % Port) + Port * n16 = n8
    BY <1>1, <1>3, <1>4
  <2>4. (n % Port) + Port * n8 = n
    BY <1>1, <1>2, <1>3
  <2> QED
    BY <2>1, <2>2, <2>3, <2>4
<1>8. ports \in [1 .. 4 -> 0 .. Port - 1]
  BY <1>2, <1>3, <1>4, <1>6
<1> QED
  BY <1>0, <1>7, <1>8

LEMMA RoundDownIs ==
  ASSUME NEW a \in Nat
  PROVE  /\ RoundDown(a) = a - (a % SECTSIZE) /\ a % SECTSIZE \in 0 .. SECTSIZE - 1
         /\ RoundDown(a) \in Nat /\ RoundDown(a) <= a /\ a < RoundDown(a) + SECTSIZE
         /\ RoundDown(a) % SECTSIZE = 0
<1>1. SECTSIZE \in Nat \ {0}
  BY LoaderAssumption
<1>2. a \div SECTSIZE \in Nat /\ a % SECTSIZE \in 0 .. SECTSIZE - 1
      /\ a = SECTSIZE * (a \div SECTSIZE) + (a % SECTSIZE)
  BY <1>1, Division
<1>3. RoundDown(a) = SECTSIZE * (a \div SECTSIZE)
  BY <1>1, <1>2 DEF RoundDown
<1>4. RoundDown(a) \in Nat
  BY <1>1, <1>2, <1>3
<1>5. RoundDown(a) % SECTSIZE = 0
  <2> DEFINE q == a \div SECTSIZE
             n == RoundDown(a)
  <2>1. n = SECTSIZE * q + 0 /\ 0 \in 0 .. SECTSIZE - 1 /\ q \in Nat
    BY <1>1, <1>2, <1>3
  <2> HIDE DEF n, q
  <2>2. n % SECTSIZE = 0
    BY <1>1, <2>1, Remainder, Zenon
  <2> QED
    BY <2>2 DEF n
<1> QED
  BY <1>1, <1>2, <1>3, <1>4, <1>5

LEMMA NextSector ==
  ASSUME NEW a \in Nat, a % SECTSIZE = 0
  PROVE  (a + SECTSIZE) % SECTSIZE = 0
<1>1. SECTSIZE \in Nat \ {0}
  BY LoaderAssumption
<1>0. a \div SECTSIZE \in Nat /\ a = SECTSIZE * (a \div SECTSIZE)
  BY <1>1, Division
<1>2. PICK x \in Nat : a = SECTSIZE * x
  BY <1>0
<1> DEFINE q == x + 1
<1>3. SECTSIZE * q = SECTSIZE * x + SECTSIZE /\ q \in Nat
  BY <1>1, <1>2
<1> HIDE DEF q
<1>4. a + SECTSIZE = SECTSIZE * q + 0 /\ 0 \in 0 .. SECTSIZE - 1
  BY <1>1, <1>2, <1>3
<1> QED
  BY <1>1, <1>3, <1>4, Remainder

---------------------------------------------------------------------------
(* The invariant. *)

Places == Booting \cup {"cons_init", "test_backtrace", "leaving", "tested", "monitor",
                        "backtrace", "runcmd", "mon_backtrace", "panic"}
InLoader == {"readseg", "wait command", "command", "wait data", "data"}
Before == InLoader \cup {"bad"}
Low == Before \cup {"entry", "paging"}      \* at low addresses
NoFrames == Low \cup {"relocated"}          \* before entry.S calls i386_init

Disks == [status : {"ready", "busy", "starting"}, regs : [1 .. 4 -> 0 .. Port - 1],
          data : {<<>>} \cup {<<Sector(n)>> : n \in Nat}]

Types ==
    /\ image \in Images
    /\ mem \in [0 .. MemSize - 1 -> Int]
    /\ at \in Places
    /\ ph \in 0 .. Len(image.phs)
    /\ pa \in Nat /\ end_pa \in Nat /\ offset \in Nat \ {0}
    /\ disk \in Disks
    /\ paging \in BOOLEAN
    /\ frame \in Stack \cup {0}

\* The first readseg is for the first page of the image.
HeaderSegment == [p_pa |-> ELFHDR, p_offset |-> 0, p_filesz |-> 0, p_memsz |-> 8 * SECTSIZE]
Asking(i) == IF i = 0 THEN HeaderSegment ELSE image.phs[i]

\* readseg is where it should be in memory and in the file.
Position ==
    LET h == Asking(ph)
    IN  /\ end_pa = h.p_pa + h.p_memsz
        /\ pa % SECTSIZE = 0
        /\ RoundDown(h.p_pa) <= pa /\ pa < end_pa + SECTSIZE
        /\ ph = 0 => pa <= end_pa
        /\ SECTSIZE * (offset - 1) - pa = h.p_offset - h.p_pa
        /\ at \in InLoader \ {"readseg"} => pa < end_pa

\* readsect takes from the disk the sector that it asked for.
Reading ==
    /\ at \in {"command", "data"} => disk.status = "ready"
    /\ at = "wait data" =>
        \/ disk.status = "busy" /\ disk.regs = SectorPorts(offset)
        \/ disk.status = "ready" /\ disk.data = <<Sector(offset)>>
    /\ at = "data" => disk.data = <<Sector(offset)>>

\* The segments before the one being read are in memory, and what was read of
\* that one.
Read ==
    at \in Before =>
        \A i \in 1 .. ph : \A b \in 0 .. image.phs[i].p_filesz - 1 :
            i < ph \/ image.phs[i].p_pa + b < pa =>
                mem[image.phs[i].p_pa + b] = FileByte(image.phs[i].p_offset + b)

Copied ==
    at \in Before \cup {"entry"} =>
        \A a \in DOMAIN mem : mem[a] # Junk =>
            \E i \in 0 .. ph : a \in Asked(Asking(i).p_pa, Asking(i).p_memsz)

\* From there on the image is in memory, but for what the stack overwrites.
Loaded ==
    /\ at \notin Before => ph = Len(image.phs)
    /\ at \notin Before =>
        \A i \in DOMAIN image.phs : \A b \in 0 .. image.phs[i].p_filesz - 1 :
            \/ KERNBASE + image.phs[i].p_pa + b \in Stack
            \/ mem[image.phs[i].p_pa + b] = FileByte(image.phs[i].p_offset + b)
    /\ at \notin Booting => \A va \in Bss : mem[Reloc(va)] = Zero

Processor ==
    /\ at = "paging" => paging
    /\ at \notin Low => paging /\ eip \in Nat /\ eip >= KERNBASE

---------------------------------------------------------------------------
(* The calls in progress: who called whom, and how deep the stack is. *)

Tests == {image.i386_init + 1, image.test_backtrace + 1}

\* How many arguments the call that returns there was given.
Pushed(va) ==
    CASE va = image.spin -> 0
      [] va \in Tests -> 1
      [] va = image.test_backtrace + 2 -> 3
      [] va = image.i386_init + 2 -> 1
      [] va = image.monitor + 1 -> 2
      [] va = image.runcmd + 1 -> 3

\* Where the frame of the function called is, below the top of the stack.
Below(c) ==
    CASE c.eip = image.spin -> 2
      [] c.eip \in Tests -> 2 + 3 * (Depth - c.args[1] + 1)
      [] c.eip = image.test_backtrace + 2 -> 2 + 3 * (Depth + 1) + 5
      [] c.eip = image.i386_init + 2 -> 5
      [] c.eip = image.monitor + 1 -> 9
      [] c.eip = image.runcmd + 1 -> 14

FrameOf(c) == image.bootstacktop - Below(c)

Returns == Tests \cup {image.spin, image.test_backtrace + 2, image.i386_init + 2,
                       image.monitor + 1, image.runcmd + 1}

Call(c) ==
    /\ c.eip \in Returns
    /\ c.args \in [1 .. Pushed(c.eip) -> Nat]
    /\ c.eip \in Tests => c.args[1] <= Depth

\* The function that was called by c calls the one called by d.
Calls(c, d) ==
    \/ c.eip = image.spin /\ d.eip \in {image.i386_init + 1, image.i386_init + 2}
    \/ c.eip \in Tests /\ d.eip \in {image.test_backtrace + 1, image.test_backtrace + 2}
    \/ c.eip = image.i386_init + 2 /\ d.eip = image.monitor + 1
    \/ c.eip = image.monitor + 1 /\ d.eip = image.runcmd + 1

\* The innermost call, by where the processor is.
Runner ==
    CASE at \in {"i386_init", "cons_init", "tested"} -> {image.spin}
      [] at \in {"test_backtrace", "leaving"} -> Tests
      [] at = "monitor" -> {image.i386_init + 2}
      [] at \in {"backtrace", "runcmd"} -> {image.monitor + 1}
      [] at = "mon_backtrace" -> {image.test_backtrace + 2, image.runcmd + 1}
      [] at = "panic" -> {}

Records == [eip : Nat, args : Seq(Nat)]

Chain ==
    /\ calls \in Seq(Records)
    /\ at \notin NoFrames =>
        /\ calls # <<>> /\ calls[1].eip \in Runner
        /\ calls[Len(calls)].eip = image.spin
        /\ \A k \in DOMAIN calls : Call(calls[k])
        /\ \A k \in 1 .. Len(calls) - 1 :
            /\ Calls(calls[k + 1], calls[k])
            /\ FrameOf(calls[k + 1]) = FrameOf(calls[k]) + 2 + Len(calls[k].args)
        /\ \A j, k \in DOMAIN calls : j <= k => FrameOf(calls[j]) <= FrameOf(calls[k])
        /\ esp = FrameOf(calls[1]) /\ ebp = FrameOf(calls[1])

\* What the frame of a call has in memory: the frame pointer of the one that
\* called, where to return, and the arguments.
InFrame(k) ==
    LET f == FrameOf(calls[k])
    IN  /\ WordAt(f) = IF k < Len(calls) THEN FrameOf(calls[k + 1]) ELSE 0
        /\ WordAt(f + 1) = calls[k].eip
        /\ \A m \in DOMAIN calls[k].args : WordAt(f + 1 + m) = calls[k].args[m]

Frames == at \notin NoFrames => \A k \in DOMAIN calls : InFrame(k)

Rows == [eip : Int, args : [1 .. 5 -> Int]]

Listing ==
    /\ listed \in Seq(Rows)
    /\ at = "mon_backtrace" =>
        /\ Len(listed) <= Len(calls)
        /\ frame = IF Len(listed) < Len(calls) THEN FrameOf(calls[Len(listed) + 1]) ELSE 0
        /\ \A k \in DOMAIN listed :
            /\ listed[k].eip = calls[k].eip
            /\ \A n \in DOMAIN calls[k].args : listed[k].args[n] = calls[k].args[n]

Inv == /\ Types /\ Position /\ Reading /\ Read /\ Copied /\ Loaded /\ Processor
       /\ Chain /\ Frames /\ Listing

---------------------------------------------------------------------------
(* What the assumptions say of a segment. *)

LEMMA SectorsBound == Sectors \in Nat /\ 16 <= Sectors
<1> DEFINE p2 == Port * Port
           p3 == Port * p2
<1>1. Port \in Nat /\ 2 <= Port
  BY LoaderAssumption
<1>2. p2 \in Nat /\ 4 <= p2
  <2>1. Port * 2 <= Port * Port
    BY <1>1, Product
  <2> QED
    BY <1>1, <2>1
<1> HIDE DEF p2
<1>3. p3 \in Nat /\ 8 <= p3
  <2>1. Port * 4 <= Port * p2
    BY <1>1, <1>2, Product
  <2>2. Port * p2 \in Nat
    BY <1>1, <1>2
  <2> QED
    BY <1>1, <2>1, <2>2
<1>4. Sectors = Port * p3
  BY DEF Sectors, p2
<1> HIDE DEF p3
<1>5. Port * 8 <= Port * p3
  BY <1>1, <1>3, Product
<1>6. Port * p3 \in Nat
  BY <1>1, <1>3
<1> QED
  BY <1>1, <1>4, <1>5, <1>6

\* Every segment that is read, with the first page of the image as the one
\* of number 0.
LEMMA Segments ==
  ASSUME image \in Images, NEW i \in 0 .. Len(image.phs)
  PROVE  LET h == Asking(i)
         IN  /\ h.p_pa \in Nat /\ h.p_offset \in Nat /\ h.p_filesz \in Nat /\ h.p_memsz \in Nat
             /\ h.p_filesz <= h.p_memsz
             /\ h.p_pa % SECTSIZE = h.p_offset % SECTSIZE
             /\ h.p_memsz = 0 => h.p_pa % SECTSIZE = 0
             /\ h.p_pa + h.p_memsz <= MemSize
             /\ i # 0 => h.p_pa + h.p_memsz + SECTSIZE - 1 <= MemSize
             /\ h.p_offset + h.p_memsz <= SECTSIZE * (Sectors - 1)
<1>1. SECTSIZE \in Nat \ {0} /\ ELFHDR \in Nat /\ MemSize \in Nat
  BY LoaderAssumption
<1>2. image.phs \in Seq(ProgramHeader)
  BY ImagesAssumption
<1>3. CASE i = 0
  <2>1. Asking(i) = HeaderSegment
    BY <1>3 DEF Asking
  <2>2. 0 % SECTSIZE = 0
    BY <1>1
  <2>3. SECTSIZE * 8 <= SECTSIZE * (Sectors - 1)
    <3>1. Sectors - 1 \in Nat /\ 8 <= Sectors - 1
      BY SectorsBound
    <3> QED
      BY <1>1, <3>1, Product
  <2>4. 8 * SECTSIZE = SECTSIZE * 8 /\ 8 * SECTSIZE \in Nat /\ 8 * SECTSIZE # 0
    BY <1>1
  <2> QED
    BY <1>1, <1>3, <2>1, <2>2, <2>3, <2>4, LoaderAssumption DEF HeaderSegment
<1>4. CASE i # 0
  <2>1. i \in DOMAIN image.phs /\ Asking(i) = image.phs[i]
    BY <1>2, <1>4 DEF Asking
  <2>2. image.phs[i] \in ProgramHeader
    BY <1>2, <2>1
  <2>3. /\ image.phs[i].p_filesz <= image.phs[i].p_memsz
        /\ image.phs[i].p_pa % SECTSIZE = image.phs[i].p_offset % SECTSIZE
        /\ image.phs[i].p_memsz = 0 => image.phs[i].p_pa % SECTSIZE = 0
        /\ image.phs[i].p_pa + image.phs[i].p_memsz + SECTSIZE - 1 <= MemSize
        /\ image.phs[i].p_offset + image.phs[i].p_memsz <= SECTSIZE * (Sectors - 1)
    BY <2>1, ImagesAssumption
  <2>4. /\ image.phs[i].p_pa \in Nat /\ image.phs[i].p_offset \in Nat
        /\ image.phs[i].p_filesz \in Nat /\ image.phs[i].p_memsz \in Nat
    BY <2>2 DEF ProgramHeader
  <2>5. image.phs[i].p_pa + image.phs[i].p_memsz <= MemSize
    BY <1>1, <2>3, <2>4, SMTT(30)
  <2> QED
    BY <1>4, <2>1, <2>3, <2>4, <2>5
<1> QED
  BY <1>3, <1>4

\* Where readseg begins, in memory and in the file.
LEMMA Begins ==
  ASSUME NEW p \in Nat, NEW o \in Nat, p % SECTSIZE = o % SECTSIZE
  PROVE  /\ o \div SECTSIZE + 1 \in Nat \ {0}
         /\ SECTSIZE * ((o \div SECTSIZE + 1) - 1) - RoundDown(p) = o - p
<1>1. SECTSIZE \in Nat \ {0}
  BY LoaderAssumption
<1>2. o \div SECTSIZE \in Nat /\ o % SECTSIZE \in 0 .. SECTSIZE - 1
      /\ o = SECTSIZE * (o \div SECTSIZE) + (o % SECTSIZE)
  BY <1>1, Division
<1>3. RoundDown(p) = p - (p % SECTSIZE) /\ RoundDown(p) \in Nat
  BY RoundDownIs
<1> DEFINE q == o \div SECTSIZE
           r == o % SECTSIZE
<1>4. q \in Nat /\ r \in Nat /\ o = SECTSIZE * q + r /\ RoundDown(p) = p - r
  BY <1>2, <1>3
<1> HIDE DEF q, r
<1>5. (q + 1) - 1 = q /\ q + 1 \in Nat \ {0}
  BY <1>4
<1>6. SECTSIZE * q \in Nat
  BY <1>1, <1>4
<1>7. SECTSIZE * ((q + 1) - 1) - RoundDown(p) = o - p
  BY <1>4, <1>5, <1>6
<1> QED
  BY <1>5, <1>7 DEF q

\* A sector that begins before another sector's beginning ends there or before.
LEMMA WholeSectors ==
  ASSUME NEW a \in Nat, NEW b \in Nat, a % SECTSIZE = 0, b % SECTSIZE = 0, a < b
  PROVE  a + SECTSIZE <= b
<1>1. SECTSIZE \in Nat \ {0}
  BY LoaderAssumption
<1>2. a \div SECTSIZE \in Nat /\ a = SECTSIZE * (a \div SECTSIZE)
  BY <1>1, Division
<1>3. b \div SECTSIZE \in Nat /\ b = SECTSIZE * (b \div SECTSIZE)
  BY <1>1, Division
<1> DEFINE x == a \div SECTSIZE
           y == b \div SECTSIZE
<1>4. x \in Nat /\ y \in Nat /\ a = SECTSIZE * x /\ b = SECTSIZE * y
  BY <1>2, <1>3
<1> HIDE DEF x, y
<1>5. x + 1 <= y
  <2> SUFFICES ASSUME y <= x PROVE FALSE
    BY <1>4
  <2> QED
    BY <1>1, <1>4, Product
<1>6. SECTSIZE * (x + 1) <= SECTSIZE * y
  BY <1>1, <1>4, <1>5, Product
<1>7. SECTSIZE * (x + 1) = SECTSIZE * x + SECTSIZE
  BY <1>1, <1>4
<1> QED
  BY <1>4, <1>6, <1>7

---------------------------------------------------------------------------
(* The loader's steps. *)

\* The image says how deep each call is.
LEMMA SameKernel ==
  ASSUME image' = image
  PROVE  /\ Stack' = Stack /\ Tests' = Tests
         /\ \A c : FrameOf(c)' = FrameOf(c) /\ (Call(c)' <=> Call(c))
         /\ \A c, d : Calls(c, d)' <=> Calls(c, d)
<1>1. Stack' = Stack /\ Tests' = Tests /\ Returns' = Returns
  BY DEF Stack, Tests, Returns
<1>2. \A va : Pushed(va)' = Pushed(va)
  BY <1>1 DEF Pushed
<1>3. \A c : FrameOf(c)' = FrameOf(c)
  BY <1>1 DEF FrameOf, Below
<1>4. \A c : Call(c)' <=> Call(c)
  BY <1>1, <1>2 DEF Call
<1>5. \A c, d : Calls(c, d)' <=> Calls(c, d)
  BY <1>1 DEF Calls
<1> QED
  BY <1>1, <1>3, <1>4, <1>5

LEMMA Header == Types => image.phs \in Seq(ProgramHeader) /\ Len(image.phs) \in Nat
BY ImagesAssumption DEF Types

\* The sector that is read next can be numbered, is that of the place in
\* memory, and is memory.
LEMMA InsideSegment ==
  ASSUME Types, Position, pa < end_pa
  PROVE  LET h == Asking(ph)
         IN  /\ h.p_memsz # 0
             /\ offset < Sectors
             /\ SECTSIZE * (offset - 1) = h.p_offset + (pa - h.p_pa)
             /\ h.p_pa < pa + SECTSIZE
             /\ pa + SECTSIZE <= MemSize
             /\ ph = 0 => pa + SECTSIZE <= end_pa
<1> DEFINE h == Asking(ph)
<1>1. SECTSIZE \in Nat \ {0} /\ ELFHDR \in Nat /\ MemSize \in Nat
  BY LoaderAssumption
<1>2. /\ h.p_pa \in Nat /\ h.p_offset \in Nat /\ h.p_memsz \in Nat
      /\ h.p_memsz = 0 => h.p_pa % SECTSIZE = 0
      /\ h.p_pa + h.p_memsz <= MemSize
      /\ ph # 0 => h.p_pa + h.p_memsz + SECTSIZE - 1 <= MemSize
      /\ h.p_offset + h.p_memsz <= SECTSIZE * (Sectors - 1)
  BY Segments DEF Types
<1>3. /\ end_pa = h.p_pa + h.p_memsz /\ RoundDown(h.p_pa) <= pa
      /\ SECTSIZE * (offset - 1) - pa = h.p_offset - h.p_pa
      /\ pa \in Nat /\ offset \in Nat \ {0} /\ pa % SECTSIZE = 0
  BY DEF Types, Position
<1> DEFINE p == h.p_pa
           o == h.p_offset
           s == h.p_memsz
<1>4. RoundDown(p) = p - (p % SECTSIZE) /\ p < RoundDown(p) + SECTSIZE /\ RoundDown(p) \in Nat
  BY <1>2, RoundDownIs
<1>5. s # 0
  <2> SUFFICES ASSUME s = 0 PROVE FALSE
    OBVIOUS
  <2>1. p % SECTSIZE = 0
    BY <1>2
  <2> HIDE DEF h, p
  <2> QED
    BY <1>2, <1>3, <1>4, <2>1 DEF p
<1>6. SECTSIZE * (offset - 1) = o + (pa - p)
  <2>1. SECTSIZE * (offset - 1) \in Nat
    BY <1>1, <1>3
  <2> HIDE DEF h
  <2> QED
    BY <1>2, <1>3, <2>1
<1>7. offset < Sectors
  <2> SUFFICES ASSUME Sectors - 1 <= offset - 1 PROVE FALSE
    BY <1>3, SectorsBound
  <2>1. SECTSIZE * (Sectors - 1) <= SECTSIZE * (offset - 1)
    BY <1>1, <1>3, SectorsBound, Product
  <2>2. SECTSIZE * (Sectors - 1) \in Nat /\ SECTSIZE * (offset - 1) \in Nat
    BY <1>1, <1>3, SectorsBound
  <2> HIDE DEF h
  <2> QED
    BY <1>2, <1>3, <1>6, <2>1, <2>2
<1>8. p < pa + SECTSIZE
  <2> HIDE DEF h
  <2> QED
    BY <1>1, <1>2, <1>3, <1>4
<1>9. ph = 0 => pa + SECTSIZE <= end_pa
  <2> SUFFICES ASSUME ph = 0 PROVE pa + SECTSIZE <= end_pa
    OBVIOUS
  <2>1. end_pa = ELFHDR + 8 * SECTSIZE /\ end_pa \in Nat
    BY <1>1, <1>3 DEF Asking, HeaderSegment
  <2>2. PICK x \in Nat : ELFHDR = SECTSIZE * x
    <3>1. ELFHDR \div SECTSIZE \in Nat /\ ELFHDR = SECTSIZE * (ELFHDR \div SECTSIZE)
      BY <1>1, Division, LoaderAssumption
    <3> QED
      BY <3>1
  <2>3. end_pa = SECTSIZE * (x + 8) + 0 /\ 0 \in 0 .. SECTSIZE - 1
    BY <1>1, <2>1, <2>2
  <2>4. x + 8 \in Nat
    OBVIOUS
  <2>5. end_pa % SECTSIZE = 0
    <3> DEFINE y == x + 8
    <3>1. y \in Nat /\ end_pa = SECTSIZE * y + 0
      BY <2>3
    <3> HIDE DEF y
    <3> QED
      BY <1>1, <2>3, <3>1, Remainder
  <2> QED
    BY <1>3, <2>1, <2>5, WholeSectors
<1>10. pa + SECTSIZE <= MemSize
  <2> HIDE DEF h
  <2> QED
    BY <1>1, <1>2, <1>3, <1>9
<1> QED
  BY <1>5, <1>6, <1>7, <1>8, <1>9, <1>10

\* Until entry.S calls i386_init there is nothing to say of calls.
LEMMA NoFramesYet ==
  ASSUME Inv, image' = image, at' \in NoFrames, calls' \in Seq(Records), UNCHANGED listing
  PROVE  Chain' /\ Frames' /\ Listing' /\ Stack' = Stack /\ frame' \in Stack' \cup {0}
<1>1. Stack' = Stack /\ frame' = frame /\ listed' = listed
  BY DEF Stack, listing
<1>2. at' # "mon_backtrace"
  BY DEF NoFrames, Low, Before, InLoader
<1> QED
  BY <1>1, <1>2 DEF Inv, Types, Chain, Frames, Listing

\* While only the place in readsect changes.
LEMMA LoaderWaits ==
  ASSUME Inv, at \in Before, at' \in Before, UNCHANGED <<image, mem, ph, segment, paging>>,
         disk' \in Disks, calls' = calls, UNCHANGED listing,
         at' \in InLoader \ {"readseg"} => pa < end_pa, Reading'
  PROVE  Inv'
<1>1. at' \in NoFrames /\ at' \in Booting /\ at' \in Low /\ at' # "paging" /\ at' \in Places
  BY DEF NoFrames, Low, Before, InLoader, Booting, Places
<1>2. Chain' /\ Frames' /\ Listing' /\ frame' \in Stack' \cup {0}
  BY <1>1, NoFramesYet DEF Inv, Chain
<1>3. Types'
  <2>1. disk' \in Disks'
    <3>1. \A n : Sector(n)' = Sector(n)
      BY Zenon DEF Sector, FileByte
    <3> QED
      BY <3>1, Zenon DEF Disks
  <2>2. /\ image \in Images /\ mem \in [0 .. MemSize - 1 -> Int] /\ ph \in 0 .. Len(image.phs)
        /\ pa \in Nat /\ end_pa \in Nat /\ offset \in Nat \ {0} /\ paging \in BOOLEAN
    BY DEF Inv, Types
  <2> QED
    BY <1>1, <1>2, <2>1, <2>2 DEF Types, segment
<1>4. Position'
  BY DEF Inv, Position, Asking, segment
<1>5. Read' /\ Copied'
  BY DEF Inv, Read, Copied, Asking, Asked, FileByte, segment
<1>6. Loaded' /\ Processor'
  BY <1>1 DEF Inv, Loaded, Processor
<1> QED
  BY <1>2, <1>3, <1>4, <1>5, <1>6 DEF Inv

LEMMA WaitdiskStep ==
  ASSUME Inv, Waitdisk, UNCHANGED cpu, calls' = calls, UNCHANGED listing
  PROVE  Inv'
<1>1. at \in Before /\ at' \in Before
  BY DEF Waitdisk, Before, InLoader
<1>2. pa < end_pa
  BY DEF Inv, Position, Waitdisk, InLoader
<1>3. UNCHANGED <<image, mem, ph, segment, paging>> /\ disk' = disk /\ offset' = offset
  BY DEF Waitdisk, cpu, segment
<1>4. Reading'
  BY <1>3 DEF Inv, Reading, Waitdisk, Sector, FileByte, SectorPorts
<1> QED
  BY <1>1, <1>2, <1>3, <1>4, LoaderWaits DEF Inv, Types

LEMMA CommandStep ==
  ASSUME Inv, Command, UNCHANGED cpu, calls' = calls, UNCHANGED listing
  PROVE  Inv'
<1>1. at \in Before /\ at' \in Before
  BY DEF Command, Before, InLoader
<1>2. pa < end_pa
  BY DEF Inv, Position, Command, InLoader
<1>3. UNCHANGED <<image, mem, ph, segment, paging>> /\ offset' = offset
  BY DEF Command, cpu, segment
<1>4. SectorPorts(offset) \in [1 .. 4 -> 0 .. Port - 1]
  BY <1>2, InsideSegment, PortsHoldSector DEF Inv, Types
<1>5. disk' = [status |-> "busy", regs |-> SectorPorts(offset), data |-> <<>>]
  BY DEF Command, Inv, Reading
<1>6. disk' \in Disks
  BY <1>4, <1>5 DEF Disks
<1>7. Reading'
  <2>1. at' = "wait data"
    BY DEF Command
  <2>2. disk'.status = "busy" /\ disk'.regs = SectorPorts(offset)
    BY <1>5
  <2>3. SectorPorts(offset') = SectorPorts(offset)
    BY <1>3
  <2>4. (disk.regs = SectorPorts(offset))'
    BY <2>2, <2>3
  <2> QED
    BY <2>1, <2>2, <2>4 DEF Reading
<1> QED
  BY <1>1, <1>2, <1>3, <1>6, <1>7, LoaderWaits

LEMMA ReadNextStep ==
  ASSUME Inv, ReadNext, UNCHANGED cpu, calls' = calls, UNCHANGED listing
  PROVE  Inv'
<1>1. at \in Before /\ at' \in Before
  BY DEF ReadNext, Before, InLoader
<1>2. UNCHANGED <<image, mem, ph, segment, paging>> /\ disk' = disk /\ pa < end_pa
  BY DEF ReadNext, cpu, segment
<1>3. Reading'
  BY DEF Reading, ReadNext
<1> QED
  BY <1>1, <1>2, <1>3, LoaderWaits DEF Inv, Types

LEMMA BadStep ==
  ASSUME Inv, Bad, UNCHANGED cpu, calls' = calls, UNCHANGED listing
  PROVE  Inv'
<1>1. at \in Before /\ at' \in Before /\ at' \notin InLoader
  BY DEF Bad, Before, InLoader
<1>2. UNCHANGED <<image, mem, ph, segment, paging>> /\ disk' = disk
  BY DEF Bad, cpu, segment
<1>3. Reading'
  BY DEF Reading, Bad
<1> QED
  BY <1>1, <1>2, <1>3, LoaderWaits DEF Inv, Types

LEMMA InslStep ==
  ASSUME Inv, Insl, UNCHANGED cpu, calls' = calls, UNCHANGED listing
  PROVE  Inv'
<1> DEFINE h == Asking(ph)
           n == SECTSIZE * (offset - 1)
<1>0. Types /\ Position /\ Reading /\ Read /\ Copied /\ Loaded /\ Processor
  BY DEF Inv
<1>1. at \in Before /\ at' = "readseg" /\ at' \in NoFrames /\ at' \in Booting /\ at' \in Low
      /\ at' \in Before /\ at' \in Places /\ at' # "paging"
  BY DEF Insl, Before, InLoader, NoFrames, Low, Booting, Places
<1>2. SECTSIZE \in Nat \ {0} /\ MemSize \in Nat
  BY LoaderAssumption
<1>3. /\ pa < end_pa /\ pa \in Nat /\ end_pa \in Nat /\ pa % SECTSIZE = 0
      /\ RoundDown(h.p_pa) <= pa /\ end_pa = h.p_pa + h.p_memsz /\ offset \in Nat \ {0}
      /\ ph \in 0 .. Len(image.phs)
      /\ disk.data = <<Sector(offset)>>
  BY <1>0 DEF Types, Position, Reading, Insl, InLoader
<1>4. /\ h.p_memsz # 0 /\ n = h.p_offset + (pa - h.p_pa)
      /\ h.p_pa < pa + SECTSIZE /\ pa + SECTSIZE <= MemSize
      /\ ph = 0 => pa + SECTSIZE <= end_pa
  BY <1>0, <1>3, InsideSegment
<1>5. /\ h.p_pa \in Nat /\ h.p_offset \in Nat /\ h.p_memsz \in Nat
  BY <1>0, Segments DEF Types
<1>6. UNCHANGED <<image, ph, end_pa, paging>> /\ pa' = pa + SECTSIZE /\ offset' = offset + 1
  BY DEF Insl, cpu
<1>7. Chain' /\ Frames' /\ Listing' /\ frame' \in Stack' \cup {0}
  BY <1>1, <1>6, NoFramesYet DEF Inv, Chain
<1>8. \A b \in 0 .. SECTSIZE - 1 :
        disk.data[1][b] = FileByte(n + b) /\ FileByte(n + b) \in Int
  <2>1. (offset - 1) * SECTSIZE = n /\ n \in Nat
    BY <1>2, <1>3
  <2>2. image.size \in Nat
    BY <1>0, ImagesAssumption DEF Types
  <2> HIDE DEF n
  <2>3. Sector(offset) = [b \in 0 .. SECTSIZE-1 |-> FileByte(n + b)]
    BY <1>3, <2>1 DEF Sector
  <2>4. disk.data[1] = Sector(offset)
    BY <1>3
  <2>5. \A b \in 0 .. SECTSIZE - 1 : FileByte(n + b) \in Int
    BY <1>2, <2>1, <2>2 DEF FileByte, Zero
  <2> QED
    BY <2>3, <2>4, <2>5
<1>9. disk.data # <<>>
  BY <1>3
<1> HIDE DEF h, n
<1>10. \A a \in 0 .. MemSize - 1 :
        mem'[a] = IF a \in pa .. pa + SECTSIZE - 1 THEN FileByte(n + (a - pa)) ELSE mem[a]
  <2>1. DOMAIN mem = 0 .. MemSize - 1
    BY <1>0 DEF Types
  <2> SUFFICES ASSUME NEW a \in 0 .. MemSize - 1
               PROVE  mem'[a] = IF a \in pa .. pa + SECTSIZE - 1
                                THEN FileByte(n + (a - pa)) ELSE mem[a]
    OBVIOUS
  <2>2. mem'[a] = IF a \notin pa .. pa + SECTSIZE - 1 THEN mem[a] ELSE disk.data[1][a - pa]
    BY <1>9, <2>1 DEF Insl
  <2>3. a \in pa .. pa + SECTSIZE - 1 => a - pa \in 0 .. SECTSIZE - 1
    BY <1>2, <1>3
  <2> QED
    BY <1>8, <2>2, <2>3
<1>11. mem' \in [0 .. MemSize - 1 -> Int]
  <2>1. DOMAIN mem = 0 .. MemSize - 1 /\ \A a \in 0 .. MemSize - 1 : mem[a] \in Int
    BY <1>0 DEF Types
  <2>2. \A a \in 0 .. MemSize - 1 : mem'[a] \in Int
    <3> SUFFICES ASSUME NEW a \in 0 .. MemSize - 1 PROVE mem'[a] \in Int
      OBVIOUS
    <3>1. a \in pa .. pa + SECTSIZE - 1 => a - pa \in 0 .. SECTSIZE - 1
      BY <1>2, <1>3
    <3> QED
      BY <1>8, <1>10, <2>1, <3>1
  <2>3. mem' = [a \in 0 .. MemSize - 1 |-> mem'[a]]
    BY <2>1 DEF Insl
  <2> QED
    BY <2>2, <2>3
<1>12. Types'
  <2>1. disk' \in Disks
    BY <1>0 DEF Types, Disks, Insl
  <2>2. Disks' = Disks
    BY <1>6 DEF Disks, Sector, FileByte
  <2>3. pa' \in Nat /\ offset' \in Nat \ {0}
    BY <1>2, <1>3, <1>6
  <2> QED
    BY <1>0, <1>1, <1>6, <1>7, <1>11, <2>1, <2>2, <2>3 DEF Types
<1>13. Position'
  <2>1. Asking(ph)' = h
    BY <1>6 DEF Asking, h
  <2>2. pa' % SECTSIZE = 0
    BY <1>3, <1>6, NextSector
  <2>3. SECTSIZE * (offset' - 1) = n + SECTSIZE /\ n \in Nat
    BY <1>2, <1>3, <1>6 DEF n
  <2>4. SECTSIZE * (offset' - 1) - pa' = h.p_offset - h.p_pa
    <3>1. /\ pa' = pa + SECTSIZE /\ pa \in Nat /\ SECTSIZE \in Nat
          /\ n = h.p_offset + (pa - h.p_pa)
      BY <1>2, <1>3, <1>4, <1>6
    <3> QED
      BY <1>5, <2>3, <3>1
  <2>5. pa' < end_pa' + SECTSIZE /\ RoundDown(h.p_pa) <= pa'
    <3>1. RoundDown(h.p_pa) \in Nat
      BY <1>5, RoundDownIs
    <3> QED
      BY <1>2, <1>3, <1>6, <3>1
  <2>6. at' \notin InLoader \ {"readseg"}
    BY <1>1
  <2> QED
    BY <1>3, <1>4, <1>6, <2>1, <2>2, <2>4, <2>5, <2>6 DEF Position
<1>14. Reading'
  BY <1>1 DEF Reading
<1>15. Read'
  <2> SUFFICES ASSUME NEW i \in 1 .. ph, NEW b \in 0 .. image.phs[i].p_filesz - 1,
                      i < ph \/ image.phs[i].p_pa + b < pa + SECTSIZE
               PROVE  mem'[image.phs[i].p_pa + b] = FileByte(image.phs[i].p_offset + b)
    BY <1>6 DEF Read, FileByte
  <2> DEFINE g == image.phs[i]
             a == g.p_pa + b
  <2>1. image.phs \in Seq(ProgramHeader) /\ Len(image.phs) \in Nat
    BY <1>0, Header
  <2>2. i \in DOMAIN image.phs /\ ph \in DOMAIN image.phs /\ h = image.phs[ph] /\ g = Asking(i)
        /\ i \in 0 .. Len(image.phs)
    BY <1>3, <2>1 DEF h, Asking
  <2>3. /\ g.p_pa \in Nat /\ g.p_offset \in Nat /\ g.p_filesz \in Nat /\ g.p_memsz \in Nat
        /\ g.p_filesz <= g.p_memsz /\ g.p_pa + g.p_memsz <= MemSize
    BY <1>0, <2>2, Segments DEF Types
  <2>4. i < ph => \/ h.p_memsz = 0
                  \/ g.p_pa + g.p_filesz <= RoundDown(h.p_pa)
                  \/ h.p_pa + h.p_memsz + SECTSIZE - 1 <= g.p_pa
                  \/ h.p_pa - h.p_offset = g.p_pa - g.p_offset
    BY <1>0, <2>2, ImagesAssumption DEF Types
  <2>5. i = ph => g = h
    BY <2>2
  <2>6. RoundDown(h.p_pa) \in Nat
    BY <1>5, RoundDownIs
  <2>7. i < ph \/ a < pa => mem[a] = FileByte(g.p_offset + b)
    BY <1>0, <1>1 DEF Read
  <2>8. a < pa + SECTSIZE \/ i < ph
    OBVIOUS
  <2>11. b \in Nat /\ b < g.p_filesz
    BY <2>3
  <2> HIDE DEF g
  <2>9. a \in 0 .. MemSize - 1
    BY <1>2, <2>3, <2>11
  <2>10. CASE a \in pa .. pa + SECTSIZE - 1
    <3>1. h.p_pa - h.p_offset = g.p_pa - g.p_offset
      <4>1. CASE i = ph
        BY <1>5, <2>5, <4>1
      <4>2. CASE i < ph
        <5>1. ~ (g.p_pa + g.p_filesz <= RoundDown(h.p_pa))
          BY <1>2, <1>3, <2>3, <2>6, <2>10, <2>11
        <5>2. ~ (h.p_pa + h.p_memsz + SECTSIZE - 1 <= g.p_pa)
          BY <1>2, <1>3, <1>5, <2>3, <2>10, <2>11
        <5> QED
          BY <1>4, <2>4, <4>2, <5>1, <5>2
      <4> QED
        BY <1>3, <2>1, <4>1, <4>2
    <3>2. n + (a - pa) = g.p_offset + b
      <4>1. n = h.p_offset + (pa - h.p_pa) /\ pa \in Nat
        BY <1>3, <1>4
      <4>2. a = g.p_pa + b /\ b \in Nat
        BY <2>11
      <4> HIDE DEF a
      <4> QED
        BY <1>5, <2>3, <3>1, <4>1, <4>2
    <3> QED
      BY <1>10, <2>9, <2>10, <3>2 DEF g
  <2>12. CASE a \notin pa .. pa + SECTSIZE - 1
    <3>1. i < ph \/ a < pa
      BY <1>2, <1>3, <2>3, <2>8, <2>11, <2>12, SMTT(30)
    <3> QED
      BY <1>10, <2>7, <2>9, <2>12, <3>1 DEF g
  <2> QED
    BY <2>10, <2>12
<1>16. Copied'
  <2>1. DOMAIN mem' = 0 .. MemSize - 1 /\ DOMAIN mem = 0 .. MemSize - 1
    BY <1>0, <1>11 DEF Types
  <2>2. \A i \in 0 .. ph : Asking(i)' = Asking(i)
    BY <1>6 DEF Asking
  <2> SUFFICES ASSUME NEW a \in 0 .. MemSize - 1, mem'[a] # Junk
               PROVE  \E i \in 0 .. ph : a \in Asked(Asking(i).p_pa, Asking(i).p_memsz)
    BY <1>6, <2>1, <2>2 DEF Copied, Asked
  <2>3. CASE a \in pa .. pa + SECTSIZE - 1
    <3>1. h.p_memsz > 0 /\ h.p_pa - SECTSIZE < a /\ a < h.p_pa + h.p_memsz + SECTSIZE - 1
      <4>1. RoundDown(h.p_pa) \in Nat /\ h.p_pa < RoundDown(h.p_pa) + SECTSIZE
        BY <1>5, RoundDownIs
      <4>2. /\ pa \in Nat /\ pa < end_pa /\ end_pa = h.p_pa + h.p_memsz
            /\ RoundDown(h.p_pa) <= pa
        BY <1>3
      <4> QED
        BY <1>2, <1>4, <1>5, <2>3, <4>1, <4>2
    <3>2. a \in Asked(h.p_pa, h.p_memsz)
      BY <2>1, <3>1 DEF Asked
    <3> QED
      BY <1>3, <3>2 DEF h
  <2>4. CASE a \notin pa .. pa + SECTSIZE - 1
    <3>1. mem[a] # Junk
      BY <1>10, <2>4
    <3> QED
      BY <1>0, <1>1, <2>1, <3>1 DEF Copied
  <2> QED
    BY <2>3, <2>4
<1>17. Loaded' /\ Processor'
  BY <1>1 DEF Loaded, Processor
<1> QED
  BY <1>7, <1>12, <1>13, <1>14, <1>15, <1>16, <1>17 DEF Inv

LEMMA NextSegmentStep ==
  ASSUME Inv, NextSegment, UNCHANGED cpu, calls' = calls, UNCHANGED listing
  PROVE  Inv'
<1> DEFINE h == image.phs[ph + 1]
<1>0. Types /\ Position /\ Reading /\ Read /\ Copied
  BY DEF Inv
<1>1. at \in Before /\ at' = "readseg" /\ at' \in NoFrames /\ at' \in Booting /\ at' \in Low
      /\ at' \in Before /\ at' \in Places /\ at' # "paging"
  BY DEF NextSegment, Readseg, Before, InLoader, NoFrames, Low, Booting, Places
<1>2. UNCHANGED <<image, mem, disk, paging>> /\ ph' = ph + 1
  BY DEF NextSegment, cpu
<1>3. pa' = RoundDown(h.p_pa) /\ end_pa' = h.p_pa + h.p_memsz /\ offset' = h.p_offset \div SECTSIZE + 1
  BY DEF NextSegment, Readseg
<1>4. Len(image.phs) \in Nat /\ ph \in Nat /\ ph < Len(image.phs)
      /\ ph' \in 0 .. Len(image.phs) /\ ph' # 0 /\ Asking(ph') = h
  BY <1>0, <1>2, Header DEF Types, NextSegment, Asking
<1>5. /\ h.p_pa \in Nat /\ h.p_offset \in Nat /\ h.p_memsz \in Nat
      /\ h.p_pa % SECTSIZE = h.p_offset % SECTSIZE
  BY <1>0, <1>4, Segments DEF Types
<1>6. /\ RoundDown(h.p_pa) \in Nat /\ RoundDown(h.p_pa) <= h.p_pa
      /\ RoundDown(h.p_pa) % SECTSIZE = 0
  BY <1>5, RoundDownIs
<1>7. /\ offset' \in Nat \ {0}
      /\ SECTSIZE * (offset' - 1) - pa' = h.p_offset - h.p_pa
  BY <1>3, <1>5, Begins
<1>8. SECTSIZE \in Nat \ {0}
  BY LoaderAssumption
<1>9. Chain' /\ Frames' /\ Listing' /\ frame' \in Stack' \cup {0}
  BY <1>1, <1>2, NoFramesYet DEF Inv, Chain
<1> HIDE DEF h
<1>10. Types'
  <2>1. Disks' = Disks
    BY <1>2 DEF Disks, Sector, FileByte
  <2>2. pa' \in Nat /\ end_pa' \in Nat
    BY <1>3, <1>5, <1>6
  <2> QED
    BY <1>0, <1>1, <1>2, <1>4, <1>7, <1>9, <2>1, <2>2 DEF Types
<1>11. Position'
  <2>1. Asking(ph)' = h
    BY <1>2, <1>4 DEF Asking
  <2>2. pa' < end_pa' + SECTSIZE
    BY <1>3, <1>5, <1>6, <1>8
  <2>3. at' \notin InLoader \ {"readseg"}
    BY <1>1
  <2>4. pa' = RoundDown(h.p_pa) /\ RoundDown(h.p_pa) <= pa' /\ pa' % SECTSIZE = 0
    BY <1>3, <1>6
  <2> QED
    BY <1>3, <1>4, <1>7, <2>1, <2>2, <2>3, <2>4 DEF Position
<1>12. Reading'
  BY <1>1 DEF Reading
<1>13. Read'
  <2> SUFFICES ASSUME NEW i \in 1 .. ph + 1, NEW b \in 0 .. image.phs[i].p_filesz - 1,
                      i < ph + 1 \/ image.phs[i].p_pa + b < pa'
               PROVE  mem[image.phs[i].p_pa + b] = FileByte(image.phs[i].p_offset + b)
    BY <1>2 DEF Read, FileByte
  <2>1. i \in 0 .. Len(image.phs) /\ Asking(i) = image.phs[i]
    BY <1>4 DEF Asking
  <2>2. /\ image.phs[i].p_pa \in Nat /\ image.phs[i].p_filesz \in Nat
        /\ image.phs[i].p_memsz \in Nat /\ image.phs[i].p_filesz <= image.phs[i].p_memsz
    BY <1>0, <2>1, Segments DEF Types
  <2>3. CASE i = ph + 1
    <3>1. image.phs[i] = h
      BY <2>3 DEF h
    <3> QED
      BY <1>3, <1>4, <1>5, <1>6, <2>2, <2>3, <3>1, SMTT(30)
  <2>4. CASE i < ph
    BY <1>0, <1>1, <1>4, <2>4 DEF Read
  <2>5. CASE i = ph
    <3>1. end_pa = image.phs[i].p_pa + image.phs[i].p_memsz
      BY <1>0, <2>1, <2>5 DEF Position
    <3>2. image.phs[i].p_pa + b < pa
      <4>1. pa >= end_pa /\ pa \in Nat /\ end_pa \in Nat
        BY <1>0 DEF NextSegment, Types
      <4> QED
        BY <2>2, <3>1, <4>1
    <3> QED
      BY <1>0, <1>1, <1>4, <2>5, <3>2 DEF Read
  <2> QED
    BY <1>4, <2>3, <2>4, <2>5
<1>14. Copied'
  <2>1. \A i \in 0 .. ph : Asking(i)' = Asking(i) /\ i \in 0 .. ph'
    BY <1>2, <1>4 DEF Asking
  <2> QED
    BY <1>0, <1>1, <1>2, <2>1 DEF Copied, Asked
<1>15. Loaded' /\ Processor'
  BY <1>1 DEF Loaded, Processor
<1> QED
  BY <1>9, <1>10, <1>11, <1>12, <1>13, <1>14, <1>15 DEF Inv

LEMMA JumpToEntryStep ==
  ASSUME Inv, JumpToEntry, UNCHANGED <<paging, esp, ebp>>, calls' = calls, UNCHANGED listing
  PROVE  Inv'
<1>0. Types /\ Position /\ Read /\ Copied
  BY DEF Inv
<1>1. at \in Before /\ at' = "entry" /\ at' \in NoFrames /\ at' \in Booting /\ at' \in Low
      /\ at' \notin Before /\ at' \notin InLoader /\ at' \in Places /\ at' # "paging"
  BY DEF JumpToEntry, Before, InLoader, NoFrames, Low, Booting, Places
<1>2. UNCHANGED <<image, mem, ph, pa, end_pa, offset, disk, paging>>
  BY DEF JumpToEntry, segment
<1>3. Chain' /\ Frames' /\ Listing' /\ frame' \in Stack' \cup {0}
  BY <1>1, <1>2, NoFramesYet DEF Inv, Chain
<1>4. Types'
  <2>1. Disks' = Disks
    BY <1>2 DEF Disks, Sector, FileByte
  <2> QED
    BY <1>0, <1>1, <1>2, <1>3, <2>1 DEF Types
<1>5. Position'
  BY <1>0, <1>1, <1>2 DEF Position, Asking
<1>6. Reading' /\ Read'
  BY <1>1 DEF Reading, Read, Before, InLoader
<1>7. Copied'
  BY <1>0, <1>1, <1>2 DEF Copied, Asked, Asking
<1>8. Loaded'
  <2>1. ph = Len(image.phs) /\ pa >= end_pa
    BY DEF JumpToEntry
  <2> SUFFICES ASSUME NEW i \in DOMAIN image.phs, NEW b \in 0 .. image.phs[i].p_filesz - 1
               PROVE  mem[image.phs[i].p_pa + b] = FileByte(image.phs[i].p_offset + b)
    BY <1>1, <1>2, <2>1 DEF Loaded, FileByte
  <2>2. i \in 1 .. ph /\ i \in 0 .. Len(image.phs) /\ Asking(i) = image.phs[i]
    BY <1>0, <2>1, Header DEF Asking
  <2>3. /\ image.phs[i].p_pa \in Nat /\ image.phs[i].p_filesz \in Nat
        /\ image.phs[i].p_memsz \in Nat /\ image.phs[i].p_filesz <= image.phs[i].p_memsz
    BY <1>0, <2>2, Segments DEF Types
  <2>4. i = ph => image.phs[i].p_pa + b < pa
    <3>1. i = ph => end_pa = image.phs[i].p_pa + image.phs[i].p_memsz
      BY <1>0, <2>2 DEF Position
    <3> QED
      BY <1>0, <2>1, <2>3, <3>1 DEF Types
  <2>5. i < ph \/ i = ph
    BY <1>0, <2>2 DEF Types
  <2> QED
    BY <1>0, <1>1, <2>2, <2>4, <2>5 DEF Read
<1>9. Processor'
  BY <1>1 DEF Processor
<1> QED
  BY <1>3, <1>4, <1>5, <1>6, <1>7, <1>8, <1>9 DEF Inv

LEMMA LoadStep ==
  ASSUME Inv, Load, calls' = calls, UNCHANGED listing
  PROVE  Inv'
<1>1. CASE JumpToEntry
  BY <1>1, JumpToEntryStep DEF Load
<1>2. CASE Waitdisk \/ Command \/ Insl \/ ReadNext \/ NextSegment \/ Bad
  <2>1. at' # "entry"
    BY <1>2 DEF Waitdisk, Command, Insl, ReadNext, NextSegment, Readseg, Bad
  <2>2. UNCHANGED cpu
    BY <2>1 DEF Load, cpu
  <2> QED
    BY <1>2, <2>2, WaitdiskStep, CommandStep, InslStep, ReadNextStep, NextSegmentStep, BadStep
<1> QED
  BY <1>1, <1>2 DEF Load, Loader

\* The disk answers, at any time.
LEMMA DiskStep ==
  ASSUME Inv, Disk, UNCHANGED listing,
         \/ calls' = calls
         \/ at \in NoFrames /\ calls' \in Seq(Records)
  PROVE  Inv'
<1>0. Types /\ Reading
  BY DEF Inv
<1>1. UNCHANGED <<image, mem, at, ph, pa, end_pa, offset, paging, eip, esp, ebp, frame, listed>>
  BY DEF Disk, DiskReady, cpu, segment, listing
<1>2. disk.status # "ready" /\ disk'.status = "ready" /\ disk'.regs = disk.regs
      /\ disk'.data = IF disk.status = "busy" THEN <<Sector(Lba(disk.regs))>> ELSE <<>>
  BY <1>0 DEF Disk, DiskReady, Types, Disks
<1>3. disk.regs \in [1 .. 4 -> 0 .. Port - 1] /\ Port \in Nat /\ disk.status \in {"ready", "busy", "starting"}
  BY <1>0, LoaderAssumption DEF Types, Disks
<1>4. Lba(disk.regs) \in Nat
  <2>1. disk.regs[1] \in Nat /\ disk.regs[2] \in Nat /\ disk.regs[3] \in Nat /\ disk.regs[4] \in Nat
    BY <1>3
  <2>2. \A x, y \in Nat : x + Port * y \in Nat
    BY <1>3
  <2> QED
    BY <2>1, <2>2 DEF Lba
<1>5. disk' \in Disks /\ Disks' = Disks
  <2>1. disk'.data \in {<<>>} \cup {<<Sector(n)>> : n \in Nat}
    BY <1>2, <1>4
  <2>2. disk' = [status |-> disk'.status, regs |-> disk'.regs, data |-> disk'.data]
    BY <1>0 DEF Disk, DiskReady, Types, Disks
  <2>3. Disks' = Disks
    BY <1>1 DEF Disks, Sector, FileByte
  <2> QED
    BY <1>2, <1>3, <2>1, <2>2, <2>3 DEF Disks
<1>6. Types'
  BY <1>0, <1>1, <1>5 DEF Types, Stack
<1>7. Reading'
  <2>1. at \notin {"command", "data"}
    BY <1>0, <1>2 DEF Reading
  <2>2. at = "wait data" => disk.status = "busy" /\ disk.regs = SectorPorts(offset) /\ offset < Sectors
    <3> SUFFICES ASSUME at = "wait data"
                 PROVE  disk.status = "busy" /\ disk.regs = SectorPorts(offset) /\ offset < Sectors
      OBVIOUS
    <3>1. pa < end_pa
      BY DEF Inv, Position, InLoader
    <3> QED
      BY <1>0, <1>2, <3>1, InsideSegment DEF Inv, Reading
  <2>3. at = "wait data" => disk'.data = <<Sector(offset)>>
    BY <1>0, <1>2, <2>2, PortsHoldSector DEF Types
  <2>4. at = "wait data" => (disk.data = <<Sector(offset)>>)'
    BY <1>1, <2>3 DEF Sector, FileByte
  <2> QED
    BY <1>1, <1>2, <2>1, <2>4 DEF Reading
<1>8. Position' /\ Read' /\ Copied'
  BY <1>1 DEF Inv, Position, Asking, Read, Copied, Asked, FileByte
<1>9. Loaded' /\ Processor'
  BY <1>1 DEF Inv, Loaded, Processor, Stack, FileByte, Bss
<1>10. CASE at \in NoFrames
  <2>1. Chain' /\ Frames' /\ Listing'
    BY <1>1, <1>10, NoFramesYet DEF Inv, Chain
  <2> QED
    BY <1>6, <1>7, <1>8, <1>9, <2>1 DEF Inv
<1>11. CASE calls' = calls
  <2>1. Runner' = Runner
    BY <1>1, SameKernel DEF Runner
  <2>2. Chain'
    BY <1>1, <1>11, <2>1, SameKernel DEF Inv, Chain
  <2>3. \A va : WordAt(va)' = WordAt(va)
    BY <1>1 DEF WordAt, Phys
  <2>4. Frames'
    BY <1>1, <1>11, <2>3, SameKernel DEF Inv, Frames, InFrame
  <2>5. Listing'
    BY <1>1, <1>11, SameKernel DEF Inv, Listing
  <2> QED
    BY <1>6, <1>7, <1>8, <1>9, <2>2, <2>4, <2>5 DEF Inv
<1> QED
  BY <1>10, <1>11

---------------------------------------------------------------------------
(* The kernel's memory, and what a call writes into it. *)

LEMMA KernelAddress ==
  ASSUME paging, NEW va \in KERNBASE .. KERNBASE + MemSize - 1
  PROVE  Phys(va) = va - KERNBASE /\ va - KERNBASE \in 0 .. MemSize - 1
<1>1. PTSIZE \in Nat \ {0} /\ MemSize \in Nat /\ MemSize <= PTSIZE /\ KERNBASE \in Nat \ {0}
      /\ KERNBASE % PTSIZE = 0
  BY LoaderAssumption, PagingAssumption
<1>2. KERNBASE \div PTSIZE \in Nat /\ KERNBASE = PTSIZE * (KERNBASE \div PTSIZE)
  BY <1>1, Division
<1>3. PICK q \in Nat : KERNBASE = PTSIZE * q
  BY <1>2
<1> DEFINE r == va - KERNBASE
<1>4. r \in 0 .. PTSIZE - 1 /\ r \in 0 .. MemSize - 1 /\ va = PTSIZE * q + r
  BY <1>1, <1>3
<1> HIDE DEF r
<1>5. va % PTSIZE = r
  BY <1>1, <1>4, Remainder
<1> QED
  BY <1>4, <1>5 DEF Phys, r

\* Where the linker puts what the kernel needs before it can print.
LEMMA Kernels ==
  ASSUME image \in Images
  PROVE  /\ KERNBASE \in Nat \ {0} /\ MemSize \in Nat
         /\ image.bootstack \in Nat /\ image.bootstacktop \in Nat
         /\ KERNBASE <= image.bootstack /\ image.bootstack + 2 <= image.bootstacktop
         /\ image.bootstacktop + 5 <= KERNBASE + MemSize
         /\ image.edata \in KERNBASE .. KERNBASE + MemSize
         /\ image.end \in KERNBASE .. KERNBASE + MemSize
         /\ image.bootstacktop <= image.edata \/ image.end <= image.bootstack
         /\ \A va \in {image.relocated, image.spin, image.i386_init, image.test_backtrace,
                       image.mon_backtrace, image.monitor, image.runcmd} :
                va \in Nat /\ va >= KERNBASE
<1>1. KERNBASE \in Nat \ {0} /\ MemSize \in Nat
  BY LoaderAssumption, PagingAssumption
<1>2. /\ {image.relocated, image.spin, image.i386_init} \subseteq {va \in Nat : va >= KERNBASE}
      /\ {image.bootstack, image.bootstacktop + 5, image.edata, image.end} \subseteq
            KERNBASE .. KERNBASE + MemSize
      /\ image.bootstacktop <= image.edata \/ image.end <= image.bootstack
      /\ image.bootstacktop \in Nat /\ image.bootstack + 2 <= image.bootstacktop
  BY LinkedAssumption
<1>3. {image.test_backtrace, image.mon_backtrace, image.monitor, image.runcmd} \subseteq
        {va \in Nat : va >= KERNBASE}
  BY CallsAssumption
<1> QED
  BY <1>1, <1>2, <1>3

LEMMA WordValue ==
  ASSUME NEW n \in Nat, NEW w, w = Word(n)
  PROVE  w \in Int /\ (CASE w = Zero -> 0 [] w < Boot -> Boot - w [] OTHER -> w) = n
BY DEF Word, Zero, Boot

\* What Enter does, where there is room on the stack.
Effect(bp, sp, top, args, return, f) ==
    /\ esp' = top /\ ebp' = top /\ eip' = f
    /\ UNCHANGED <<image, ph, pa, end_pa, offset, disk, paging>>
    /\ mem' \in [0 .. MemSize - 1 -> Int]
    /\ WordAt(top)' = bp /\ WordAt(top + 1)' = return
    /\ \A m \in DOMAIN args : WordAt(top + 1 + m)' = args[m]
    /\ \A va \in KERNBASE .. KERNBASE + MemSize - 1 : va \notin top .. sp - 1 =>
            mem'[va - KERNBASE] = mem[va - KERNBASE] /\ WordAt(va)' = WordAt(va)

LEMMA Entered ==
  ASSUME Types, paging, eip \in Nat, eip >= KERNBASE,
         NEW bp \in Nat, NEW sp \in Nat, NEW top, NEW args \in Seq(Nat), NEW return \in Nat,
         NEW f \in Nat, return >= KERNBASE, f >= KERNBASE,
         top = sp - 2 - Len(args), image.bootstack <= top, sp <= image.bootstacktop,
         Enter(bp, sp, args, return, f)
  PROVE  Effect(bp, sp, top, args, return, f)
<1> DEFINE words == <<bp, return>> \o args
<1>1. /\ KERNBASE \in Nat \ {0} /\ MemSize \in Nat
      /\ KERNBASE <= image.bootstack /\ image.bootstacktop + 5 <= KERNBASE + MemSize
      /\ image.bootstack \in Nat /\ image.bootstacktop \in Nat
  BY Kernels DEF Types
<1>2. Len(args) \in Nat
  OBVIOUS
<1>3. top \in Nat /\ top >= KERNBASE /\ top + 2 + Len(args) = sp /\ sp < KERNBASE + MemSize
  BY <1>1, <1>2, SMTT(30)
<1>4. words \in Seq(Nat) /\ Len(words) = 2 + Len(args) /\ words[1] = bp /\ words[2] = return
      /\ \A m \in DOMAIN args : words[2 + m] = args[m] /\ m \in 1 .. Len(args)
  <2>1. <<bp, return>> \in Seq(Nat) /\ Len(<<bp, return>>) = 2
    OBVIOUS
  <2>2. words \in Seq(Nat) /\ Len(words) = 2 + Len(args)
    BY <2>1
  <2>3. \A i \in 1 .. 2 + Len(args) :
            words[i] = IF i <= 2 THEN <<bp, return>>[i] ELSE args[i - 2]
    BY <1>2, <2>1
  <2>4. \A m \in DOMAIN args : words[2 + m] = args[m] /\ m \in 1 .. Len(args)
    <3> SUFFICES ASSUME NEW m \in DOMAIN args PROVE words[2 + m] = args[m] /\ m \in 1 .. Len(args)
      OBVIOUS
    <3>1. m \in 1 .. Len(args) /\ 2 + m \in 1 .. 2 + Len(args) /\ ~ (2 + m <= 2) /\ (2 + m) - 2 = m
      BY <1>2, SMTT(30)
    <3> QED
      BY <2>3, <3>1
  <2>5. words[1] = bp /\ words[2] = return
    BY <1>2, <2>3
  <2> QED
    BY <2>2, <2>4, <2>5
<1>5. Near(return) = return /\ Near(f) = f
  BY <1>1 DEF Near
<1> HIDE DEF words
<1>6. sp - Len(words) = top
  BY <1>2, <1>4
<1>7. /\ esp' = top /\ ebp' = top /\ eip' = f
      /\ UNCHANGED <<image, ph, pa, end_pa, offset, disk, paging>>
      /\ mem' = [a \in DOMAIN mem |->
                    IF a - Phys(top) + 1 \in DOMAIN words
                    THEN Word(words[a - Phys(top) + 1]) ELSE mem[a]]
  BY <1>5, <1>6 DEF Enter, segment, words
<1>8. Phys(top) = top - KERNBASE
  <2>1. top \in KERNBASE .. KERNBASE + MemSize - 1
    BY <1>1, <1>2, <1>3
  <2> QED
    BY <2>1, KernelAddress
<1>9. \A va \in KERNBASE .. KERNBASE + MemSize - 1 :
        mem'[va - KERNBASE] = IF va - top + 1 \in 1 .. 2 + Len(args)
                              THEN Word(words[va - top + 1]) ELSE mem[va - KERNBASE]
  <2> SUFFICES ASSUME NEW va \in KERNBASE .. KERNBASE + MemSize - 1
               PROVE  mem'[va - KERNBASE] = IF va - top + 1 \in 1 .. 2 + Len(args)
                              THEN Word(words[va - top + 1]) ELSE mem[va - KERNBASE]
    OBVIOUS
  <2>1. va - KERNBASE \in DOMAIN mem
    BY <1>1 DEF Types
  <2>2. (va - KERNBASE) - Phys(top) + 1 = va - top + 1
    BY <1>1, <1>3, <1>8
  <2>3. DOMAIN words = 1 .. 2 + Len(args)
    BY <1>4
  <2> QED
    BY <1>7, <2>1, <2>2, <2>3
<1>10. \A i \in 1 .. 2 + Len(args) : words[i] \in Nat
  BY <1>4
<1>11. mem' \in [0 .. MemSize - 1 -> Int]
  <2>1. DOMAIN mem = 0 .. MemSize - 1 /\ \A a \in 0 .. MemSize - 1 : mem[a] \in Int
    BY DEF Types
  <2>2. \A a \in 0 .. MemSize - 1 : mem'[a] \in Int
    <3> SUFFICES ASSUME NEW a \in 0 .. MemSize - 1 PROVE mem'[a] \in Int
      OBVIOUS
    <3>1. KERNBASE + a \in KERNBASE .. KERNBASE + MemSize - 1 /\ (KERNBASE + a) - KERNBASE = a
      BY <1>1
    <3>2. \A n \in Nat : Word(n) \in Int
      BY WordValue
    <3> QED
      BY <1>9, <1>10, <2>1, <3>1, <3>2
  <2>3. mem' = [a \in 0 .. MemSize - 1 |-> mem'[a]]
    BY <1>7, <2>1
  <2> QED
    BY <2>2, <2>3
<1>12. \A i \in 1 .. 2 + Len(args) : WordAt(top + (i - 1))' = words[i]
  <2> SUFFICES ASSUME NEW i \in 1 .. 2 + Len(args) PROVE WordAt(top + (i - 1))' = words[i]
    OBVIOUS
  <2> DEFINE va == top + (i - 1)
  <2>1. va \in KERNBASE .. KERNBASE + MemSize - 1 /\ va - top + 1 = i
    BY <1>1, <1>2, <1>3
  <2> HIDE DEF va
  <2>2. mem'[va - KERNBASE] = Word(words[i])
    BY <1>9, <2>1
  <2>3. Phys(va)' = va - KERNBASE
    BY <1>7, <2>1, KernelAddress DEF Phys
  <2>4. WordAt(va)' = words[i]
    BY <1>10, <2>2, <2>3, WordValue DEF WordAt
  <2> QED
    BY <2>4 DEF va
<1>13. \A va \in KERNBASE .. KERNBASE + MemSize - 1 : va \notin top .. sp - 1 =>
          mem'[va - KERNBASE] = mem[va - KERNBASE] /\ WordAt(va)' = WordAt(va)
  <2> SUFFICES ASSUME NEW va \in KERNBASE .. KERNBASE + MemSize - 1, va \notin top .. sp - 1
               PROVE  mem'[va - KERNBASE] = mem[va - KERNBASE] /\ WordAt(va)' = WordAt(va)
    OBVIOUS
  <2>1. va - top + 1 \notin 1 .. 2 + Len(args)
    BY <1>1, <1>2, <1>3
  <2>2. mem'[va - KERNBASE] = mem[va - KERNBASE]
    BY <1>9, <2>1
  <2>3. Phys(va)' = va - KERNBASE /\ Phys(va) = va - KERNBASE
    BY <1>7, KernelAddress DEF Phys
  <2>4. WordAt(va)' = WordAt(va)
    BY <2>2, <2>3 DEF WordAt
  <2> QED
    BY <2>2, <2>4
<1>14. WordAt(top)' = bp /\ WordAt(top + 1)' = return
       /\ \A m \in DOMAIN args : WordAt(top + 1 + m)' = args[m]
  <2>1. top + (1 - 1) = top /\ top + (2 - 1) = top + 1
    BY <1>3
  <2>2. 1 \in 1 .. 2 + Len(args) /\ 2 \in 1 .. 2 + Len(args)
    BY <1>2
  <2>3. \A m \in DOMAIN args : 2 + m \in 1 .. 2 + Len(args) /\ top + ((2 + m) - 1) = top + 1 + m
    BY <1>2, <1>3, SMTT(30)
  <2>4. WordAt(top)' = bp /\ WordAt(top + 1)' = return
    BY <1>4, <1>12, <2>1, <2>2
  <2> QED
    BY <1>4, <1>12, <2>3, <2>4
<1> QED
  BY <1>7, <1>11, <1>13, <1>14 DEF Effect

---------------------------------------------------------------------------
(* Calls and returns. *)

\* A return address tells where the call was.
LEMMA Distinct ==
  ASSUME image \in Images
  PROVE  /\ image.spin \notin Tests /\ image.i386_init + 2 \notin Tests
         /\ image.test_backtrace + 2 \notin Tests
         /\ image.monitor + 1 \notin Tests /\ image.runcmd + 1 \notin Tests
         /\ image.i386_init + 1 # image.test_backtrace + 1
         /\ image.i386_init + 2 \notin {image.spin, image.test_backtrace + 2}
         /\ image.test_backtrace + 2 # image.spin
         /\ image.monitor + 1 \notin {image.spin, image.i386_init + 2, image.test_backtrace + 2}
         /\ image.runcmd + 1 \notin {image.spin, image.i386_init + 2, image.test_backtrace + 2,
                                     image.monitor + 1}
<1> DEFINE returns == <<image.spin, image.i386_init + 1, image.i386_init + 2,
                        image.test_backtrace + 1, image.test_backtrace + 2,
                        image.monitor + 1, image.runcmd + 1>>
<1>1. \A i, j \in 1 .. 7 : returns[i] = returns[j] => i = j
  BY CallsAssumption
<1>2. /\ returns[1] = image.spin /\ returns[2] = image.i386_init + 1
      /\ returns[3] = image.i386_init + 2 /\ returns[4] = image.test_backtrace + 1
      /\ returns[5] = image.test_backtrace + 2 /\ returns[6] = image.monitor + 1
      /\ returns[7] = image.runcmd + 1
  OBVIOUS
<1> HIDE DEF returns
<1>3. \A i, j \in 1 .. 7 : i < j => returns[i] # returns[j]
  BY <1>1
<1>4. /\ returns[1] # returns[2] /\ returns[1] # returns[3] /\ returns[1] # returns[4]
      /\ returns[1] # returns[5] /\ returns[1] # returns[6] /\ returns[1] # returns[7]
      /\ returns[2] # returns[3] /\ returns[2] # returns[4] /\ returns[2] # returns[5]
      /\ returns[2] # returns[6] /\ returns[2] # returns[7] /\ returns[3] # returns[4]
      /\ returns[3] # returns[5] /\ returns[3] # returns[6] /\ returns[3] # returns[7]
      /\ returns[4] # returns[5] /\ returns[4] # returns[6] /\ returns[4] # returns[7]
      /\ returns[5] # returns[6] /\ returns[5] # returns[7] /\ returns[6] # returns[7]
  BY <1>3
<1> QED
  BY <1>2, <1>4 DEF Tests

LEMMA Pushes ==
  ASSUME image \in Images
  PROVE  /\ Pushed(image.spin) = 0
         /\ \A va \in Tests : Pushed(va) = 1
         /\ Pushed(image.test_backtrace + 2) = 3 /\ Pushed(image.i386_init + 2) = 1
         /\ Pushed(image.monitor + 1) = 2 /\ Pushed(image.runcmd + 1) = 3
BY Distinct DEF Pushed

\* Where the frames are.
LEMMA Kinds ==
  ASSUME image \in Images, NEW c
  PROVE  /\ c.eip = image.spin => FrameOf(c) = image.bootstacktop - 2
         /\ c.eip \in Tests =>
                FrameOf(c) = image.bootstacktop - (2 + 3 * (Depth - c.args[1] + 1))
         /\ c.eip = image.test_backtrace + 2 =>
                FrameOf(c) = image.bootstacktop - (2 + 3 * (Depth + 1) + 5)
         /\ c.eip = image.i386_init + 2 => FrameOf(c) = image.bootstacktop - 5
         /\ c.eip = image.monitor + 1 => FrameOf(c) = image.bootstacktop - 9
         /\ c.eip = image.runcmd + 1 => FrameOf(c) = image.bootstacktop - 14
BY Distinct DEF FrameOf, Below

LEMMA FramesOnStack ==
  ASSUME image \in Images, NEW c \in Records, Call(c)
  PROVE  /\ Len(c.args) \in 0 .. 3 /\ Len(c.args) = Pushed(c.eip)
         /\ DOMAIN c.args = 1 .. Len(c.args)
         /\ c.eip \in Tests => c.args[1] \in 0 .. Depth
         /\ FrameOf(c) \in Nat /\ image.bootstack <= FrameOf(c)
         /\ FrameOf(c) + 2 + Len(c.args) <= image.bootstacktop
         /\ c.eip \in Nat /\ c.eip >= KERNBASE
<1>1. /\ image.bootstack \in Nat /\ image.bootstacktop \in Nat /\ KERNBASE \in Nat
      /\ \A va \in {image.spin, image.i386_init, image.test_backtrace, image.monitor,
                    image.runcmd} : va \in Nat /\ va >= KERNBASE
  BY Kernels
<1>2. /\ Depth \in Nat
      /\ image.bootstacktop - image.bootstack >= 2 + 3 * (Depth + 1) + 5
      /\ image.bootstacktop - image.bootstack >= 2 + 3 + 4 + 5
  BY CallsAssumption
<1>3. c.eip \in Returns /\ c.args \in [1 .. Pushed(c.eip) -> Nat]
      /\ (c.eip \in Tests => c.args[1] <= Depth) /\ c.args \in Seq(Nat)
  BY DEF Call, Records
<1>4. Len(c.args) \in Nat /\ DOMAIN c.args = 1 .. Len(c.args)
  BY <1>3
<1>5. Pushed(c.eip) \in {0, 1, 2, 3}
  BY <1>3, Pushes DEF Returns
<1>6. DOMAIN c.args = 1 .. Pushed(c.eip)
  BY <1>3
<1>7. Len(c.args) = Pushed(c.eip)
  <2> DEFINE l == Len(c.args)
             p == Pushed(c.eip)
  <2>1. l \in Nat /\ p \in Nat /\ 1 .. l = 1 .. p
    BY <1>4, <1>5, <1>6
  <2> HIDE DEF l, p
  <2>2. l >= 1 => l \in 1 .. p
    BY <2>1
  <2>3. p >= 1 => p \in 1 .. l
    BY <2>1
  <2>4. l = p
    BY <2>1, <2>2, <2>3
  <2> QED
    BY <2>4 DEF l, p
<1>8. c.eip \in Nat /\ c.eip >= KERNBASE
  <2>1. /\ image.spin \in Nat /\ image.spin >= KERNBASE
        /\ image.i386_init \in Nat /\ image.i386_init >= KERNBASE
        /\ image.test_backtrace \in Nat /\ image.test_backtrace >= KERNBASE
        /\ image.monitor \in Nat /\ image.monitor >= KERNBASE
        /\ image.runcmd \in Nat /\ image.runcmd >= KERNBASE
    BY <1>1
  <2>2. c.eip \in {image.spin, image.i386_init + 1, image.test_backtrace + 1,
                   image.test_backtrace + 2, image.i386_init + 2, image.monitor + 1,
                   image.runcmd + 1}
    BY <1>3 DEF Returns, Tests
  <2> QED
    BY <1>1, <2>1, <2>2
<1>9. c.eip \in Tests => c.args[1] \in 0 .. Depth
  <2> SUFFICES ASSUME c.eip \in Tests PROVE c.args[1] \in 0 .. Depth
    OBVIOUS
  <2>1. Pushed(c.eip) = 1
    BY Pushes
  <2>2. c.args \in [1 .. 1 -> Nat] /\ c.args[1] <= Depth
    BY <1>3, <2>1
  <2>3. c.args[1] \in Nat
    BY <2>2
  <2> QED
    BY <1>2, <2>2, <2>3
<1>10. /\ FrameOf(c) \in Nat /\ image.bootstack <= FrameOf(c)
       /\ FrameOf(c) + 2 + Pushed(c.eip) <= image.bootstacktop
  <2>1. CASE c.eip = image.spin
    BY <1>1, <1>2, <2>1, Kinds, Pushes
  <2>2. CASE c.eip \in Tests
    <3>1. FrameOf(c) = image.bootstacktop - (2 + 3 * (Depth - c.args[1] + 1)) /\ Pushed(c.eip) = 1
      BY <2>2, Kinds, Pushes
    <3> QED
      BY <1>1, <1>2, <1>9, <2>2, <3>1
  <2>3. CASE c.eip = image.test_backtrace + 2
    BY <1>1, <1>2, <2>3, Kinds, Pushes
  <2>4. CASE c.eip = image.i386_init + 2
    BY <1>1, <1>2, <2>4, Kinds, Pushes
  <2>5. CASE c.eip = image.monitor + 1
    BY <1>1, <1>2, <2>5, Kinds, Pushes
  <2>6. CASE c.eip = image.runcmd + 1
    BY <1>1, <1>2, <2>6, Kinds, Pushes
  <2> QED
    BY <1>3, <2>1, <2>2, <2>3, <2>4, <2>5, <2>6 DEF Returns
<1> QED
  BY <1>4, <1>5, <1>7, <1>8, <1>9, <1>10

\* The stack is the only place that calls write to.
LEMMA LoadedKept ==
  ASSUME Inv, image' = image, ph' = ph, at \notin Before, at' \notin Before,
         at' \notin Booting => at \notin Booting,
         \A va \in KERNBASE .. KERNBASE + MemSize - 1 : va \notin Stack =>
            mem'[va - KERNBASE] = mem[va - KERNBASE]
  PROVE  Loaded'
<1>0. Types /\ Loaded
  BY DEF Inv
<1>1. /\ KERNBASE \in Nat /\ MemSize \in Nat
      /\ image.edata \in KERNBASE .. KERNBASE + MemSize
      /\ image.end \in KERNBASE .. KERNBASE + MemSize
      /\ image.bootstacktop <= image.edata \/ image.end <= image.bootstack
      /\ image.bootstack \in Nat /\ image.bootstacktop \in Nat
  BY <1>0, Kernels DEF Types
<1>2. \A i \in DOMAIN image.phs : \A b \in 0 .. image.phs[i].p_filesz - 1 :
            \/ KERNBASE + image.phs[i].p_pa + b \in Stack
            \/ mem'[image.phs[i].p_pa + b] = FileByte(image.phs[i].p_offset + b)
  <2> SUFFICES ASSUME NEW i \in DOMAIN image.phs, NEW b \in 0 .. image.phs[i].p_filesz - 1,
                      KERNBASE + image.phs[i].p_pa + b \notin Stack
               PROVE  mem'[image.phs[i].p_pa + b] = FileByte(image.phs[i].p_offset + b)
    OBVIOUS
  <2> DEFINE h == image.phs[i]
             va == KERNBASE + h.p_pa + b
  <2>1. i \in 0 .. Len(image.phs) /\ h = Asking(i)
    BY <1>0, Header DEF Asking
  <2>2. /\ h.p_pa \in Nat /\ h.p_filesz \in Nat /\ h.p_memsz \in Nat
        /\ h.p_filesz <= h.p_memsz /\ h.p_pa + h.p_memsz <= MemSize
    BY <1>0, <2>1, Segments DEF Types
  <2>3. va \notin Stack /\ mem[h.p_pa + b] = FileByte(h.p_offset + b)
    BY <1>0 DEF Loaded
  <2>4. b \in Nat /\ b < h.p_filesz
    BY <2>2
  <2> HIDE DEF h
  <2>5. va \in KERNBASE .. KERNBASE + MemSize - 1 /\ va - KERNBASE = h.p_pa + b
    BY <1>1, <2>2, <2>4
  <2>6. mem'[va - KERNBASE] = mem[va - KERNBASE]
    BY <2>3, <2>5
  <2> QED
    BY <2>3, <2>5, <2>6 DEF h
<1>3. at' \notin Booting => \A va \in Bss : mem'[Reloc(va)] = Zero
  <2> SUFFICES ASSUME at' \notin Booting, NEW va \in image.edata .. image.end - 1
               PROVE  mem'[va - KERNBASE] = Zero
    BY DEF Reloc, Bss
  <2>1. va \in KERNBASE .. KERNBASE + MemSize - 1 /\ va \notin Stack
    BY <1>1 DEF Stack
  <2>2. mem[va - KERNBASE] = Zero
    BY <1>0 DEF Loaded, Bss, Reloc
  <2> QED
    BY <2>1, <2>2
<1>4. Stack' = Stack
  BY SameKernel
<1> QED
  BY <1>0, <1>2, <1>3, <1>4 DEF Loaded, FileByte, Bss

LEMMA Pushing ==
  ASSUME NEW S, NEW s \in Seq(S), NEW c \in S, NEW t, t = <<c>> \o s
  PROVE  /\ t \in Seq(S) /\ Len(t) = Len(s) + 1 /\ DOMAIN t = 1 .. Len(s) + 1
         /\ t[1] = c /\ \A k \in DOMAIN s : t[k + 1] = s[k]
         /\ \A k \in DOMAIN t : k # 1 => k - 1 \in DOMAIN s /\ t[k] = s[k - 1]
         /\ t # <<>>
<1>1. <<c>> \in Seq(S) /\ Len(<<c>>) = 1 /\ <<c>>[1] = c
  OBVIOUS
<1>2. t \in Seq(S) /\ Len(t) = Len(s) + 1 /\ Len(s) \in Nat /\ DOMAIN t = 1 .. Len(s) + 1
  BY <1>1
<1>3. t[1] = c
  BY <1>1
<1>4. \A k \in 1 .. Len(s) : t[k + 1] = s[k]
  <2> SUFFICES ASSUME NEW k \in 1 .. Len(s) PROVE t[k + 1] = s[k]
    OBVIOUS
  <2>1. k + 1 \in 1 .. 1 + Len(s) /\ k + 1 > 1 /\ (k + 1) - 1 = k
    BY <1>2
  <2> QED
    BY <1>1, <2>1
<1>5. \A k \in DOMAIN t : k # 1 => k - 1 \in 1 .. Len(s) /\ t[k] = s[k - 1]
  <2> SUFFICES ASSUME NEW k \in DOMAIN t, k # 1
               PROVE  k - 1 \in 1 .. Len(s) /\ t[k] = s[k - 1]
    OBVIOUS
  <2>1. k - 1 \in 1 .. Len(s) /\ (k - 1) + 1 = k
    BY <1>2
  <2> QED
    BY <1>4, <2>1
<1>6. t # <<>>
  BY <1>2
<1> QED
  BY <1>2, <1>3, <1>4, <1>5, <1>6

\* A call extends the chain.
LEMMA PushStep ==
  ASSUME Inv, at \notin Booting, at' \notin Booting, at' \in Places,
         NEW args \in Seq(Nat), NEW return \in Nat, NEW f \in Nat, f >= KERNBASE,
         CallFrom(args, return, f),
         NEW c \in Records, c = [eip |-> return, args |-> args], Call(c),
         Calls(calls[1], c), FrameOf(c) = FrameOf(calls[1]) - 2 - Len(args),
         return \in Runner',
         \/ UNCHANGED listing /\ at' # "mon_backtrace"
         \/ frame' = ebp' /\ listed' = <<>>
  PROVE  Inv'
<1>0. Types /\ Position /\ Chain /\ Frames /\ Processor /\ Listing
  BY DEF Inv
<1>1. /\ at \notin Before /\ at' \notin Before /\ at' \notin Low /\ at' \notin NoFrames
      /\ at \notin Low /\ at \notin NoFrames
      /\ at' \notin InLoader /\ at' # "entry" /\ at' # "paging"
  BY DEF Booting, Before, Low, NoFrames, InLoader
<1>2. /\ calls \in Seq(Records) /\ calls # <<>> /\ Len(calls) \in Nat /\ 1 \in DOMAIN calls
      /\ DOMAIN calls = 1 .. Len(calls)
      /\ calls[1] \in Records /\ Call(calls[1])
  BY <1>0, <1>1 DEF Chain
<1>3. /\ esp = FrameOf(calls[1]) /\ ebp = FrameOf(calls[1])
      /\ calls[Len(calls)].eip = image.spin
      /\ \A k \in DOMAIN calls : Call(calls[k])
      /\ \A k \in 1 .. Len(calls) - 1 :
            /\ Calls(calls[k + 1], calls[k])
            /\ FrameOf(calls[k + 1]) = FrameOf(calls[k]) + 2 + Len(calls[k].args)
      /\ \A j, k \in DOMAIN calls : j <= k => FrameOf(calls[j]) <= FrameOf(calls[k])
  BY <1>0, <1>1 DEF Chain
<1>4. image \in Images
  BY <1>0 DEF Types
<1>5. \A k \in DOMAIN calls :
        /\ FrameOf(calls[k]) \in Nat /\ image.bootstack <= FrameOf(calls[k])
        /\ Len(calls[k].args) \in 0 .. 3 /\ DOMAIN calls[k].args = 1 .. Len(calls[k].args)
        /\ FrameOf(calls[k]) + 2 + Len(calls[k].args) <= image.bootstacktop
  BY <1>2, <1>3, <1>4, FramesOnStack
<1>6. /\ FrameOf(c) \in Nat /\ image.bootstack <= FrameOf(c) /\ return >= KERNBASE
      /\ c.args = args /\ c.eip = return /\ Len(args) \in 0 .. 3
  BY <1>4, FramesOnStack
<1>7. PICK top : top = FrameOf(c)
  OBVIOUS
<1>8. PICK sp : sp = FrameOf(calls[1])
  OBVIOUS
<1>9. /\ KERNBASE \in Nat \ {0} /\ MemSize \in Nat
      /\ KERNBASE <= image.bootstack /\ image.bootstacktop + 5 <= KERNBASE + MemSize
      /\ image.bootstack \in Nat /\ image.bootstacktop \in Nat
  BY <1>4, Kernels
<1>10. /\ sp \in Nat /\ top \in Nat /\ top = sp - 2 - Len(args) /\ image.bootstack <= top
       /\ sp <= image.bootstacktop /\ Enter(sp, sp, args, return, f)
  <2>1. sp \in Nat /\ top \in Nat /\ top = sp - 2 - Len(args) /\ image.bootstack <= top
    BY <1>2, <1>5, <1>6, <1>7, <1>8
  <2>2. sp <= image.bootstacktop
    <3>1. /\ FrameOf(calls[1]) \in Nat /\ Len(calls[1].args) \in 0 .. 3
          /\ FrameOf(calls[1]) + 2 + Len(calls[1].args) <= image.bootstacktop
      BY <1>2, <1>5
    <3> QED
      BY <1>8, <1>9, <3>1, SMTT(30)
  <2>3. Enter(sp, sp, args, return, f)
    BY <1>3, <1>8 DEF CallFrom
  <2> QED
    BY <2>1, <2>2, <2>3
<1>11. paging /\ eip \in Nat /\ eip >= KERNBASE
  BY <1>0, <1>1 DEF Processor
<1>12. /\ esp' = top /\ ebp' = top /\ eip' = f
       /\ UNCHANGED <<image, ph, pa, end_pa, offset, disk, paging>>
       /\ mem' \in [0 .. MemSize - 1 -> Int]
       /\ WordAt(top)' = sp /\ WordAt(top + 1)' = return
       /\ \A m \in DOMAIN args : WordAt(top + 1 + m)' = args[m]
       /\ \A va \in KERNBASE .. KERNBASE + MemSize - 1 : va \notin top .. sp - 1 =>
            mem'[va - KERNBASE] = mem[va - KERNBASE] /\ WordAt(va)' = WordAt(va)
  <2>1. Effect(sp, sp, top, args, return, f)
    BY <1>0, <1>6, <1>10, <1>11, Entered
  <2> QED
    BY <2>1 DEF Effect
<1>13. calls' = <<c>> \o calls
  BY DEF CallFrom
<1>14. /\ calls' \in Seq(Records) /\ Len(calls') = Len(calls) + 1
       /\ DOMAIN calls' = 1 .. Len(calls) + 1 /\ calls' # <<>>
       /\ calls'[1] = c /\ \A k \in DOMAIN calls : calls'[k + 1] = calls[k]
       /\ \A k \in DOMAIN calls' : k # 1 => k - 1 \in DOMAIN calls /\ calls'[k] = calls[k - 1]
  BY <1>2, <1>13, Pushing, SMTT(30)
<1>15. /\ Stack' = Stack
       /\ \A d : FrameOf(d)' = FrameOf(d) /\ (Call(d)' <=> Call(d))
       /\ \A d, e : Calls(d, e)' <=> Calls(d, e)
  BY <1>12, SameKernel
<1>22. frame' \in Stack \cup {0}
  <2>1. top \in Stack
    BY <1>6, <1>9, <1>10, SMTT(30) DEF Stack
  <2> QED
    BY <1>0, <1>12, <2>1 DEF Types, listing
<1>23. Listing'
  <2>1. CASE UNCHANGED listing /\ at' # "mon_backtrace"
    BY <1>0, <2>1 DEF Listing, listing
  <2>2. CASE frame' = ebp' /\ listed' = <<>>
    <3>1. listed' \in Seq(Rows) /\ Len(listed') = 0 /\ DOMAIN listed' = {}
      BY <2>2
    <3>2. Len(listed') < Len(calls') /\ frame' = FrameOf(calls'[Len(listed') + 1])
      BY <1>2, <1>7, <1>12, <1>14, <2>2, <3>1
    <3> QED
      BY <1>14, <1>15, <3>1, <3>2 DEF Listing
  <2> QED
    BY <2>1, <2>2
<1>16. Types'
  <2>1. Disks' = Disks
    BY <1>12 DEF Disks, Sector, FileByte
  <2> QED
    BY <1>0, <1>12, <1>15, <1>22, <2>1 DEF Types
<1>17. Position' /\ Reading' /\ Read' /\ Copied'
  BY <1>0, <1>1, <1>12 DEF Position, Asking, Reading, Read, Copied, InLoader
<1>18. Loaded'
  <2>1. top .. sp - 1 \subseteq Stack
    <3>1. /\ image.bootstack \in Nat /\ image.bootstacktop \in Nat /\ top \in Nat /\ sp \in Nat
          /\ image.bootstack <= top /\ sp <= image.bootstacktop
      BY <1>9, <1>10
    <3> QED
      BY <3>1 DEF Stack
  <2> QED
    BY <1>1, <1>12, <2>1, LoadedKept
<1>19. Processor'
  BY <1>1, <1>11, <1>12 DEF Processor
<1>20. Chain'
  <2>1. \A k \in DOMAIN calls' : Call(calls'[k])
    BY <1>3, <1>14
  <2>2. calls'[Len(calls')].eip = image.spin
    <3>1. Len(calls) \in DOMAIN calls /\ Len(calls') = Len(calls) + 1
      BY <1>2, <1>14
    <3> QED
      BY <1>3, <1>14, <3>1
  <2>3. \A k \in 1 .. Len(calls') - 1 :
            /\ Calls(calls'[k + 1], calls'[k])
            /\ FrameOf(calls'[k + 1]) = FrameOf(calls'[k]) + 2 + Len(calls'[k].args)
    <3> SUFFICES ASSUME NEW k \in 1 .. Len(calls)
                 PROVE  /\ Calls(calls'[k + 1], calls'[k])
                        /\ FrameOf(calls'[k + 1]) = FrameOf(calls'[k]) + 2 + Len(calls'[k].args)
      BY <1>2, <1>14
    <3>1. k \in DOMAIN calls /\ calls'[k + 1] = calls[k]
      BY <1>2, <1>14
    <3>2. CASE k = 1
      <4>1. FrameOf(calls[1]) = FrameOf(c) + 2 + Len(args)
        BY <1>6, <1>7, <1>8, <1>10
      <4> QED
        BY <1>6, <1>14, <3>1, <3>2, <4>1
    <3>3. CASE k # 1
      <4>1. k - 1 \in 1 .. Len(calls) - 1 /\ (k - 1) + 1 = k /\ k \in DOMAIN calls'
        BY <1>2, <1>14, <3>3
      <4>2. calls'[k] = calls[k - 1]
        BY <1>14, <3>3, <4>1
      <4> QED
        BY <1>3, <3>1, <4>1, <4>2
    <3> QED
      BY <3>2, <3>3
  <2>4. \A j, k \in DOMAIN calls' : j <= k => FrameOf(calls'[j]) <= FrameOf(calls'[k])
    <3> SUFFICES ASSUME NEW j \in DOMAIN calls', NEW k \in DOMAIN calls', j <= k
                 PROVE  FrameOf(calls'[j]) <= FrameOf(calls'[k])
      OBVIOUS
    <3>1. CASE j # 1
      <4>1. k # 1 /\ j - 1 <= k - 1
        BY <1>2, <1>14, <3>1
      <4> QED
        BY <1>3, <1>14, <3>1, <4>1
    <3>2. CASE j = 1 /\ k = 1
      BY <1>6, <1>14, <3>2
    <3>3. CASE j = 1 /\ k # 1
      <4>1. k - 1 \in DOMAIN calls /\ calls'[k] = calls[k - 1] /\ 1 <= k - 1
        BY <1>2, <1>14, <3>3
      <4>2. FrameOf(calls[1]) <= FrameOf(calls[k - 1])
        BY <1>2, <1>3, <4>1
      <4>3. FrameOf(c) <= FrameOf(calls[1])
        BY <1>7, <1>8, <1>10, <1>6
      <4> QED
        <5>1. FrameOf(calls'[j]) = FrameOf(c) /\ FrameOf(calls'[k]) = FrameOf(calls[k - 1])
          BY <1>14, <3>3, <4>1
        <5>2. /\ FrameOf(c) \in Nat /\ FrameOf(calls[1]) \in Nat
              /\ FrameOf(calls[k - 1]) \in Nat
          BY <1>2, <1>5, <1>6, <4>1
        <5> QED
          BY <4>2, <4>3, <5>1, <5>2
    <3> QED
      BY <3>1, <3>2, <3>3
  <2>5. esp' = FrameOf(calls'[1]) /\ ebp' = FrameOf(calls'[1]) /\ calls'[1].eip \in Runner'
    BY <1>6, <1>7, <1>12, <1>14
  <2> QED
    BY <1>12, <1>14, <1>15, <2>1, <2>2, <2>3, <2>4, <2>5 DEF Chain
<1>21. Frames'
  <2> SUFFICES ASSUME NEW k \in DOMAIN calls' PROVE InFrame(k)'
    BY DEF Frames
  <2>1. PICK g : g = FrameOf(calls'[k])
    OBVIOUS
  <2>2. CASE k = 1
    <3>1. g = top /\ calls'[k] = c
      BY <1>7, <1>14, <2>1, <2>2
    <3>2. k < Len(calls') /\ FrameOf(calls'[k + 1]) = sp
      <4>1. calls'[1 + 1] = calls[1] /\ 1 < Len(calls')
        BY <1>2, <1>14
      <4> QED
        BY <1>8, <2>2, <4>1
    <3>3. WordAt(g)' = sp /\ WordAt(g + 1)' = return
          /\ \A m \in DOMAIN args : WordAt(g + 1 + m)' = args[m]
      BY <1>12, <3>1
    <3> QED
      BY <1>6, <1>15, <2>1, <3>1, <3>2, <3>3 DEF InFrame
  <2>3. CASE k # 1
    <3> DEFINE j == k - 1
    <3>1. j \in DOMAIN calls /\ calls'[k] = calls[j] /\ g = FrameOf(calls[j])
      BY <1>14, <2>1, <2>3
    <3>2. (k < Len(calls')) = (j < Len(calls))
          /\ (j < Len(calls) => calls'[k + 1] = calls[j + 1])
      <4>1. j + 1 = k /\ (j < Len(calls) => k \in DOMAIN calls)
        BY <1>2, <1>14, <3>1
      <4> QED
        BY <1>2, <1>14, <3>1, <4>1
    <3>3. /\ WordAt(g) = IF j < Len(calls) THEN FrameOf(calls[j + 1]) ELSE 0
          /\ WordAt(g + 1) = calls[j].eip
          /\ \A m \in DOMAIN calls[j].args : WordAt(g + 1 + m) = calls[j].args[m]
      BY <1>0, <1>1, <3>1 DEF Frames, InFrame
    <3>4. /\ g \in Nat /\ Len(calls[j].args) \in Nat
          /\ DOMAIN calls[j].args = 1 .. Len(calls[j].args)
          /\ g + 2 + Len(calls[j].args) <= image.bootstacktop /\ sp <= g
      <4>1. FrameOf(calls[1]) <= FrameOf(calls[j])
        BY <1>2, <1>3, <3>1
      <4> QED
        BY <1>5, <1>8, <3>1, <4>1
    <3> HIDE DEF j
    <3>7. PICK l : l = Len(calls[j].args)
      OBVIOUS
    <3>8. /\ l \in Nat /\ g \in Nat /\ DOMAIN calls[j].args = 1 .. l
          /\ g + 2 + l <= image.bootstacktop /\ sp <= g
      BY <3>4, <3>7
    <3>5. \A n \in 0 .. 1 + l : WordAt(g + n)' = WordAt(g + n)
      <4> SUFFICES ASSUME NEW n \in 0 .. 1 + l PROVE WordAt(g + n)' = WordAt(g + n)
        OBVIOUS
      <4>1. PICK va : va = g + n
        OBVIOUS
      <4>2. va \in KERNBASE .. KERNBASE + MemSize - 1 /\ va \notin top .. sp - 1
        BY <1>6, <1>9, <1>10, <3>8, <4>1, SMTT(30)
      <4> QED
        BY <1>12, <4>1, <4>2
    <3>6. /\ WordAt(g)' = WordAt(g) /\ WordAt(g + 1)' = WordAt(g + 1)
          /\ \A m \in DOMAIN calls[j].args : WordAt(g + 1 + m)' = WordAt(g + 1 + m)
      <4>1. g + 0 = g /\ 0 \in 0 .. 1 + l /\ 1 \in 0 .. 1 + l
        BY <3>8
      <4>2. \A m \in 1 .. l : 1 + m \in 0 .. 1 + l /\ g + (1 + m) = g + 1 + m
        BY <3>8
      <4> QED
        BY <3>5, <3>8, <4>1, <4>2
    <3> QED
      BY <1>15, <2>1, <3>1, <3>2, <3>3, <3>6 DEF InFrame
  <2> QED
    BY <2>2, <2>3
<1> QED
  BY <1>16, <1>17, <1>18, <1>19, <1>20, <1>21, <1>23 DEF Inv

LEMMA Dropping ==
  ASSUME NEW S, NEW s \in Seq(S), Len(s) >= 2, NEW t, t = Tail(s)
  PROVE  /\ t \in Seq(S) /\ Len(t) = Len(s) - 1 /\ t # <<>>
         /\ \A k \in DOMAIN t : k + 1 \in DOMAIN s /\ t[k] = s[k + 1]
<1>1. s # <<>> /\ Len(s) \in Nat
  OBVIOUS
<1>2. t \in Seq(S) /\ Len(t) = Len(s) - 1
  BY <1>1
<1>3. \A k \in 1 .. Len(s) - 1 : k + 1 \in DOMAIN s /\ t[k] = s[k + 1]
  BY <1>1
<1>4. DOMAIN t = 1 .. Len(s) - 1
  BY <1>1, <1>2
<1>5. t # <<>>
  BY <1>1, <1>2
<1> QED
  BY <1>2, <1>3, <1>4, <1>5

\* Who goes on when a function returns: the one that called it.
LEMMA Resumed ==
  ASSUME Types, NEW d, NEW e, Calls(e, d),
         d.eip \in Tests \cup {image.test_backtrace + 2, image.monitor + 1, image.runcmd + 1}
  PROVE  \/ Resumes(d.eip) = "tested" /\ e.eip = image.spin
         \/ Resumes(d.eip) = "leaving" /\ e.eip \in Tests
         \/ Resumes(d.eip) = "monitor" /\ e.eip = image.i386_init + 2
         \/ Resumes(d.eip) = "runcmd" /\ e.eip = image.monitor + 1
<1>0. image \in Images
  BY DEF Types
<1>1. CASE d.eip = image.i386_init + 1
  <2>1. /\ d.eip # image.test_backtrace + 1 /\ d.eip # image.test_backtrace + 2
        /\ d.eip # image.monitor + 1 /\ d.eip # image.runcmd + 1
        /\ d.eip # image.i386_init + 2
    BY <1>0, <1>1, Distinct DEF Tests
  <2>2. Resumes(d.eip) = "tested"
    BY <1>1, <2>1 DEF Resumes
  <2> QED
    BY <2>1, <2>2 DEF Calls
<1>2. CASE d.eip \in {image.test_backtrace + 1, image.test_backtrace + 2}
  <2>1. /\ d.eip # image.i386_init + 1 /\ d.eip # image.i386_init + 2
        /\ d.eip # image.monitor + 1 /\ d.eip # image.runcmd + 1
    BY <1>0, <1>2, Distinct DEF Tests
  <2>2. Resumes(d.eip) = "leaving"
    BY <1>2, <2>1 DEF Resumes
  <2> QED
    BY <2>1, <2>2 DEF Calls
<1>3. CASE d.eip = image.monitor + 1
  <2>1. /\ d.eip \notin {image.i386_init + 1, image.test_backtrace + 1, image.test_backtrace + 2}
        /\ d.eip # image.i386_init + 2 /\ d.eip # image.runcmd + 1
    BY <1>0, <1>3, Distinct DEF Tests
  <2>2. Resumes(d.eip) = "monitor"
    BY <1>3, <2>1 DEF Resumes
  <2> QED
    BY <2>1, <2>2 DEF Calls
<1>4. CASE d.eip = image.runcmd + 1
  <2>1. /\ d.eip \notin {image.i386_init + 1, image.test_backtrace + 1, image.test_backtrace + 2}
        /\ d.eip # image.i386_init + 2 /\ d.eip # image.monitor + 1
    BY <1>0, <1>4, Distinct DEF Tests
  <2>2. Resumes(d.eip) = "runcmd"
    BY <1>4, <2>1 DEF Resumes
  <2> QED
    BY <2>1, <2>2 DEF Calls
<1> QED
  BY <1>1, <1>2, <1>3, <1>4 DEF Tests

\* A return drops the innermost call.
LEMMA ReturnStep ==
  ASSUME Inv, at \notin Booting, Return,
         calls[1].eip \in Tests \cup {image.test_backtrace + 2, image.monitor + 1, image.runcmd + 1}
  PROVE  Inv'
<1>0. Types /\ Position /\ Chain /\ Frames /\ Processor /\ Loaded /\ Listing
  BY DEF Inv
<1>1. at \notin Before /\ at \notin Low /\ at \notin NoFrames
  BY DEF Booting, Before, Low, NoFrames, InLoader
<1>2. /\ UNCHANGED <<image, mem, ph, pa, end_pa, offset, disk, paging, frame, listed>>
      /\ calls' = Tail(calls)
  BY DEF Return, segment, listing
<1>3. /\ calls \in Seq(Records) /\ calls # <<>> /\ Len(calls) \in Nat
      /\ DOMAIN calls = 1 .. Len(calls)
      /\ esp = FrameOf(calls[1]) /\ ebp = FrameOf(calls[1])
      /\ calls[Len(calls)].eip = image.spin
      /\ \A k \in DOMAIN calls : Call(calls[k])
      /\ \A k \in 1 .. Len(calls) - 1 :
            /\ Calls(calls[k + 1], calls[k])
            /\ FrameOf(calls[k + 1]) = FrameOf(calls[k]) + 2 + Len(calls[k].args)
      /\ \A j, k \in DOMAIN calls : j <= k => FrameOf(calls[j]) <= FrameOf(calls[k])
  BY <1>0, <1>1 DEF Chain
<1>4. image \in Images
  BY <1>0 DEF Types
<1>5. Len(calls) >= 2
  <2>1. calls[1].eip # image.spin
    BY <1>4, Distinct
  <2>2. Len(calls) # 1 /\ Len(calls) # 0
    BY <1>3, <2>1
  <2> QED
    BY <1>3, <2>2
<1>6. /\ calls' \in Seq(Records) /\ Len(calls') = Len(calls) - 1 /\ calls' # <<>>
      /\ DOMAIN calls' = 1 .. Len(calls')
      /\ \A k \in DOMAIN calls' : k + 1 \in DOMAIN calls /\ calls'[k] = calls[k + 1]
  <2>1. DOMAIN calls' = 1 .. Len(calls')
    BY <1>2, <1>3, <1>5, Dropping
  <2> QED
    BY <1>2, <1>3, <1>5, <2>1, Dropping
<1>7. 1 \in DOMAIN calls' /\ calls'[1] = calls[2] /\ 1 \in 1 .. Len(calls) - 1
  <2>1. 1 \in DOMAIN calls' /\ 1 + 1 = 2
    BY <1>3, <1>5, <1>6
  <2> QED
    BY <1>3, <1>5, <1>6, <2>1
<1>8. /\ Calls(calls[2], calls[1])
      /\ FrameOf(calls[2]) = FrameOf(calls[1]) + 2 + Len(calls[1].args)
  <2>1. 1 + 1 = 2
    OBVIOUS
  <2> QED
    BY <1>3, <1>7, <2>1
<1>9. /\ 1 \in DOMAIN calls /\ calls[1] \in Records /\ Call(calls[1])
      /\ calls[1].eip \in Nat /\ calls[1].eip >= KERNBASE
  BY <1>3, <1>4, <1>5, FramesOnStack
<1>10. WordAt(ebp) = FrameOf(calls[2]) /\ WordAt(ebp + 1) = calls[1].eip
  <2>1. InFrame(1)
    BY <1>0, <1>1, <1>9 DEF Frames
  <2>2. 1 < Len(calls) /\ 1 + 1 = 2
    BY <1>3, <1>5
  <2> QED
    BY <1>3, <2>1, <2>2 DEF InFrame
<1>11. eip' = calls[1].eip /\ ebp' = FrameOf(calls[2]) /\ esp' = FrameOf(calls[2])
  <2>1. Head(calls) = calls[1]
    BY <1>3
  <2> QED
    BY <1>3, <1>8, <1>10, <2>1 DEF Return
<1>12. at' = Resumes(calls[1].eip)
  <2>1. Linked(eip') = calls[1].eip
    BY <1>9, <1>11, PagingAssumption DEF Linked
  <2>2. Resumes(Linked(eip')) = Resumes(calls[1].eip)
    BY <2>1
  <2> QED
    BY <2>2 DEF Return
<1>13. \/ at' = "tested" /\ calls[2].eip = image.spin
       \/ at' = "leaving" /\ calls[2].eip \in Tests
       \/ at' = "monitor" /\ calls[2].eip = image.i386_init + 2
       \/ at' = "runcmd" /\ calls[2].eip = image.monitor + 1
  BY <1>0, <1>8, <1>12, Resumed
<1>14. /\ at' \notin Booting /\ at' \notin Before /\ at' \notin Low /\ at' \notin NoFrames
       /\ at' \in Places /\ at' \notin InLoader /\ at' # "mon_backtrace"
       /\ at' # "entry" /\ at' # "paging"
  BY <1>13 DEF Booting, Before, Low, NoFrames, Places, InLoader
<1>15. /\ Stack' = Stack /\ Tests' = Tests
       /\ \A d : FrameOf(d)' = FrameOf(d) /\ (Call(d)' <=> Call(d))
       /\ \A d, e : Calls(d, e)' <=> Calls(d, e)
  BY <1>2, SameKernel
<1>16. Types'
  <2>1. Disks' = Disks
    BY <1>2 DEF Disks, Sector, FileByte
  <2> QED
    BY <1>0, <1>2, <1>14, <1>15, <2>1 DEF Types
<1>17. Position' /\ Reading' /\ Read' /\ Copied'
  BY <1>0, <1>2, <1>14 DEF Position, Asking, Reading, Read, Copied, InLoader
<1>18. Loaded'
  BY <1>0, <1>1, <1>2, <1>14, <1>15 DEF Loaded, FileByte, Bss
<1>19. Processor'
  BY <1>0, <1>1, <1>2, <1>9, <1>11, <1>14 DEF Processor
<1>20. Chain'
  <2>1. \A k \in DOMAIN calls' : Call(calls'[k])
    BY <1>3, <1>6
  <2>2. calls'[Len(calls')].eip = image.spin
    <3>1. Len(calls') \in DOMAIN calls' /\ Len(calls') + 1 = Len(calls)
      BY <1>3, <1>5, <1>6
    <3> QED
      BY <1>3, <1>6, <3>1
  <2>3. \A k \in 1 .. Len(calls') - 1 :
            /\ Calls(calls'[k + 1], calls'[k])
            /\ FrameOf(calls'[k + 1]) = FrameOf(calls'[k]) + 2 + Len(calls'[k].args)
    <3> SUFFICES ASSUME NEW k \in 1 .. Len(calls') - 1
                 PROVE  /\ Calls(calls'[k + 1], calls'[k])
                        /\ FrameOf(calls'[k + 1]) = FrameOf(calls'[k]) + 2 + Len(calls'[k].args)
      OBVIOUS
    <3>1. k \in DOMAIN calls' /\ k + 1 \in DOMAIN calls' /\ k + 1 \in 1 .. Len(calls) - 1
      BY <1>3, <1>5, <1>6
    <3>2. calls'[k] = calls[k + 1] /\ calls'[k + 1] = calls[(k + 1) + 1]
      BY <1>6, <3>1
    <3> QED
      BY <1>3, <3>1, <3>2
  <2>4. \A j, k \in DOMAIN calls' : j <= k => FrameOf(calls'[j]) <= FrameOf(calls'[k])
    <3> SUFFICES ASSUME NEW j \in DOMAIN calls', NEW k \in DOMAIN calls', j <= k
                 PROVE  FrameOf(calls'[j]) <= FrameOf(calls'[k])
      OBVIOUS
    <3>1. j + 1 <= k + 1
      BY <1>6
    <3> QED
      BY <1>3, <1>6, <3>1
  <2>5. calls'[1].eip \in Runner'
    BY <1>7, <1>13, <1>15, <1>2 DEF Runner
  <2> QED
    BY <1>2, <1>6, <1>7, <1>11, <1>15, <2>1, <2>2, <2>3, <2>4, <2>5 DEF Chain
<1>21. Frames'
  <2> SUFFICES ASSUME NEW k \in DOMAIN calls' PROVE InFrame(k)'
    BY DEF Frames
  <2> DEFINE j == k + 1
  <2>1. j \in DOMAIN calls /\ calls'[k] = calls[j]
    BY <1>6
  <2>2. (k < Len(calls')) = (j < Len(calls))
        /\ (j < Len(calls) => calls'[k + 1] = calls[j + 1])
    <3>1. j < Len(calls) => k + 1 \in DOMAIN calls'
      BY <1>3, <1>6
    <3> QED
      BY <1>3, <1>6, <3>1
  <2>3. InFrame(j)
    BY <1>0, <1>1, <2>1 DEF Frames
  <2>4. \A va : WordAt(va)' = WordAt(va)
    BY <1>2 DEF WordAt, Phys
  <2> HIDE DEF j
  <2> QED
    BY <1>15, <2>1, <2>2, <2>3, <2>4 DEF InFrame
<1>22. Listing'
  BY <1>0, <1>2, <1>14 DEF Listing
<1> QED
  BY <1>16, <1>17, <1>18, <1>19, <1>20, <1>21, <1>22 DEF Inv

---------------------------------------------------------------------------
(* mon_backtrace *)

LEMMA ShowFrameStep ==
  ASSUME Inv, ShowFrame
  PROVE  Inv'
<1>0. Types /\ Chain /\ Frames /\ Processor /\ Listing
  BY DEF Inv
<1>1. at = "mon_backtrace" /\ at \notin Low /\ at \notin NoFrames /\ frame # 0
  BY DEF ShowFrame, Low, NoFrames, Before, InLoader
<1>2. UNCHANGED <<image, mem, ph, pa, end_pa, offset, disk, paging, eip, esp, ebp, calls>>
  BY DEF ShowFrame, segment, cpu
<1>3. /\ calls \in Seq(Records) /\ Len(calls) \in Nat /\ DOMAIN calls = 1 .. Len(calls)
      /\ \A k \in DOMAIN calls : Call(calls[k])
  BY <1>0, <1>1 DEF Chain
<1>4. /\ listed \in Seq(Rows) /\ Len(listed) <= Len(calls) /\ Len(listed) \in Nat
      /\ frame = IF Len(listed) < Len(calls) THEN FrameOf(calls[Len(listed) + 1]) ELSE 0
      /\ \A k \in DOMAIN listed :
            /\ listed[k].eip = calls[k].eip
            /\ \A n \in DOMAIN calls[k].args : listed[k].args[n] = calls[k].args[n]
  BY <1>0, <1>1 DEF Listing
<1> DEFINE k0 == Len(listed) + 1
           c == calls[k0]
           row == [eip |-> WordAt(frame + 1), args |-> [n \in 1 .. 5 |-> WordAt(frame + 1 + n)]]
<1>5. k0 \in DOMAIN calls /\ frame = FrameOf(c) /\ Len(listed) < Len(calls)
  BY <1>1, <1>3, <1>4
<1>6. image \in Images /\ c \in Records /\ Call(c)
  BY <1>0, <1>3, <1>5 DEF Types
<1>7. /\ Len(c.args) \in 0 .. 3 /\ DOMAIN c.args = 1 .. Len(c.args)
      /\ frame \in Nat /\ image.bootstack <= frame /\ frame + 2 + Len(c.args) <= image.bootstacktop
      /\ c.eip \in Nat /\ c.eip >= KERNBASE
  BY <1>5, <1>6, FramesOnStack
<1>8. /\ WordAt(frame) = IF k0 < Len(calls) THEN FrameOf(calls[k0 + 1]) ELSE 0
      /\ WordAt(frame + 1) = c.eip
      /\ \A m \in DOMAIN c.args : WordAt(frame + 1 + m) = c.args[m]
  <2>1. InFrame(k0)
    BY <1>0, <1>1, <1>5 DEF Frames
  <2> HIDE DEF k0
  <2> QED
    BY <1>5, <2>1 DEF InFrame
<1>9. /\ KERNBASE \in Nat \ {0} /\ MemSize \in Nat
      /\ KERNBASE <= image.bootstack /\ image.bootstacktop + 5 <= KERNBASE + MemSize
      /\ image.bootstack \in Nat /\ image.bootstacktop \in Nat
  BY <1>6, Kernels
<1>10. listed' = Append(listed, row) /\ frame' = WordAt(frame)
  BY DEF ShowFrame
<1>11. row \in Rows
  <2>1. \A n \in 1 .. 5 : WordAt(frame + 1 + n) \in Int
    <3> SUFFICES ASSUME NEW n \in 1 .. 5 PROVE WordAt(frame + 1 + n) \in Int
      OBVIOUS
    <3>1. PICK va : va = frame + 1 + n
      OBVIOUS
    <3>2. va \in KERNBASE .. KERNBASE + MemSize - 1
      <4>1. PICK l : l = Len(c.args)
        OBVIOUS
      <4>2. l \in 0 .. 3 /\ frame + 2 + l <= image.bootstacktop
        BY <1>7, <4>1
      <4> HIDE DEF c
      <4> QED
        BY <1>7, <1>9, <3>1, <4>2
    <3>3. paging
      BY <1>0, <1>1 DEF Processor
    <3>4. mem[Phys(va)] \in Int
      BY <1>0, <3>2, <3>3, KernelAddress DEF Types
    <3>5. WordAt(va) \in Int
      BY <3>4 DEF WordAt, Zero, Boot
    <3> QED
      BY <3>1, <3>5
  <2>2. WordAt(frame + 1) \in Int
    BY <1>7, <1>8
  <2> QED
    BY <2>1, <2>2 DEF Rows
<1>12. /\ listed' \in Seq(Rows) /\ Len(listed') = k0
       /\ DOMAIN listed' = 1 .. k0
       /\ \A k \in DOMAIN listed : listed'[k] = listed[k]
       /\ listed'[k0] = row
  <2> HIDE DEF row
  <2> QED
    BY <1>4, <1>10, <1>11
<1>13. at' = at
  <2>1. ULIM <= KERNBASE /\ ULIM \in Int /\ KERNBASE \in Int
    BY <1>9, PagingAssumption DEF ULIM
  <2>2. ~ (WordAt(frame + 1) < ULIM)
    <3>1. PICK w : w = WordAt(frame + 1)
      OBVIOUS
    <3>2. w \in Nat /\ w >= KERNBASE
      BY <1>7, <1>8, <3>1
    <3>3. ~ (w < ULIM)
      BY <2>1, <3>2
    <3> QED
      BY <3>1, <3>3
  <2> QED
    BY <2>2 DEF ShowFrame
<1>14. /\ Stack' = Stack
       /\ \A d : FrameOf(d)' = FrameOf(d) /\ (Call(d)' <=> Call(d))
       /\ \A d, e : Calls(d, e)' <=> Calls(d, e)
  BY <1>2, SameKernel
<1>15. frame' = IF k0 < Len(calls) THEN FrameOf(calls[k0 + 1]) ELSE 0
  BY <1>8, <1>10
<1>16. frame' \in Stack \cup {0}
  <2>1. CASE k0 < Len(calls)
    <3>1. k0 + 1 \in DOMAIN calls
      BY <1>3, <1>4, <2>1
    <3>2. /\ FrameOf(calls[k0 + 1]) \in Nat /\ image.bootstack <= FrameOf(calls[k0 + 1])
          /\ Len(calls[k0 + 1].args) \in 0 .. 3
          /\ FrameOf(calls[k0 + 1]) + 2 + Len(calls[k0 + 1].args) <= image.bootstacktop
      BY <1>3, <1>6, <3>1, FramesOnStack
    <3>3. PICK l, g : l = Len(calls[k0 + 1].args) /\ g = FrameOf(calls[k0 + 1])
      OBVIOUS
    <3>4. g \in Nat /\ image.bootstack <= g /\ l \in 0 .. 3 /\ g + 2 + l <= image.bootstacktop
      BY <3>2, <3>3
    <3>5. g \in Stack
      BY <1>9, <3>4 DEF Stack
    <3> QED
      BY <1>15, <2>1, <3>3, <3>5
  <2>2. CASE ~ (k0 < Len(calls))
    BY <1>15, <2>2
  <2> QED
    BY <2>1, <2>2
<1>17. Types'
  <2>1. Disks' = Disks
    BY <1>2 DEF Disks, Sector, FileByte
  <2> QED
    BY <1>0, <1>2, <1>13, <1>14, <1>16, <2>1 DEF Types
<1>18. Position' /\ Reading' /\ Read' /\ Copied' /\ Loaded' /\ Processor'
  BY <1>2, <1>1, <1>13, <1>14 DEF Inv, Position, Asking, Reading, Read, Copied, Loaded, Processor,
        InLoader, Before, Booting, FileByte, Bss
<1>19. Chain'
  <2>1. Runner' = Runner
    BY <1>2, <1>13, SameKernel DEF Runner
  <2> QED
    BY <1>0, <1>2, <1>13, <1>14, <2>1 DEF Chain
<1>20. Frames'
  <2>1. \A va : WordAt(va)' = WordAt(va)
    BY <1>2 DEF WordAt, Phys
  <2> QED
    BY <1>0, <1>2, <1>13, <1>14, <2>1 DEF Frames, InFrame
<1>21. Listing'
  <2>1. k0 <= Len(calls)
    BY <1>3, <1>5
  <2>2. \A k \in 1 .. k0 :
            /\ listed'[k].eip = calls[k].eip
            /\ \A n \in DOMAIN calls[k].args : listed'[k].args[n] = calls[k].args[n]
    <3> SUFFICES ASSUME NEW k \in 1 .. k0
                 PROVE  /\ listed'[k].eip = calls[k].eip
                        /\ \A n \in DOMAIN calls[k].args : listed'[k].args[n] = calls[k].args[n]
      OBVIOUS
    <3>1. CASE k = k0
      <4>1. listed'[k] = row /\ calls[k] = c
        BY <1>12, <3>1
      <4>2. row.eip = c.eip /\ \A n \in DOMAIN c.args : row.args[n] = c.args[n]
        <5>1. \A n \in DOMAIN c.args : n \in 1 .. 5
          <6>1. PICK l : l = Len(c.args)
            OBVIOUS
          <6>2. l \in 0 .. 3 /\ DOMAIN c.args = 1 .. l
            BY <1>7, <6>1
          <6> HIDE DEF c
          <6> QED
            BY <6>2
        <5>2. \A n \in 1 .. 5 : row.args[n] = WordAt(frame + 1 + n)
          OBVIOUS
        <5>3. row.eip = WordAt(frame + 1)
          OBVIOUS
        <5> HIDE DEF row, c
        <5> QED
          BY <1>8, <5>1, <5>2, <5>3
      <4> QED
        BY <4>1, <4>2
    <3>2. CASE k # k0
      <4>1. k \in DOMAIN listed
        BY <1>4, <3>2
      <4> QED
        BY <1>4, <1>12, <4>1
    <3> QED
      BY <3>1, <3>2
  <2> HIDE DEF k0
  <2> QED
    BY <1>1, <1>2, <1>12, <1>13, <1>14, <1>15, <2>1, <2>2 DEF Listing
<1> QED
  BY <1>17, <1>18, <1>19, <1>20, <1>21 DEF Inv

---------------------------------------------------------------------------
(* The kernel's steps. *)

LEMMA TurnOnPagingStep ==
  ASSUME Inv, TurnOnPaging, calls' = calls, UNCHANGED listing
  PROVE  Inv'
<1>0. Types /\ Position /\ Loaded
  BY DEF Inv
<1>1. /\ at \notin Before /\ at' = "paging" /\ at' \in NoFrames /\ at' \in Booting
      /\ at' \in Low /\ at' \notin Before /\ at' \notin InLoader /\ at' # "entry" /\ at' \in Places
  BY DEF TurnOnPaging, Before, InLoader, NoFrames, Low, Booting, Places
<1>2. UNCHANGED <<image, mem, ph, pa, end_pa, offset, disk>> /\ paging' = TRUE
  BY DEF TurnOnPaging, segment
<1>3. Chain' /\ Frames' /\ Listing' /\ Stack' = Stack /\ frame' \in Stack' \cup {0}
  BY <1>1, <1>2, NoFramesYet DEF Inv, Chain
<1>4. Types'
  <2>1. Disks' = Disks
    BY <1>2 DEF Disks, Sector, FileByte
  <2> QED
    BY <1>0, <1>1, <1>2, <1>3, <2>1 DEF Types
<1>5. Position' /\ Reading' /\ Read' /\ Copied'
  BY <1>0, <1>1, <1>2 DEF Position, Asking, Reading, Read, Copied, InLoader
<1>6. Loaded' /\ Processor'
  BY <1>0, <1>1, <1>2, <1>3 DEF Loaded, FileByte, Processor
<1> QED
  BY <1>3, <1>4, <1>5, <1>6 DEF Inv

LEMMA JumpUpStep ==
  ASSUME Inv, JumpUp, calls' = calls, UNCHANGED listing
  PROVE  Inv'
<1>0. Types /\ Position /\ Loaded /\ Processor
  BY DEF Inv
<1>1. /\ at \notin Before /\ at = "paging" /\ at' = "relocated" /\ at' \in NoFrames
      /\ at' \in Booting /\ at' \notin Low /\ at' \notin Before /\ at' \notin InLoader
      /\ at' # "entry" /\ at' \in Places
  BY DEF JumpUp, Before, InLoader, NoFrames, Low, Booting, Places
<1>2. UNCHANGED <<image, mem, ph, pa, end_pa, offset, disk, paging>> /\ eip' = image.relocated
  BY DEF JumpUp, segment
<1>3. Chain' /\ Frames' /\ Listing' /\ Stack' = Stack /\ frame' \in Stack' \cup {0}
  BY <1>1, <1>2, NoFramesYet DEF Inv, Chain
<1>4. Types'
  <2>1. Disks' = Disks
    BY <1>2 DEF Disks, Sector, FileByte
  <2> QED
    BY <1>0, <1>1, <1>2, <1>3, <2>1 DEF Types
<1>5. Position' /\ Reading' /\ Read' /\ Copied'
  BY <1>0, <1>1, <1>2 DEF Position, Asking, Reading, Read, Copied, InLoader
<1>6. Loaded'
  BY <1>0, <1>1, <1>2, <1>3 DEF Loaded, FileByte
<1>7. Processor'
  <2>1. image.relocated \in Nat /\ image.relocated >= KERNBASE
    BY <1>0, Kernels DEF Types
  <2> QED
    BY <1>0, <1>1, <1>2, <2>1 DEF Processor
<1> QED
  BY <1>3, <1>4, <1>5, <1>6, <1>7 DEF Inv

\* The first frame: entry.S clears the frame pointer, and calls i386_init at
\* the top of the stack.
LEMMA CallInitStep ==
  ASSUME Inv, CallInit, calls' = <<[eip |-> image.spin, args |-> <<>>]>>, UNCHANGED listing
  PROVE  Inv'
<1>0. Types /\ Position /\ Loaded /\ Processor /\ Listing
  BY DEF Inv
<1>1. /\ at \notin Before /\ at = "relocated" /\ at \notin Low
      /\ at' = "i386_init" /\ at' \notin NoFrames
      /\ at' \in Booting /\ at' \notin Low /\ at' \notin Before /\ at' \notin InLoader
      /\ at' # "entry" /\ at' \in Places
  BY DEF CallInit, Before, InLoader, NoFrames, Low, Booting, Places
<1>2. image \in Images
  BY <1>0 DEF Types
<1>3. /\ KERNBASE \in Nat \ {0} /\ MemSize \in Nat
      /\ image.bootstack \in Nat /\ image.bootstacktop \in Nat
      /\ KERNBASE <= image.bootstack /\ image.bootstack + 2 <= image.bootstacktop
      /\ image.spin \in Nat /\ image.spin >= KERNBASE
      /\ image.i386_init \in Nat /\ image.i386_init >= KERNBASE
  BY <1>2, Kernels
<1>4. PICK sp, top, return, f : sp = image.bootstacktop /\ top = image.bootstacktop - 2
                                /\ return = image.spin /\ f = image.i386_init
  OBVIOUS
<1>5. Effect(0, sp, top, <<>>, return, f)
  <2>1. Enter(0, sp, <<>>, return, f)
    BY <1>4 DEF CallInit
  <2>2. paging /\ eip \in Nat /\ eip >= KERNBASE
    BY <1>0, <1>1 DEF Processor
  <2>3. <<>> \in Seq(Nat) /\ Len(<<>>) = 0
    OBVIOUS
  <2>4. /\ sp \in Nat /\ return \in Nat /\ f \in Nat /\ return >= KERNBASE /\ f >= KERNBASE
        /\ top = sp - 2 - 0 /\ image.bootstack <= top /\ sp <= image.bootstacktop /\ 0 \in Nat
    BY <1>3, <1>4
  <2> QED
    BY <1>0, <2>1, <2>2, <2>3, <2>4, Entered
<1>6. /\ esp' = top /\ ebp' = top /\ eip' = f
      /\ UNCHANGED <<image, ph, pa, end_pa, offset, disk, paging>>
      /\ mem' \in [0 .. MemSize - 1 -> Int]
      /\ WordAt(top)' = 0 /\ WordAt(top + 1)' = return
      /\ \A va \in KERNBASE .. KERNBASE + MemSize - 1 : va \notin top .. sp - 1 =>
            mem'[va - KERNBASE] = mem[va - KERNBASE]
  BY <1>5 DEF Effect
<1> DEFINE c == [eip |-> image.spin, args |-> <<>>]
<1>7. /\ calls' \in Seq(Records) /\ Len(calls') = 1 /\ calls' # <<>> /\ DOMAIN calls' = {1}
      /\ calls'[1] = c
  <2>1. c \in Records
    BY <1>3 DEF Records
  <2> HIDE DEF c
  <2> QED
    BY <2>1 DEF c
<1>8. /\ Stack' = Stack
      /\ \A d : FrameOf(d)' = FrameOf(d) /\ (Call(d)' <=> Call(d))
      /\ \A d, e : Calls(d, e)' <=> Calls(d, e)
  BY <1>6, SameKernel
<1>9. Call(c) /\ FrameOf(c) = top /\ c.eip = image.spin
  <2>1. FrameOf(c) = top
    BY <1>2, <1>4, Kinds
  <2>2. Pushed(image.spin) = 0 /\ image.spin \notin Tests
    BY <1>2, Pushes, Distinct
  <2>3. <<>> \in [1 .. 0 -> Nat]
    OBVIOUS
  <2> QED
    BY <2>1, <2>2, <2>3 DEF Call, Returns
<1>10. Types'
  <2>1. Disks' = Disks
    BY <1>6 DEF Disks, Sector, FileByte
  <2> QED
    BY <1>0, <1>1, <1>6, <1>8, <2>1 DEF Types, listing
<1>11. Position' /\ Reading' /\ Read' /\ Copied'
  BY <1>0, <1>1, <1>6 DEF Position, Asking, Reading, Read, Copied, InLoader
<1>12. Loaded'
  <2>1. top .. sp - 1 \subseteq Stack
    BY <1>3, <1>4 DEF Stack
  <2>2. at' \notin Booting => at \notin Booting
    BY <1>1
  <2> QED
    BY <1>1, <1>6, <2>1, <2>2, LoadedKept
<1>13. Processor'
  BY <1>0, <1>1, <1>3, <1>4, <1>6 DEF Processor
<1>14. Chain'
  <2>1. Runner' = {image.spin}
    BY <1>1, <1>6 DEF Runner
  <2>2. esp' = FrameOf(calls'[1]) /\ ebp' = FrameOf(calls'[1]) /\ FrameOf(calls'[1]) = top
    BY <1>6, <1>7, <1>9
  <2>3. top \in Nat
    BY <1>3, <1>4
  <2>4. \A j, k \in DOMAIN calls' : j <= k => FrameOf(calls'[j]) <= FrameOf(calls'[k])
    BY <1>7, <2>2, <2>3
  <2>5. 1 .. Len(calls') - 1 = {}
    BY <1>7
  <2>6. Call(calls'[1]) /\ calls'[1].eip = image.spin
    BY <1>7, <1>9
  <2> HIDE DEF c
  <2> QED
    BY <1>6, <1>7, <1>8, <2>1, <2>2, <2>4, <2>5, <2>6 DEF Chain
<1>15. Frames'
  <2> SUFFICES InFrame(1)'
    BY <1>7 DEF Frames
  <2>1. WordAt(top)' = 0 /\ WordAt(top + 1)' = image.spin
    BY <1>4, <1>6
  <2>2. ~ (1 < Len(calls')) /\ FrameOf(calls'[1]) = top /\ calls'[1].eip = image.spin
        /\ DOMAIN calls'[1].args = {}
    BY <1>7, <1>9
  <2> QED
    BY <1>8, <2>1, <2>2 DEF InFrame
<1>16. Listing'
  BY <1>0, <1>1 DEF Listing, listing
<1> QED
  BY <1>10, <1>11, <1>12, <1>13, <1>14, <1>15, <1>16 DEF Inv

\* Nothing of the file, and no frame, is in the BSS.
LEMMA ClearBssStep ==
  ASSUME Inv, ClearBss, calls' = calls, UNCHANGED listing
  PROVE  Inv'
<1>0. Types /\ Position /\ Loaded /\ Processor /\ Chain /\ Frames /\ Listing
  BY DEF Inv
<1>1. /\ at = "i386_init" /\ at' = "cons_init"
      /\ at \notin Before /\ at \notin Low /\ at \notin NoFrames
      /\ at' \notin NoFrames /\ at' \notin Low /\ at' \notin Before /\ at' \notin InLoader
      /\ at' # "entry" /\ at' # "mon_backtrace" /\ at' \in Places
  BY DEF ClearBss, Before, InLoader, NoFrames, Low, Booting, Places
<1>2. /\ UNCHANGED <<image, ph, pa, end_pa, offset, disk, paging, eip, esp, ebp, frame, listed>>
      /\ mem' = [a \in DOMAIN mem |-> IF a \in {Phys(va) : va \in Bss} THEN Zero ELSE mem[a]]
  BY DEF ClearBss, segment, cpu, listing
<1>3. image \in Images /\ paging
  BY <1>0, <1>1 DEF Types, Processor
<1>4. /\ KERNBASE \in Nat \ {0} /\ MemSize \in Nat
      /\ image.bootstack \in Nat /\ image.bootstacktop \in Nat
      /\ KERNBASE <= image.bootstack /\ image.bootstacktop + 5 <= KERNBASE + MemSize
      /\ image.edata \in KERNBASE .. KERNBASE + MemSize
      /\ image.end \in KERNBASE .. KERNBASE + MemSize
      /\ image.bootstacktop <= image.edata \/ image.end <= image.bootstack
  BY <1>3, Kernels
<1>5. DOMAIN mem = 0 .. MemSize - 1 /\ \A a \in 0 .. MemSize - 1 : mem[a] \in Int
  BY <1>0 DEF Types
<1>6. \A va \in KERNBASE .. KERNBASE + MemSize - 1 :
        mem'[va - KERNBASE] = IF va \in Bss THEN Zero ELSE mem[va - KERNBASE]
  <2> SUFFICES ASSUME NEW va \in KERNBASE .. KERNBASE + MemSize - 1
               PROVE  mem'[va - KERNBASE] = IF va \in Bss THEN Zero ELSE mem[va - KERNBASE]
    OBVIOUS
  <2>1. \A w \in Bss : Phys(w) = w - KERNBASE /\ w \in Int
    <3> SUFFICES ASSUME NEW w \in image.edata .. image.end - 1
                 PROVE  Phys(w) = w - KERNBASE /\ w \in Int
      BY DEF Bss
    <3>1. w \in KERNBASE .. KERNBASE + MemSize - 1
      BY <1>4
    <3> QED
      BY <1>3, <3>1, KernelAddress
  <2>2. va - KERNBASE \in {Phys(w) : w \in Bss} <=> va \in Bss
    BY <1>4, <2>1
  <2>3. va - KERNBASE \in DOMAIN mem
    BY <1>4, <1>5
  <2> QED
    BY <1>2, <2>2, <2>3
<1>7. mem' \in [0 .. MemSize - 1 -> Int]
  <2>1. \A a \in 0 .. MemSize - 1 : mem'[a] \in Int
    BY <1>2, <1>5 DEF Zero
  <2>2. mem' = [a \in 0 .. MemSize - 1 |-> mem'[a]]
    BY <1>2, <1>5
  <2> QED
    BY <2>1, <2>2
<1>8. /\ Stack' = Stack /\ Bss' = Bss
      /\ \A d : FrameOf(d)' = FrameOf(d) /\ (Call(d)' <=> Call(d))
      /\ \A d, e : Calls(d, e)' <=> Calls(d, e)
  BY <1>2, SameKernel DEF Bss
<1>9. Types'
  <2>1. Disks' = Disks
    BY <1>2 DEF Disks, Sector, FileByte
  <2> QED
    BY <1>0, <1>1, <1>2, <1>7, <1>8, <2>1 DEF Types
<1>10. Position' /\ Reading' /\ Read' /\ Copied'
  BY <1>0, <1>1, <1>2 DEF Position, Asking, Reading, Read, Copied, InLoader
<1>11. Loaded'
  <2>1. ph' = Len(image'.phs)
    BY <1>0, <1>1, <1>2 DEF Loaded
  <2>2. \A i \in DOMAIN image.phs : \A b \in 0 .. image.phs[i].p_filesz - 1 :
            \/ KERNBASE + image.phs[i].p_pa + b \in Stack
            \/ mem'[image.phs[i].p_pa + b] = FileByte(image.phs[i].p_offset + b)
    <3> SUFFICES ASSUME NEW i \in DOMAIN image.phs, NEW b \in 0 .. image.phs[i].p_filesz - 1,
                        KERNBASE + image.phs[i].p_pa + b \notin Stack
                 PROVE  mem'[image.phs[i].p_pa + b] = FileByte(image.phs[i].p_offset + b)
      OBVIOUS
    <3> DEFINE h == image.phs[i]
               va == KERNBASE + h.p_pa + b
    <3>1. i \in 0 .. Len(image.phs) /\ h = Asking(i)
      BY <1>0, Header DEF Asking
    <3>2. /\ h.p_pa \in Nat /\ h.p_filesz \in Nat /\ h.p_memsz \in Nat
          /\ h.p_filesz <= h.p_memsz /\ h.p_pa + h.p_memsz <= MemSize
      BY <1>3, <3>1, Segments
    <3>3. mem[h.p_pa + b] = FileByte(h.p_offset + b)
      BY <1>0, <1>1 DEF Loaded
    <3>4. KERNBASE + h.p_pa + h.p_filesz <= image.edata \/ image.end <= KERNBASE + h.p_pa
      BY <1>3, LinkedAssumption
    <3>5. b \in Nat /\ b < h.p_filesz
      BY <3>2
    <3> HIDE DEF h
    <3>6. va \in KERNBASE .. KERNBASE + MemSize - 1 /\ va - KERNBASE = h.p_pa + b
      BY <1>4, <3>2, <3>5
    <3>7. va \notin Bss
      BY <1>4, <3>2, <3>4, <3>5 DEF Bss
    <3> QED
      BY <1>6, <3>3, <3>6, <3>7 DEF h
  <2>3. \A va \in Bss : mem'[Reloc(va)] = Zero
    <3>1. Bss \subseteq KERNBASE .. KERNBASE + MemSize - 1
      BY <1>4 DEF Bss
    <3> QED
      BY <1>6, <3>1 DEF Reloc
  <2> QED
    <3>1. \A o : FileByte(o)' = FileByte(o)
      BY <1>2 DEF FileByte
    <3>2. \A va \in Bss' : mem'[Reloc(va)] = Zero
      BY <1>8, <2>3
    <3> QED
      BY <1>2, <1>8, <2>1, <2>2, <3>1, <3>2, ZenonT(30) DEF Loaded
<1>12. Processor'
  BY <1>0, <1>1, <1>2 DEF Processor
<1>13. Chain'
  <2>1. Runner' = {image.spin} /\ Runner = {image.spin}
    BY <1>1, <1>2 DEF Runner
  <2> QED
    BY <1>0, <1>1, <1>2, <1>8, <2>1 DEF Chain
<1>14. Frames'
  <2> SUFFICES ASSUME NEW k \in DOMAIN calls PROVE InFrame(k)'
    BY DEF Frames
  <2>1. InFrame(k)
    BY <1>0, <1>1 DEF Frames
  <2>2. calls[k] \in Records /\ Call(calls[k])
    BY <1>0, <1>1 DEF Chain
  <2>3. PICK g, l : g = FrameOf(calls[k]) /\ l = Len(calls[k].args)
    OBVIOUS
  <2>4. /\ g \in Nat /\ image.bootstack <= g /\ l \in 0 .. 3 /\ g + 2 + l <= image.bootstacktop
        /\ DOMAIN calls[k].args = 1 .. l
    BY <1>3, <2>2, <2>3, FramesOnStack
  <2>5. \A n \in 0 .. 1 + l : WordAt(g + n)' = WordAt(g + n)
    <3> SUFFICES ASSUME NEW n \in 0 .. 1 + l PROVE WordAt(g + n)' = WordAt(g + n)
      OBVIOUS
    <3>1. PICK va : va = g + n
      OBVIOUS
    <3>2. va \in KERNBASE .. KERNBASE + MemSize - 1 /\ va \notin Bss
      BY <1>4, <2>4, <3>1, SMTT(30) DEF Bss
    <3>3. Phys(va) = va - KERNBASE /\ Phys(va)' = va - KERNBASE
      BY <1>2, <1>3, <3>2, KernelAddress DEF Phys
    <3>4. WordAt(va)' = WordAt(va)
      BY <1>6, <3>2, <3>3 DEF WordAt
    <3> QED
      BY <3>1, <3>4
  <2>6. /\ WordAt(g)' = WordAt(g) /\ WordAt(g + 1)' = WordAt(g + 1)
        /\ \A m \in DOMAIN calls[k].args : WordAt(g + 1 + m)' = WordAt(g + 1 + m)
    <3>1. g + 0 = g /\ 0 \in 0 .. 1 + l /\ 1 \in 0 .. 1 + l
      BY <2>4
    <3>2. \A m \in 1 .. l : 1 + m \in 0 .. 1 + l /\ g + (1 + m) = g + 1 + m
      BY <2>4
    <3> QED
      BY <2>4, <2>5, <3>1, <3>2
  <2> QED
    BY <1>8, <2>1, <2>3, <2>6 DEF InFrame
<1>15. Listing'
  BY <1>0, <1>1, <1>2 DEF Listing
<1> QED
  BY <1>9, <1>10, <1>11, <1>12, <1>13, <1>14, <1>15 DEF Inv

---------------------------------------------------------------------------
(* The functions' steps. *)

\* The function that runs finds its first argument in its frame.
LEMMA FirstArgument ==
  ASSUME Inv, at = "test_backtrace"
  PROVE  /\ calls[1].eip \in Tests /\ calls[1].args[1] \in 0 .. Depth
         /\ Argument = calls[1].args[1]
<1>1. at \notin NoFrames /\ Runner = Tests
  BY DEF NoFrames, Low, Before, InLoader, Runner
<1>2. /\ calls \in Seq(Records) /\ calls # <<>> /\ calls[1].eip \in Tests
      /\ 1 \in DOMAIN calls /\ calls[1] \in Records /\ Call(calls[1])
      /\ ebp = FrameOf(calls[1])
  BY <1>1 DEF Inv, Chain
<1>3. image \in Images
  BY DEF Inv, Types
<1>4. /\ calls[1].args[1] \in 0 .. Depth /\ Len(calls[1].args) = 1 /\ DOMAIN calls[1].args = 1 .. 1
      /\ FrameOf(calls[1]) \in Nat
  BY <1>2, <1>3, FramesOnStack, Pushes
<1>5. InFrame(1)
  BY <1>1, <1>2 DEF Inv, Frames
<1>6. WordAt(FrameOf(calls[1]) + 1 + 1) = calls[1].args[1]
  BY <1>4, <1>5 DEF InFrame
<1>7. FrameOf(calls[1]) + 1 + 1 = ebp + 2
  BY <1>2, <1>4
<1> QED
  BY <1>2, <1>4, <1>6, <1>7 DEF Argument

\* What a call needs of its caller.
LEMMA Caller ==
  ASSUME Inv, at \notin NoFrames
  PROVE  /\ image \in Images /\ calls[1].eip \in Runner /\ ebp = FrameOf(calls[1]) /\ ebp \in Nat
         /\ image.bootstacktop \in Nat /\ Depth \in Nat /\ image.edata \in Nat
         /\ \A va \in {image.i386_init, image.test_backtrace, image.mon_backtrace, image.monitor,
                       image.runcmd} : va \in Nat /\ va >= KERNBASE
<1>1. image \in Images
  BY DEF Inv, Types
<1>2. calls[1].eip \in Runner /\ ebp = FrameOf(calls[1]) /\ calls[1] \in Records /\ Call(calls[1])
  BY DEF Inv, Chain
<1>3. FrameOf(calls[1]) \in Nat
  BY <1>1, <1>2, FramesOnStack
<1>4. Depth \in Nat
  BY CallsAssumption
<1>5. image.bootstacktop \in Nat /\ image.edata \in Nat
  BY <1>1, Kernels
<1>6. \A va \in {image.i386_init, image.test_backtrace, image.mon_backtrace, image.monitor,
                 image.runcmd} : va \in Nat /\ va >= KERNBASE
  BY <1>1, Kernels
<1> QED
  BY <1>1, <1>2, <1>3, <1>4, <1>5, <1>6

LEMMA TestBacktraceStep ==
  ASSUME Inv, TestBacktrace
  PROVE  Inv'
<1>1. /\ at \notin Booting /\ at' \notin Booting /\ at' \in Places /\ at \notin NoFrames
      /\ at' # "mon_backtrace"
  BY DEF TestBacktrace, Booting, Places, NoFrames, Low, Before, InLoader
<1>2. /\ image \in Images /\ calls[1].eip = image.spin /\ Depth \in Nat
      /\ image.bootstacktop \in Nat /\ image.i386_init \in Nat
      /\ image.test_backtrace \in Nat /\ image.test_backtrace >= KERNBASE
  BY <1>1, Caller DEF TestBacktrace, Runner
<1>3. PICK args, return, f : args = <<Depth>> /\ return = image.i386_init + 1 /\ f = image.test_backtrace
  OBVIOUS
<1>4. PICK c : c = [eip |-> return, args |-> args]
  OBVIOUS
<1>5. args \in Seq(Nat) /\ Len(args) = 1 /\ args[1] = Depth /\ return \in Nat /\ return \in Tests
      /\ args \in [1 .. 1 -> Nat]
  BY <1>2, <1>3 DEF Tests
<1>6. c \in Records /\ c.eip = return /\ c.args = args
  BY <1>4, <1>5 DEF Records
<1>7. Call(c)
  <2>1. Pushed(return) = 1
    BY <1>2, <1>5, Pushes
  <2> QED
    BY <1>2, <1>5, <1>6, <2>1 DEF Call, Returns
<1>8. Calls(calls[1], c)
  BY <1>2, <1>3, <1>6 DEF Calls
<1>9. FrameOf(c) = FrameOf(calls[1]) - 2 - Len(args)
  <2>1. FrameOf(c) = image.bootstacktop - (2 + 3 * (Depth - Depth + 1))
    BY <1>2, <1>5, <1>6, Kinds
  <2>2. FrameOf(calls[1]) = image.bootstacktop - 2
    BY <1>2, Kinds
  <2> QED
    BY <1>2, <1>5, <2>1, <2>2
<1>10. return \in Runner'
  <2>1. UNCHANGED image /\ at' = "test_backtrace"
    BY DEF TestBacktrace, CallFrom, Enter
  <2>2. Runner' = Tests
    BY <2>1, SameKernel DEF Runner
  <2> QED
    BY <1>5, <2>2
<1>11. CallFrom(args, return, f) /\ UNCHANGED listing
  BY <1>3 DEF TestBacktrace
<1> QED
  BY <1>1, <1>2, <1>3, <1>4, <1>5, <1>6, <1>7, <1>8, <1>9, <1>10, <1>11, PushStep

LEMMA DeeperStep ==
  ASSUME Inv, Deeper
  PROVE  Inv'
<1>1. /\ at \notin Booting /\ at' \notin Booting /\ at' \in Places /\ at \notin NoFrames
      /\ at = "test_backtrace" /\ at' = "test_backtrace" /\ at' # "mon_backtrace"
  BY DEF Deeper, Booting, Places, NoFrames, Low, Before, InLoader
<1>2. /\ image \in Images /\ Depth \in Nat
      /\ image.bootstacktop \in Nat
      /\ image.test_backtrace \in Nat /\ image.test_backtrace >= KERNBASE
  BY <1>1, Caller
<1>3. PICK a : a = calls[1].args[1]
  OBVIOUS
<1>4. calls[1].eip \in Tests /\ a \in 0 .. Depth /\ Argument = a /\ a > 0
  BY <1>1, <1>3, FirstArgument DEF Deeper
<1>5. PICK args, return, f : args = <<a - 1>> /\ return = image.test_backtrace + 1
                             /\ f = image.test_backtrace
  OBVIOUS
<1>6. PICK c : c = [eip |-> return, args |-> args]
  OBVIOUS
<1>7. args \in Seq(Nat) /\ Len(args) = 1 /\ args[1] = a - 1 /\ return \in Nat /\ return \in Tests
      /\ args \in [1 .. 1 -> Nat] /\ a - 1 <= Depth
  <2>1. a - 1 \in Nat /\ a - 1 <= Depth
    BY <1>2, <1>4
  <2> QED
    BY <1>2, <1>5, <2>1 DEF Tests
<1>8. c \in Records /\ c.eip = return /\ c.args = args
  BY <1>6, <1>7 DEF Records
<1>9. Call(c)
  <2>1. Pushed(return) = 1
    BY <1>2, <1>7, Pushes
  <2> QED
    BY <1>7, <1>8, <2>1 DEF Call, Returns
<1>10. Calls(calls[1], c)
  BY <1>4, <1>5, <1>8 DEF Calls
<1>11. FrameOf(c) = FrameOf(calls[1]) - 2 - Len(args)
  <2>1. FrameOf(c) = image.bootstacktop - (2 + 3 * (Depth - (a - 1) + 1))
    BY <1>2, <1>7, <1>8, Kinds
  <2>2. FrameOf(calls[1]) = image.bootstacktop - (2 + 3 * (Depth - a + 1))
    BY <1>2, <1>3, <1>4, Kinds
  <2> QED
    BY <1>2, <1>4, <1>7, <2>1, <2>2
<1>12. return \in Runner'
  <2>1. UNCHANGED image
    BY DEF Deeper, CallFrom, Enter
  <2>2. Runner' = Tests
    BY <1>1, <2>1, SameKernel DEF Runner
  <2> QED
    BY <1>7, <2>2
<1>13. CallFrom(args, return, f) /\ UNCHANGED listing
  BY <1>4, <1>5 DEF Deeper
<1> QED
  BY <1>1, <1>2, <1>5, <1>6, <1>7, <1>8, <1>9, <1>10, <1>11, <1>12, <1>13, PushStep

LEMMA AtTheBottomStep ==
  ASSUME Inv, AtTheBottom
  PROVE  Inv'
<1>1. /\ at \notin Booting /\ at' \notin Booting /\ at' \in Places /\ at \notin NoFrames
      /\ at = "test_backtrace" /\ at' = "mon_backtrace"
  BY DEF AtTheBottom, Backtrace, Booting, Places, NoFrames, Low, Before, InLoader
<1>2. /\ image \in Images /\ Depth \in Nat
      /\ image.bootstacktop \in Nat /\ image.test_backtrace \in Nat
      /\ image.mon_backtrace \in Nat /\ image.mon_backtrace >= KERNBASE
  BY <1>1, Caller
<1>3. calls[1].eip \in Tests /\ calls[1].args[1] = 0
  BY <1>1, FirstArgument DEF AtTheBottom
<1>4. PICK args, return, f : args = <<0, 0, 0>> /\ return = image.test_backtrace + 2
                             /\ f = image.mon_backtrace
  OBVIOUS
<1>5. PICK c : c = [eip |-> return, args |-> args]
  OBVIOUS
<1>6. args \in Seq(Nat) /\ Len(args) = 3 /\ return \in Nat /\ args \in [1 .. 3 -> Nat]
  BY <1>2, <1>4
<1>7. c \in Records /\ c.eip = return /\ c.args = args
  BY <1>5, <1>6 DEF Records
<1>8. Call(c)
  BY <1>2, <1>4, <1>6, <1>7, Pushes, Distinct DEF Call, Returns
<1>9. Calls(calls[1], c)
  BY <1>3, <1>4, <1>7 DEF Calls
<1>10. FrameOf(c) = FrameOf(calls[1]) - 2 - Len(args)
  <2>1. FrameOf(c) = image.bootstacktop - (2 + 3 * (Depth + 1) + 5)
    BY <1>2, <1>4, <1>7, Kinds
  <2>2. FrameOf(calls[1]) = image.bootstacktop - (2 + 3 * (Depth - 0 + 1))
    BY <1>2, <1>3, Kinds
  <2> QED
    BY <1>2, <1>6, <2>1, <2>2
<1>11. return \in Runner'
  <2>1. UNCHANGED image
    BY DEF AtTheBottom, Backtrace, CallFrom, Enter
  <2>2. return \in {image'.test_backtrace + 2, image'.runcmd + 1}
    BY <1>4, <2>1
  <2> QED
    BY <1>1, <2>2 DEF Runner
<1>12. CallFrom(args, return, f) /\ frame' = ebp' /\ listed' = <<>>
  BY <1>4 DEF AtTheBottom, Backtrace
<1> QED
  BY <1>1, <1>2, <1>4, <1>5, <1>6, <1>7, <1>8, <1>9, <1>10, <1>11, <1>12, PushStep

LEMMA DropIntoMonitorStep ==
  ASSUME Inv, DropIntoMonitor
  PROVE  Inv'
<1>1. /\ at \notin Booting /\ at' \notin Booting /\ at' \in Places /\ at \notin NoFrames
      /\ at = "tested" /\ at' = "monitor" /\ at' # "mon_backtrace"
  BY DEF DropIntoMonitor, Booting, Places, NoFrames, Low, Before, InLoader
<1>2. /\ image \in Images /\ calls[1].eip = image.spin
      /\ image.bootstacktop \in Nat /\ image.i386_init \in Nat
      /\ image.monitor \in Nat /\ image.monitor >= KERNBASE
  BY <1>1, Caller DEF Runner
<1>3. PICK args, return, f : args = <<0>> /\ return = image.i386_init + 2 /\ f = image.monitor
  OBVIOUS
<1>4. PICK c : c = [eip |-> return, args |-> args]
  OBVIOUS
<1>5. args \in Seq(Nat) /\ Len(args) = 1 /\ return \in Nat /\ args \in [1 .. 1 -> Nat]
  BY <1>2, <1>3
<1>6. c \in Records /\ c.eip = return /\ c.args = args
  BY <1>4, <1>5 DEF Records
<1>7. Call(c)
  BY <1>2, <1>3, <1>5, <1>6, Pushes, Distinct DEF Call, Returns
<1>8. Calls(calls[1], c)
  BY <1>2, <1>3, <1>6 DEF Calls
<1>9. FrameOf(c) = FrameOf(calls[1]) - 2 - Len(args)
  <2>1. FrameOf(c) = image.bootstacktop - 5 /\ FrameOf(calls[1]) = image.bootstacktop - 2
    BY <1>2, <1>3, <1>6, Kinds
  <2> QED
    BY <1>2, <1>5, <2>1
<1>10. return \in Runner'
  <2>1. UNCHANGED image
    BY DEF DropIntoMonitor, CallFrom, Enter
  <2>2. return \in {image'.i386_init + 2}
    BY <1>3, <2>1
  <2> QED
    BY <1>1, <2>2 DEF Runner
<1>11. CallFrom(args, return, f) /\ UNCHANGED listing
  BY <1>3 DEF DropIntoMonitor
<1> QED
  BY <1>1, <1>2, <1>3, <1>4, <1>5, <1>6, <1>7, <1>8, <1>9, <1>10, <1>11, PushStep

LEMMA TypesBacktraceStep ==
  ASSUME Inv, TypesBacktrace
  PROVE  Inv'
<1>1. /\ at \notin Booting /\ at' \notin Booting /\ at' \in Places /\ at \notin NoFrames
      /\ at = "monitor" /\ at' = "backtrace" /\ at' # "mon_backtrace"
  BY DEF TypesBacktrace, Booting, Places, NoFrames, Low, Before, InLoader
<1>2. /\ image \in Images /\ calls[1].eip = image.i386_init + 2
      /\ image.bootstacktop \in Nat /\ image.edata \in Nat /\ image.monitor \in Nat
      /\ image.runcmd \in Nat /\ image.runcmd >= KERNBASE
  BY <1>1, Caller DEF Runner
<1>3. PICK args, return, f : args = <<image.edata, 0>> /\ return = image.monitor + 1
                             /\ f = image.runcmd
  OBVIOUS
<1>4. PICK c : c = [eip |-> return, args |-> args]
  OBVIOUS
<1>5. args \in Seq(Nat) /\ Len(args) = 2 /\ return \in Nat /\ args \in [1 .. 2 -> Nat]
  BY <1>2, <1>3
<1>6. c \in Records /\ c.eip = return /\ c.args = args
  BY <1>4, <1>5 DEF Records
<1>7. Call(c)
  BY <1>2, <1>3, <1>5, <1>6, Pushes, Distinct DEF Call, Returns
<1>8. Calls(calls[1], c)
  BY <1>2, <1>3, <1>6 DEF Calls
<1>9. FrameOf(c) = FrameOf(calls[1]) - 2 - Len(args)
  <2>1. FrameOf(c) = image.bootstacktop - 9 /\ FrameOf(calls[1]) = image.bootstacktop - 5
    BY <1>2, <1>3, <1>6, Kinds
  <2> QED
    BY <1>2, <1>5, <2>1
<1>10. return \in Runner'
  <2>1. UNCHANGED image
    BY DEF TypesBacktrace, CallFrom, Enter
  <2>2. return \in {image'.monitor + 1}
    BY <1>3, <2>1
  <2> QED
    BY <1>1, <2>2 DEF Runner
<1>11. CallFrom(args, return, f) /\ UNCHANGED listing
  BY <1>3 DEF TypesBacktrace
<1> QED
  BY <1>1, <1>2, <1>3, <1>4, <1>5, <1>6, <1>7, <1>8, <1>9, <1>10, <1>11, PushStep

LEMMA RunsBacktraceStep ==
  ASSUME Inv, RunsBacktrace
  PROVE  Inv'
<1>1. /\ at \notin Booting /\ at' \notin Booting /\ at' \in Places /\ at \notin NoFrames
      /\ at = "backtrace" /\ at' = "mon_backtrace"
  BY DEF RunsBacktrace, Backtrace, Booting, Places, NoFrames, Low, Before, InLoader
<1>2. /\ image \in Images /\ calls[1].eip = image.monitor + 1 /\ ebp \in Nat
      /\ image.bootstacktop \in Nat /\ image.runcmd \in Nat
      /\ image.mon_backtrace \in Nat /\ image.mon_backtrace >= KERNBASE
  BY <1>1, Caller DEF Runner
<1>3. PICK args, return, f : args = <<1, ebp, 0>> /\ return = image.runcmd + 1
                             /\ f = image.mon_backtrace
  OBVIOUS
<1>4. PICK c : c = [eip |-> return, args |-> args]
  OBVIOUS
<1>5. args \in Seq(Nat) /\ Len(args) = 3 /\ return \in Nat /\ args \in [1 .. 3 -> Nat]
  BY <1>2, <1>3
<1>6. c \in Records /\ c.eip = return /\ c.args = args
  BY <1>4, <1>5 DEF Records
<1>7. Call(c)
  BY <1>2, <1>3, <1>5, <1>6, Pushes, Distinct DEF Call, Returns
<1>8. Calls(calls[1], c)
  BY <1>2, <1>3, <1>6 DEF Calls
<1>9. FrameOf(c) = FrameOf(calls[1]) - 2 - Len(args)
  <2>1. FrameOf(c) = image.bootstacktop - 14 /\ FrameOf(calls[1]) = image.bootstacktop - 9
    BY <1>2, <1>3, <1>6, Kinds
  <2> QED
    BY <1>2, <1>5, <2>1
<1>10. return \in Runner'
  <2>1. UNCHANGED image
    BY DEF RunsBacktrace, Backtrace, CallFrom, Enter
  <2>2. return \in {image'.test_backtrace + 2, image'.runcmd + 1}
    BY <1>3, <2>1
  <2> QED
    BY <1>1, <2>2 DEF Runner
<1>11. CallFrom(args, return, f) /\ frame' = ebp' /\ listed' = <<>>
  BY <1>3 DEF RunsBacktrace, Backtrace
<1> QED
  BY <1>1, <1>2, <1>3, <1>4, <1>5, <1>6, <1>7, <1>8, <1>9, <1>10, <1>11, PushStep

---------------------------------------------------------------------------
(* The specification. *)

LEMMA InvInit == TraceInit => Inv
<1> SUFFICES ASSUME TraceInit PROVE Inv
  OBVIOUS
<1>1. /\ image \in Images /\ mem = [a \in 0 .. MemSize - 1 |-> Junk] /\ at = "readseg" /\ ph = 0
      /\ pa = RoundDown(ELFHDR) /\ end_pa = ELFHDR + 8 * SECTSIZE /\ offset = 1
      /\ disk \in [status : {"ready", "busy", "starting"}, regs : {<<0, 0, 0, 0>>}, data : {<<>>}]
      /\ paging = FALSE /\ frame = 0 /\ listed = <<>> /\ calls = <<>>
  BY DEF TraceInit, Init, LoaderInit
<1>2. SECTSIZE \in Nat \ {0} /\ ELFHDR \in Nat /\ ELFHDR % SECTSIZE = 0 /\ MemSize \in Nat
      /\ Port \in Nat \ {0, 1}
  BY LoaderAssumption
<1>3. RoundDown(ELFHDR) = ELFHDR
  <2>1. RoundDown(ELFHDR) = ELFHDR - (ELFHDR % SECTSIZE)
    BY <1>2, RoundDownIs
  <2>2. ELFHDR - 0 = ELFHDR
    BY <1>2
  <2> QED
    BY <1>2, <2>1, <2>2
<1>4. at \in Before /\ at \in Booting /\ at \in Low /\ at \in NoFrames /\ at \in Places
      /\ at \notin InLoader \ {"readseg"}
  BY <1>1 DEF Before, InLoader, Booting, Low, NoFrames, Places
<1>5. Types
  <2>1. <<0, 0, 0, 0>> \in [1 .. 4 -> 0 .. Port - 1]
    BY <1>2
  <2>2. disk \in Disks
    BY <1>1, <2>1 DEF Disks
  <2>3. mem \in [0 .. MemSize - 1 -> Int]
    BY <1>1 DEF Junk
  <2>4. Len(image.phs) \in Nat
    BY <1>1, ImagesAssumption
  <2>5. pa \in Nat /\ end_pa \in Nat /\ offset \in Nat \ {0}
    BY <1>1, <1>2, <1>3
  <2>6. ph \in 0 .. Len(image.phs) /\ frame \in Stack \cup {0} /\ image \in Images
    BY <1>1, <2>4
  <2>7. paging \in BOOLEAN
    BY <1>1
  <2> QED
    BY <1>4, <2>2, <2>3, <2>5, <2>6, <2>7 DEF Types
<1>6. Position
  <2>1. Asking(ph) = HeaderSegment
    BY <1>1 DEF Asking
  <2>2. SECTSIZE * (offset - 1) - pa = 0 - ELFHDR
    BY <1>1, <1>2, <1>3
  <2> QED
    BY <1>1, <1>2, <1>3, <1>4, <2>1, <2>2 DEF Position, HeaderSegment
<1>7. Reading /\ Read /\ Copied /\ Loaded /\ Processor
  BY <1>1, <1>4 DEF Reading, Read, Copied, Loaded, Processor
<1>8. Chain /\ Frames /\ Listing
  BY <1>1, <1>4 DEF Chain, Frames, Listing
<1> QED
  BY <1>5, <1>6, <1>7, <1>8 DEF Inv

LEMMA InvNext == Inv /\ [TraceNext]_traceVars => Inv'
<1> SUFFICES ASSUME Inv, [TraceNext]_traceVars PROVE Inv'
  OBVIOUS
<1>1. CASE Starts
  <2>1. CASE Load
    <3>1. at # "relocated"
      BY <2>1 DEF Load, Loader, Waitdisk, Command, Insl, ReadNext, NextSegment, Bad, JumpToEntry
    <3> QED
      BY <1>1, <2>1, <3>1, LoadStep DEF Starts
  <2>2. CASE Disk
    <3>1. CASE at = "relocated"
      <4>1. <<[eip |-> image.spin, args |-> <<>>]>> \in Seq(Records)
        BY Kernels DEF Inv, Types, Records
      <4>2. calls' = <<[eip |-> image.spin, args |-> <<>>]>> /\ UNCHANGED listing
        BY <1>1, <3>1 DEF Starts
      <4>3. at \in NoFrames
        BY <3>1 DEF NoFrames
      <4> QED
        BY <2>2, <4>1, <4>2, <4>3, DiskStep
    <3>2. CASE at # "relocated"
      <4>1. calls' = calls /\ UNCHANGED listing
        BY <1>1, <3>2 DEF Starts
      <4> QED
        BY <2>2, <4>1, DiskStep
    <3> QED
      BY <3>1, <3>2
  <2>3. CASE TurnOnPaging
    BY <1>1, <2>3, TurnOnPagingStep DEF Starts, TurnOnPaging
  <2>4. CASE JumpUp
    BY <1>1, <2>4, JumpUpStep DEF Starts, JumpUp
  <2>5. CASE CallInit
    BY <1>1, <2>5, CallInitStep DEF Starts, CallInit
  <2>6. CASE ClearBss
    BY <1>1, <2>6, ClearBssStep DEF Starts, ClearBss
  <2> QED
    BY <1>1, <2>1, <2>2, <2>3, <2>4, <2>5, <2>6 DEF Starts, Next, Kernel
<1>2. CASE TestBacktrace \/ Deeper \/ AtTheBottom \/ DropIntoMonitor \/ RunsBacktrace
           \/ ShowFrame \/ TypesBacktrace
  BY <1>2, TestBacktraceStep, DeeperStep, AtTheBottomStep, DropIntoMonitorStep,
     RunsBacktraceStep, ShowFrameStep, TypesBacktraceStep
<1>3. CASE Leave \/ RuncmdReturns \/ BacktraceReturns
  <2>1. /\ at \in {"leaving", "runcmd", "mon_backtrace"} /\ Return
        /\ at \notin Booting /\ at \notin NoFrames
    BY <1>3 DEF Leave, RuncmdReturns, BacktraceReturns, Booting, NoFrames, Low, Before, InLoader
  <2>2. calls[1].eip \in Runner
    BY <2>1, Caller
  <2>3. calls[1].eip \in Tests \cup {image.test_backtrace + 2, image.monitor + 1, image.runcmd + 1}
    BY <2>1, <2>2 DEF Runner
  <2> QED
    BY <2>1, <2>3, ReturnStep
<1>4. CASE UNCHANGED traceVars
  <2>1. UNCHANGED <<image, mem, at, ph, pa, end_pa, offset, disk, paging, eip, esp, ebp, calls,
                    frame, listed>>
    BY <1>4 DEF traceVars, startVars, loaderVars, segment, cpu
  <2>2. \A c : FrameOf(c)' = FrameOf(c) /\ (Call(c)' <=> Call(c))
    BY <2>1, SameKernel
  <2>3. \A c, d : Calls(c, d)' <=> Calls(c, d)
    BY <2>1, SameKernel
  <2>4. Types'
    BY <2>1 DEF Inv, Types, Disks, Sector, FileByte, Stack
  <2>5. Position' /\ Read' /\ Copied'
    BY <2>1 DEF Inv, Position, Asking, Read, Copied, Asked, FileByte
  <2>6. Reading'
    <3>1. SectorPorts(offset)' = SectorPorts(offset) /\ Sector(offset)' = Sector(offset)
      BY <2>1 DEF Sector, FileByte
    <3> QED
      BY <2>1, <3>1 DEF Inv, Reading
  <2>7. Loaded' /\ Processor'
    BY <2>1 DEF Inv, Loaded, Processor, Stack, FileByte, Bss
  <2>8. Runner' = Runner
    BY <2>1, SameKernel DEF Runner
  <2>9. Chain'
    BY <2>1, <2>2, <2>3, <2>8 DEF Inv, Chain
  <2>10. \A va : WordAt(va)' = WordAt(va)
    BY <2>1 DEF WordAt, Phys
  <2>11. Frames' /\ Listing'
    BY <2>1, <2>2, <2>10 DEF Inv, Frames, InFrame, Listing
  <2> QED
    BY <2>4, <2>5, <2>6, <2>7, <2>9, <2>11 DEF Inv
<1> QED
  BY <1>1, <1>2, <1>3, <1>4 DEF TraceNext, Runs

LEMMA TraceInvariant == TraceSpec => []Inv
BY InvInit, InvNext, PTL DEF TraceSpec

LEMMA TypeOKHolds == Inv => TypeOK
<1> SUFFICES ASSUME Inv PROVE TypeOK
  OBVIOUS
<1>1. Types /\ Position
  BY DEF Inv
<1>2. SECTSIZE \in Nat \ {0} /\ MemSize \in Nat
  BY LoaderAssumption
<1>3. pa \in 0 .. MemSize /\ end_pa \in 0 .. MemSize
  <2> DEFINE h == Asking(ph)
  <2>1. /\ h.p_pa \in Nat /\ h.p_memsz \in Nat /\ h.p_pa + h.p_memsz <= MemSize
        /\ ph # 0 => h.p_pa + h.p_memsz + SECTSIZE - 1 <= MemSize
    BY <1>1, Segments DEF Types
  <2>2. /\ end_pa = h.p_pa + h.p_memsz /\ pa < end_pa + SECTSIZE /\ (ph = 0 => pa <= end_pa)
        /\ pa \in Nat /\ end_pa \in Nat
    BY <1>1 DEF Position, Types
  <2> HIDE DEF h
  <2> QED
    BY <1>2, <2>1, <2>2
<1>4. pa % SECTSIZE = 0
  BY <1>1 DEF Position
<1>5. disk.status \in {"ready", "busy", "starting"} /\ disk.regs \in [1 .. 4 -> 0 .. Port - 1]
  BY <1>1 DEF Types, Disks
<1>6. at \notin Booting => esp \in Stack /\ ebp = esp
  <2> SUFFICES ASSUME at \notin Booting PROVE esp \in Stack /\ ebp = esp
    OBVIOUS
  <2>1. at \notin NoFrames
    BY DEF Booting, NoFrames, Low, Before, InLoader
  <2>2. esp = FrameOf(calls[1]) /\ ebp = esp /\ calls[1] \in Records /\ Call(calls[1])
    BY <2>1 DEF Inv, Chain
  <2>3. PICK l, g : l = Len(calls[1].args) /\ g = FrameOf(calls[1])
    OBVIOUS
  <2>4. /\ g \in Nat /\ image.bootstack <= g /\ l \in 0 .. 3 /\ g + 2 + l <= image.bootstacktop
    BY <1>1, <2>2, <2>3, FramesOnStack DEF Types
  <2>5. image.bootstack \in Nat /\ image.bootstacktop \in Nat
    BY <1>1, Kernels DEF Types
  <2> QED
    BY <2>2, <2>3, <2>4, <2>5 DEF Stack
<1>7. DOMAIN mem = 0 .. MemSize - 1
  BY <1>1 DEF Types
<1> QED
  BY <1>1, <1>3, <1>4, <1>5, <1>6, <1>7 DEF TypeOK, Types, Places

LEMMA NoStrayCopiesHolds == Inv => NoStrayCopies
<1> SUFFICES ASSUME Inv, at = "entry", NEW a \in DOMAIN mem, mem[a] # Junk
             PROVE  \/ a \in Asked(ELFHDR, 8 * SECTSIZE)
                    \/ \E i \in DOMAIN image.phs :
                            a \in Asked(image.phs[i].p_pa, image.phs[i].p_memsz)
  BY DEF NoStrayCopies
<1>1. PICK i \in 0 .. ph : a \in Asked(Asking(i).p_pa, Asking(i).p_memsz)
  BY DEF Inv, Copied
<1>2. CASE i = 0
  BY <1>1, <1>2 DEF Asking, HeaderSegment
<1>3. CASE i # 0
  <2>1. i \in DOMAIN image.phs
    BY <1>3, Header DEF Inv, Types
  <2> QED
    BY <1>1, <1>3, <2>1 DEF Asking
<1> QED
  BY <1>2, <1>3

LEMMA KernelAsLinkedHolds == Inv => KernelAsLinked
<1> SUFFICES ASSUME Inv, at \notin Booting PROVE KernelAsLinked
  BY DEF KernelAsLinked
<1>1. at \notin Before
  BY DEF Booting, Before, InLoader
<1> QED
  BY <1>1 DEF Inv, Loaded, KernelAsLinked

LEMMA BacktraceListsCallsHolds == Inv => BacktraceListsCalls
<1> SUFFICES ASSUME Inv, at \in {"mon_backtrace", "panic"} PROVE BacktraceListsCalls
  BY DEF BacktraceListsCalls
<1>1. at \notin NoFrames
  BY DEF NoFrames, Low, Before, InLoader
<1>2. /\ calls \in Seq(Records) /\ calls[1].eip \in Runner /\ DOMAIN calls = 1 .. Len(calls)
      /\ Len(calls) \in Nat /\ \A k \in DOMAIN calls : Call(calls[k])
  BY <1>1 DEF Inv, Chain
<1>3. at = "mon_backtrace"
  BY <1>2 DEF Runner
<1>4. /\ Len(listed) <= Len(calls) /\ Len(listed) \in Nat
      /\ frame = IF Len(listed) < Len(calls) THEN FrameOf(calls[Len(listed) + 1]) ELSE 0
      /\ \A k \in DOMAIN listed :
            /\ listed[k].eip = calls[k].eip
            /\ \A n \in DOMAIN calls[k].args : listed[k].args[n] = calls[k].args[n]
  BY <1>3 DEF Inv, Listing
<1>5. frame = 0 => Len(listed) = Len(calls)
  <2> SUFFICES ASSUME Len(listed) < Len(calls) PROVE frame # 0
    BY <1>2, <1>4
  <2>1. Len(listed) + 1 \in DOMAIN calls
    BY <1>2, <1>4
  <2>2. PICK g : g = FrameOf(calls[Len(listed) + 1])
    OBVIOUS
  <2>3. g \in Nat /\ image.bootstack <= g
    BY <1>2, <2>1, <2>2, FramesOnStack DEF Inv, Types
  <2>4. KERNBASE \in Nat \ {0} /\ KERNBASE <= image.bootstack /\ image.bootstack \in Nat
    BY Kernels DEF Inv, Types
  <2> QED
    BY <1>4, <2>2, <2>3, <2>4
<1> QED
  BY <1>4, <1>5 DEF BacktraceListsCalls

---------------------------------------------------------------------------
\* readseg copies nothing to where there is no memory, its sector's number
\* fits into the four ports, and from entry.S to the monitor the stack pointer
\* stays in the stack that entry.S set up.
THEOREM Typed == TraceSpec => []TypeOK
BY TraceInvariant, TypeOKHolds, PTL

\* readseg writes less than a sector more than it was asked for at each end of
\* a segment, and nothing at all for a segment without bytes.
THEOREM StraysBounded == TraceSpec => []NoStrayCopies
BY TraceInvariant, NoStrayCopiesHolds, PTL

\* From cons_init on every segment is in memory as in the file but for the
\* stack, and the BSS is zero, whatever readseg copied too much before and
\* however deep the calls are.
THEOREM KernelIntact == TraceSpec => []KernelAsLinked
BY TraceInvariant, KernelAsLinkedHolds, PTL

\* mon_backtrace, which sees nothing but memory, lists every call in progress
\* with the arguments it was given and no other, and ends at i386_init.
THEOREM BacktraceComplete == TraceSpec => []BacktraceListsCalls
BY TraceInvariant, BacktraceListsCallsHolds, PTL
=========================================================================
