-------------------------- MODULE ConsoleInput --------------------------
(***************************************************************************)
(* Console input of the JOS kernel (lab/kern/console.c): the serial port   *)
(* and the keyboard feed the ring buffer `cons` through cons_intr, and     *)
(* getchar spins on cons_getc until the ring yields a character.  This     *)
(* kernel never enables interrupts, so the devices are polled by           *)
(* cons_getc; what runs concurrently with the kernel is the hardware,      *)
(* which may deliver a new byte between any two polls.                     *)
(*                                                                         *)
(* The i-th byte that arrives is either the number i, so that every        *)
(* character is told apart from every other, or 0: a NUL from the serial   *)
(* line, or a scan code that completes no character.                       *)
(***************************************************************************)
EXTENDS Integers, Sequences

CONSTANTS
    N,          \* CONSBUFSIZE (512 in the code)
    KbdCap,     \* scan codes the keyboard controller can hold
    MaxInput    \* bound: bytes the devices deliver in one behaviour

ASSUME NAssumption == N \in Nat \ {0, 1}
ASSUME DeviceAssumption == KbdCap \in Nat \ {0} /\ MaxInput \in Nat

NoData == -1                \* a device's proc found nothing to read
Char   == 1 .. MaxInput     \* what cons_intr stores
Byte   == Char \cup {0}     \* what a device can deliver

VARIABLES
    serial_exists,          \* set once by serial_init
    com1,                   \* COM1 receive register; its FIFO is turned off
    kbd,                    \* what kbd_proc_data will return, oldest first
    buf, rpos, wpos,        \* struct cons
    pc,                     \* where the kernel is
    arrived,                \* bytes delivered by the hardware so far
    stored,                 \* history: characters cons_intr put in the ring
    got                     \* history: characters getchar returned

ring    == <<buf, rpos, wpos>>
devices == <<com1, kbd, arrived>>
vars    == <<serial_exists, devices, ring, pc, stored, got>>

Init ==
    /\ serial_exists = FALSE
    /\ com1 = NoData
    /\ kbd = <<>>
    /\ buf = [i \in 0 .. N-1 |-> 0]
    /\ rpos = 0
    /\ wpos = 0
    /\ pc = "boot"
    /\ arrived = 0
    /\ stored = <<>>
    /\ got = <<>>

---------------------------------------------------------------------------
(* The hardware.  A byte that reaches COM1 before the last one was read    *)
(* overwrites it; the keyboard controller drops what it cannot hold.       *)

SerialArrives ==
    /\ arrived < MaxInput
    /\ arrived' = arrived + 1
    /\ com1' \in {arrived + 1, 0}
    /\ UNCHANGED <<serial_exists, kbd, ring, pc, stored, got>>

KeyArrives ==
    /\ arrived < MaxInput
    /\ Len(kbd) < KbdCap
    /\ arrived' = arrived + 1
    /\ \E b \in {arrived + 1, 0} : kbd' = Append(kbd, b)
    /\ UNCHANGED <<serial_exists, com1, ring, pc, stored, got>>

---------------------------------------------------------------------------
(* The kernel. *)

\* serial_init throws away a byte that was pending; kbd_init does nothing,
\* so keys typed before it stay in the controller.
ConsInit ==
    /\ pc = "boot"
    /\ pc' = "caller"
    /\ serial_exists' \in BOOLEAN
    /\ com1' = NoData
    /\ UNCHANGED <<kbd, ring, arrived, stored, got>>

Getchar ==
    /\ pc = "caller"
    /\ pc' = "poll"
    /\ UNCHANGED <<serial_exists, devices, ring, stored, got>>

\* cons_getc polls the serial port only if there is one, then the keyboard.
PollDevices ==
    /\ pc = "poll"
    /\ pc' = IF serial_exists THEN "serial" ELSE "kbd"
    /\ UNCHANGED <<serial_exists, devices, ring, stored, got>>

\* Mutant: the write index is wrapped one place late.
StoreCharWrapsLate(c) ==
    \/ /\ c = 0
       /\ UNCHANGED <<ring, stored>>
    \/ /\ c # 0
       /\ buf' = [buf EXCEPT ![wpos] = c]
       /\ wpos' = IF wpos = N THEN 0 ELSE wpos + 1
       /\ stored' = Append(stored, c)
       /\ UNCHANGED rpos

\* Mutant: the last place of the ring is never written.
StoreCharWrapsEarly(c) ==
    \/ /\ c = 0
       /\ UNCHANGED <<ring, stored>>
    \/ /\ c # 0
       /\ buf' = [buf EXCEPT ![wpos] = c]
       /\ wpos' = IF wpos + 2 >= N THEN 0 ELSE wpos + 1
       /\ stored' = Append(stored, c)
       /\ UNCHANGED rpos

\* Mutant: a full ring gives up its oldest character.
StoreCharDropsOldest(c) ==
    \/ /\ c = 0
       /\ UNCHANGED <<ring, stored>>
    \/ /\ c # 0
       /\ buf' = [buf EXCEPT ![wpos] = c]
       /\ wpos' = (wpos + 1) % N
       /\ rpos' = IF wpos' = rpos THEN (rpos + 1) % N ELSE rpos
       /\ stored' = Append(stored, c)

\* The body of cons_intr's loop for a result c # -1 of the device's proc.
StoreChar(c) ==
    \/ /\ c = 0
       /\ UNCHANGED <<ring, stored>>
    \/ /\ c # 0
       /\ buf' = [buf EXCEPT ![wpos] = c]
       /\ wpos' = IF wpos + 1 = N THEN 0 ELSE wpos + 1
       /\ stored' = Append(stored, c)
       /\ UNCHANGED rpos

SerialIntr ==
    /\ pc = "serial"
    /\ \/ /\ com1 # NoData
          /\ StoreChar(com1)
          /\ com1' = NoData
          /\ UNCHANGED pc
       \/ /\ com1 = NoData
          /\ pc' = "kbd"
          /\ UNCHANGED <<com1, ring, stored>>
    /\ UNCHANGED <<serial_exists, kbd, arrived, got>>

KbdIntr ==
    /\ pc = "kbd"
    /\ \/ /\ kbd # <<>>
          /\ StoreChar(Head(kbd))
          /\ kbd' = Tail(kbd)
          /\ UNCHANGED pc
       \/ /\ kbd = <<>>
          /\ pc' = "grab"
          /\ UNCHANGED <<kbd, ring, stored>>
    /\ UNCHANGED <<serial_exists, com1, arrived, got>>

\* Mutant: one character is taken and the rest of the input flushed.
ConsGetcFlushes ==
    /\ pc = "grab"
    /\ \/ /\ rpos # wpos
          /\ got' = Append(got, buf[rpos])
          /\ rpos' = wpos
          /\ pc' = "caller"
       \/ /\ rpos = wpos
          /\ pc' = "poll"
          /\ UNCHANGED <<rpos, got>>
    /\ UNCHANGED <<serial_exists, devices, buf, wpos, stored>>

\* The tail of cons_getc: a character ends getchar, 0 makes it poll again.
ConsGetc ==
    /\ pc = "grab"
    /\ \/ /\ rpos # wpos
          /\ got' = Append(got, buf[rpos])
          /\ rpos' = IF rpos + 1 = N THEN 0 ELSE rpos + 1
          /\ pc' = "caller"
       \/ /\ rpos = wpos
          /\ pc' = "poll"
          /\ UNCHANGED <<rpos, got>>
    /\ UNCHANGED <<serial_exists, devices, buf, wpos, stored>>

Hardware == SerialArrives \/ KeyArrives
Kernel   == ConsInit \/ Getchar \/ PollDevices \/ SerialIntr \/ KbdIntr \/ ConsGetc

Next == Hardware \/ Kernel

Spec == Init /\ [][Next]_vars

\* The kernel's only thread keeps running: interrupts are off and the monitor
\* calls readline, and so getchar, for ever.  The hardware owes nothing.
FairSpec == Spec /\ WF_vars(Kernel)

---------------------------------------------------------------------------
\* Types.  The read and write index never leave the array (both are wrapped
\* right after their increment), and the ring holds bytes a device delivered.
TypeOK ==
    /\ serial_exists \in BOOLEAN
    /\ com1 \in Byte \cup {NoData}
    /\ kbd \in Seq(Byte)
    /\ buf \in [0 .. N-1 -> Byte]
    /\ rpos \in 0 .. N-1
    /\ wpos \in 0 .. N-1
    /\ pc \in {"boot", "caller", "poll", "serial", "kbd", "grab"}
    /\ arrived \in 0 .. MaxInput
    /\ stored \in Seq(Char)
    /\ got \in Seq(Char)

\* Characters are lost only by whole laps of the ring: the j-th character
\* handed to the reader is the (j + k*N)-th one stored, for some k.  A write
\* index that was off by one, or a stale slot read again, breaks this.
LossIsWholeLaps ==
    \A j \in DOMAIN got :
        \E p \in DOMAIN stored :
            stored[p] = got[j] /\ p >= j /\ (p - j) % N = 0

---------------------------------------------------------------------------
(* Refinement: the ring implements InputQueue. *)

Backlog == IF wpos >= rpos THEN wpos - rpos ELSE wpos - rpos + N
Slot(i) == IF rpos + i < N THEN rpos + i ELSE rpos + i - N

waiting == [i \in 1 .. Backlog |-> buf[Slot(i - 1)]]

Queue == INSTANCE InputQueue WITH queue <- waiting

\* cons_intr and cons_getc keep the promise of InputQueue, the loss of a
\* whole lap when the ring fills up included.
QueueSpec == Queue!Spec

\* Until N characters are stored, so that the ring may overflow, every
\* character that is stored is eventually returned by getchar: nothing stays
\* behind in the ring, and the polling loops end.
EveryCharDelivered ==
    \A c \in Char :
        (\E p \in DOMAIN stored : stored[p] = c)
            ~> (Len(stored) >= N \/ \E j \in DOMAIN got : got[j] = c)
=========================================================================
