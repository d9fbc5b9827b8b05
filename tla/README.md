# xv6-os-engineering: specifications

TLA+ models of the programs in this repository: the JOS kernel of `lab/`
(boot, console, formatted output, debug information, monitor, string routines),
the Unix shell of `hw/hw1/shell`, and the system calls of `hw/hw2`. The models are
translated from the C source; `PROJECT.json` maps every definition that models
code to the lines it stands for. TLC checks each model on small instances and
TLAPS proves main properties of the console ring, the keyboard decoder, the line editor
and the monitor, the symbol table search and the lookup around it, the boot up to the
backtrace, the string routines, the system calls and the shell for all sizes.

To run a check: `tlc -config X.cfg MCModule.tla`; to check the proofs of a
component: `tlapm XProofs.tla`.

## 1. The system

| part | state it keeps | operations | talks to | hard because |
|---|---|---|---|---|
| console input (`lab/kern/console.c`) | `cons` (buf, rpos, wpos), `serial_exists` | `serial_intr`, `kbd_intr`, `cons_intr`, `cons_getc`, `getchar`, `cons_init` | devices below; readline above, which spins in `getchar` | bytes arrive between any two polls; the ring has no full check |
| keyboard decoder (`console.c`) | static `shift` | `kbd_proc_data` | console input, which drops its zeros | a key is one to six codes, tied together by flags only |
| text screen (`console.c`) | `crt_buf`, `crt_pos` | `cga_init`, `cga_putc` | every `cputchar`; a tab calls `cons_putc` again | cursor arithmetic, scrolling under text that is being edited |
| serial, parallel output (`console.c`) | none | `serial_putc`, `lpt_putc` | `cons_putc` | nothing but a bounded wait |
| line editor (`lab/lib/readline.c`) | static `buf`, `i` | `readline` | `getchar`, `cputchar`, monitor, which gets a pointer to `buf` | buffer and screen are two copies of one line |
| monitor (`lab/kern/monitor.c`) | `argv` into readline's buffer; the frames of the stack | `monitor`, `runcmd`, three commands, `mon_backtrace` among them | readline, formatted output, debug information | cuts words in place in a reused buffer; follows frame pointers that only the calls keep in order |
| debug information (`lab/kern/kdebug.c`) | locals of two nested searches | `stab_binsearch`, `debuginfo_eip` | linker tables, `mon_backtrace` | binary search in a table of which only some entries are sorted |
| formatted output (`lab/lib/printfmt.c`, `lab/kern/printf.c`) | `color` | `vprintfmt`, `printnum`, `snprintf`, `cprintf` | `cputchar` | padding, bounded buffer, colour codes |
| string routines (`lab/lib/string.c`) | none | `memmove`, `strlcpy`, `strtol`, ... | everyone | overlapping copies, bounds |
| boot loader (`lab/boot/main.c`) | memory, the disk's command state | `bootmain`, `readseg`, `waitdisk`, `readsect` | IDE disk; jumps to the kernel | whole sectors are copied; handshake with the disk |
| start, panic (`lab/kern/init.c`, `entry.S`) | `panicstr`, the BSS, the stack | `i386_init`, `test_backtrace`, `_panic`, `_warn` | all of the kernel | relies on what the loader left |
| shell commands (`hw/hw1/shell/sh.c`) | processes, descriptors, pipes | `main`, `fork1`, `runcmd` | the operating system, programs | the stages of a pipeline run at the same time and share pipe ends |
| shell input (`sh.c`) | `buf`, stdio's buffer and file offset | `getcmd` | `main` | a child that exits shares the offset of the file |
| shell parser (`sh.c`) | position in the line | `gettoken` .. `parseexec` | `runcmd`, through a tree | recursive descent, strings cut in place |
| xv6 system calls (`hw/hw2/source`) | none of their own | `argint`, `argptr`, `sys_*` | a kernel that is not here | argument checks, a wait on ticks |

The other files (build scripts, grading, the shell skeleton, notes, code that no
target builds) are listed in `PROJECT.json` with the reason they are left out.

What makes each part correct:

- **console input**: characters come out in the order in which they were stored,
  each at most once; overflow costs whole laps and leaves the ring usable; what is
  stored is delivered.
- **keyboard**: the flags say what the keys say; no modifier sticks; a key never
  gives another key's character; only Ctrl-Alt-Delete reboots.
- **screen and line editor**: the cursor stays on the screen; the line on the
  screen is the line in the buffer, and is the string returned.
- **monitor**: a command gets the words of the line that the user saw; a backtrace lists
  the calls in progress.
- **debug information**: the search stays in its region, ends, and returns the
  entry that contains the address; the function found is never one of another file.
- **shell**: a pipeline's output does not depend on scheduling; no descriptor
  leaks; the output of a line comes before the next prompt; nothing waits for ever.
- **boot loader, start**: each sector is read when the disk has it, and goes where it
  belongs; the code that runs is mapped at each step; the console finds the kernel as
  it was linked, and a BSS of zeros.
- **formatted output**: each directive prints what it means, whatever came before it;
  a bounded buffer holds the beginning of the output, ended.
- **shell input and parser**: the shell runs the lines it was given, once and in
  order, as the trees they mean, until another process moves the offset they share.
- **strings**: `memmove` of overlapping regions equals a copy through a second buffer;
  every routine does what is said of whole strings.
- **system calls**: what a call is handed lies inside its caller; a sleep lasts as long
  as it was asked to, and ends.

## 2. Modules

```
InputQueue  <--refines--  ConsoleInput  <--EXTENDS-- MCConsoleInput
                              ^-- ConsoleProofs, about Keyboard too
Keyboard <-- MCKeyboard
CgaScreen <-- LineEditor <-- Monitor <-- MCMonitor
                                ^-- MonitorProofs, about LineEditor too
StabSearch <-- KDebug <-- MCKDebug
    |             ^-- KDebugProofs, about StabSearch too
    ^-- MCStabSearch
BootLoader <-- KernelStart <-- Backtrace <-- MCKernelStart
                                   ^-- BootProofs, about all three
Format, FormatReference <-- MCFormat
    ^-- FormatProofs
Shell, ShellReference <-- MCShell
    ^-- ShellProofs, about ShellInput too
ShellInput, ShellParser, ShellGrammar <-- MCShellInput
Strings  <-- MCStrings
    ^-- StringsProofs
Syscalls <-- MCSyscalls
    ^-- SyscallsProofs
```

**ConsoleInput.** State: the ring, the COM1 receive register (its FIFO is switched
off, so a byte that is not fetched in time is overwritten), the keyboard
controller's queue, and where the kernel is. `SerialArrives` and `KeyArrives` may
happen between any two steps of the kernel. `SerialIntr` and `KbdIntr` are one
turn of the loop of `cons_intr` each, `ConsGetc` the tail of `cons_getc`. This
kernel never enables interrupts, so the devices are polled and no interrupt can
cut into `cons_getc`. The i-th byte is either the number i, so that all characters
differ, or 0. `stored` and `got` are histories.

**InputQueue** is what a caller of the console may rely on: a FIFO queue of N-1
places; the N-th waiting character empties it. `ConsoleInput!QueueSpec` states
that the ring implements it, with the waiting characters read out of the ring as
the refinement mapping.

**Keyboard.** `kbd_proc_data`, one action per branch, on scan codes of set 1, with
`shift` as a set of flags. The keyboard (external) sends all codes of a press,
repeat or release, including the shift codes that gray keys send while Shift is
held and the six codes of Pause. It loses an event when the controller is full. A
reboot clears the kernel's statics while the keys stay down. `result` is what
`ConsoleInput` takes as a byte of `kbd`: `NO` is its 0.

**CgaScreen** holds `cga_putc` as an operator on a display. **LineEditor** adds
`readline`, which shows its prompt one character per step and then has one action per
branch of its loop, and **Monitor** adds `monitor` and
the loop of `runcmd`, whose `*buf++ = 0` and `argv` work on the same `buf`. What
`getchar` returns is any character. A command's effect is any output. Two history
variables say where on the screen the line began (the mark of a display) and what the
user saw there on pressing Enter (`line`).

**StabSearch** is `stab_binsearch`: one step is one turn of the loop, the backwards
scan for the right type included; `Call` sets it up and `Return` is the code
after the loop. **KDebug** is `debuginfo_eip` around two such searches. `AttributionCorrect`
says of an address what the code finds out: object, function, parameters and the file in
which the function begins. Section 3 says where two comments of the source want more.

**Shell.** One process table for the shell, its children and the programs they
become, one action per system call, so that the two sides of a pipeline interleave
at every call. The kernel and the programs (external) are what `sh.c` needs of
them: lowest free descriptor, shared pipe ends, end of file when the last writer
is gone, SIGPIPE when the last reader is gone, zombies, orphans given to init,
calls of fork, pipe and open that may fail. A program may complain on standard error,
writes tokens and copies its input. `console` is what the terminal shows but for the
prompts: tokens that come through a descriptor 1, and messages through a descriptor 2,
which `sh.c` never redirects. Every `fprintf` and `perror` of `main`, `fork1`, `runcmd` and the
parser is one message. Lines come from a terminal and are trees already.
**ShellReference** runs the same trees one stage after the other, without processes.

**ShellInput** is where the lines come from: `getcmd` and `main` with the stdio buffer
(external), for a terminal, a pipe and a file. A child has a copy of what main's stdio
had not handed out and shares the open file; when it ends by `exit`, its stdio moves the
offset of a file back by that much. What a command does besides is Shell's matter: here
it is the ways in which a process of it may end or read (`EndsAs`). A program that reads
takes any number of characters, of a terminal never more than the rest of the line; `breaks`
is the history of the places where one stopped. `Parse` and `EndsAs`
are constants of ShellInput, so that its theorems hold whatever the lines mean; the run
takes them from **ShellParser**, which is
`parsecmd` to `gettoken` as operators from a line to a tree, over the tokens of the line.
**ShellGrammar** says what a line and an input mean without a parser: a line cut at its
bars, words and redirections picked by their places.

**Strings** is `string.c` on a memory of bytes: a step is a turn of a routine's loop, or
one repetition of the string instruction that `memset` and `memmove` set up, by bytes or
words, upwards or downwards. **MCStrings** says what each routine means of whole strings.

**Syscalls** is `syscall.c` and `sysproc.c`. A process makes calls with any stack pointer
and any words on its stack. `sys_sleep` is step by step, from `acquire` on, with the lock,
the timer and `kill` of the xv6 kernel (external) around it.

**BootLoader** is `boot/main.c`: `readseg` and `readsect` step by step, with the disk
(external) as a process of its own that becomes ready at any time. A byte of the image
is its place in the file, so that memory shows where each byte came from. The program
headers are read from the scratch page, as in the code. A disk takes up a command as
soon as it is given. **KernelStart** adds the processor: each instruction is fetched,
and the stack and the BSS are written, through the map in force, and the page directory
is in force only if the loader put it into memory. A fault is a state without a step.
The warm boot flag in low memory is left out. KernelStart also has the calling
convention: `Enter` pushes arguments, return address and frame pointer into `mem`, and a
relative call stays in the half of the address space where the processor is.
**Backtrace** goes on from there: `i386_init`, `test_backtrace` down to `mon_backtrace`
and back up, then `monitor` and `runcmd` with a user who may type `backtrace` again and
again. `mon_backtrace` follows `frame` through memory and collects what it prints in
`listed`; the history `calls` says which calls are in progress. The functions' locals, the
layout of the listing and the names that `debuginfo_eip` finds (KDebug) are left out; that
it panics on a user's address is the label `panic`.

**Format** is `vprintfmt` as `vsnprintf` calls it, one action per case of its switch and
per turn of its loop over text, on a sequence of characters. A printed character carries
the colour attribute that the code gives it, and digits carry none. Error messages are
two characters each in the run. The calls (`Calls`), the set of characters and the table
of errors are constants. `ArgumentsMatch`, a part of TypeOK, says what the caller of a
function like printf owes: that an argument is of the type its conversion reads. A `[`
after which no colour code ends keeps `ColourNumber` turning without a change, as the
code's loop does. **FormatReference** says directive by directive what a format string
prints, without any state but the colour; where a comment of the source says something
else (the flag `-` of a number) it follows the code.

Definitions that come just before another and say "Mutant" are plausible faults of
that definition. No specification uses them; they show that the properties would
notice.

## 3. What the runs check

| run | checks | bounds |
|---|---|---|
| `console_input` | indexes and slots (TypeOK); only whole laps are lost; refinement of InputQueue; until N characters are stored, each is returned | ring of 3, 7 bytes, 2 in the controller: the ring fills twice, with both indexes at every place |
| `keyboard` | flags follow keys, characters, reboot | 9 keys: one of each kind, both Shifts, two keys that share a code; 3 held; any number of repeats and losses |
| `monitor` | cursor and buffer bounds; echo equals buffer; the command's words are those of the line the user saw | screen of 3 x 3, buffer of 6, at most 2 words: lines wrap, fill the buffer, scroll the screen, and have too many words |
| `stab_search` | bounds, termination, right entry | every table of up to 4 entries with every region and every address, ordered tables of 6, the example of the source's comment |
| `kdebug` | file, function and number of arguments of an address; failure only without a string table or before the first file | two linked objects, in C, with code of a header before a function or inside its body, or assembly; touching or with a gap; every address |
| `kernel_start` | nothing but the segments' sectors overwritten; kernel as linked, BSS zero, and the stack keeps to its room; a backtrace lists the calls in progress; the monitor is reached, and again after every backtrace | 121 images: segments that end at, before and after a sector's end, with and without BSS, text that follows, an empty segment, contiguous data, no kernel at all; sectors of 4 bytes, ports of three values, so that sector numbers carry over; a disk ready, busy or starting; a stack of 16 words; `test_backtrace(2)` instead of 5, since the recursion repeats one step |
| `format` | output as FormatReference says, colour left behind; buffer; return, but for a stray `[` | all pairs of 76 directives: numbers and strings with each flag and two of them, extreme numbers of 4 and 6 bits, six colour codes, four `[` that begin none, unknown sequences; buffers of -1, 0, 1, 4 and 40, and NULL |
| `strings` | blocks copied and filled; answers and strings written as MCStrings says | memory of 12 bytes; pairs of strings of up to 3 and 2 bytes, one of them negative as a char; sizes from 0 past the end; blocks of up to 9 bytes at every pair of places, so that words and bytes both go up and down; numerals of up to 4 characters and some that overflow a long of 8 bits |
| `shell` | terminal (output in order, every message once) and files end as ShellReference says; no leaked pipe end, five descriptors are enough; no late output, though late messages; everything ends | each form of command, pipelines of up to 4 stages, the test script, left sides that outlive their line and some that complain then, racing redirections; 4 children, so that the table can be full; two more failures of fork, pipe or open at any point; pipe of 1 token for outputs of 3 |
| `shell_fork_failure` | *violated*: see findings | a table of 3 processes, one more failure |
| `shell_input` | the commands of the input, once, in order, as trees; what main runs is never parts of two lines of a terminal | every line of up to 5 of the characters a, blank, bar, < and >; 17 sessions as a terminal, a pipe and a file; line buffer of 9, stdio buffer of 10, at most 2 words and 2 left sides that still run; reads of any length |
| `syscalls` | the lock; blocks inside the caller; no early end of a sleep; every sleep ends | ints of 3 bits, so that ticks and sums wrap; every stack pointer and pointer; sleeps of 0 to 2 ticks and of -1; two sleepers, one of which kills, or one process that passes pointers; a woken process looks at the ticks at most one tick late (`MaxLag`) |

Why these bounds are enough. The ring's code depends on N only through the two
wraps, and the proofs cover every N. The keyboard decoder keeps flags only, so
what matters is which kinds of key are held together; Ctrl-Alt-Delete needs three.
Waiting codes add nothing to the decoder, which reads them in order, so the
controller takes one event at a time. The screen's size matters through row ends
and scrolling, and both happen in the middle of a line. `stab_binsearch` on six
entries meets each branch after each other one. Each pipe of the shell is smaller
than what flows through it, so that writers block, and larger pipelines only
repeat the step from one stage to the next. A line of the shell's input can be
longer than its buffer, and its buffer ends inside a line and inside stdio's. `memmove`
depends on alignment modulo 4 and on overlap only, and the proof covers every size; the
processes of `syscalls` share nothing but `ticks`, the lock and `kill`, which takes two.

Fairness. `console_input` assumes weak fairness of the kernel's only thread, for the
delivery of characters: interrupts are off and `monitor` calls readline for ever. The
hardware owes nothing. `kernel_start` assumes that the processor runs and that a busy
disk becomes ready; nobody has to type. `shell` assumes that the operating system runs every process that
can run (weak fairness for the shell and for each child). `syscalls` assumes that the
timer ticks and that a process inside `sys_sleep` goes on, both with strong fairness:
they need `tickslock`, a spinlock that its holders free again and again, and neither is
kept from it for ever. A process owes no call, and none need leave user mode.
`StabSearch` and `Format` are sequential code that goes on to its end.
`Keyboard`, `Monitor`, `ShellInput` and `Strings` have no liveness property.

Deadlock is checked except where the program or the model of it ends: a search or
`vsnprintf` returns, a shell reaches the end of its input, the loader finds no
kernel.

### Findings

- `sh.c:40` says that `fork1` exits on failure. It prints and returns -1. TLC's trace of
  `shell_fork_failure` is a session of one command in which main's own fork fails and main
  goes on to wait for a child that does not exist. `runcmd` uses `fork1` in the same way
  (`sh.c:96`, `PipeFork`): there the caller takes the parent's side of the pipeline, the left
  side is dropped and the right side sees an empty input. The trace does not get that
  far; the runs of `shell` with failures do.

### Seen while modelling

- `stab_binsearch` looks for `addr + 1` after an exact match (`kdebug.c:80`), so that two
  entries of the type one byte apart make it return the later one, which begins after
  the address. `SearchCorrect` is stated for tables without such entries, as the
  kernel's present table is.
- The flag `-` is the "flag to pad on the right" (`printfmt.c:146`), but it only sets the
  character that `printnum` puts before a number: `%-3d` of 0 prints `--0`.
  FormatReference and the run's numbers with `-` follow the code; the comment holds for
  strings.
- The comment at `kdebug.c:184-187` wants the file of the line that was found, because an
  inlined function interpolates code of another file; the code looks backwards from the
  function's entry and never sees an `N_SOL` inside the body. The one at `kdebug.c:173-175`
  wants -1 when no line is found; the code searches no line and answers an address past the
  end of an object with 0, no function and the empty name of the entry that ends the
  object. `AttributionCorrect` states what the code does, and the run has both cases.
- A child of the shell that ends by `exit` (a line that does not parse, a program that is
  not found, a redirection that fails) gives back what its copy of the stdio buffer
  holds: the offset moves back, relative to where it is by then. If the input is a file,
  main reads those lines again when its own buffer is empty, or pieces of them, and two
  lines run into one when the last has no newline. `CommandsAsTyped` speaks of what main
  runs before that.
- `cd` cuts off the last character of its line even if that is not a newline. A line of
  100 characters or more is run in pieces. A NUL at the beginning of a line ends the
  input.
- The "leftovers" branch of `parsecmd` cannot be reached: `parseexec` leaves a line only
  at a bar or at its end.
- `strtol` takes `0x` without digits for 0 with nothing left, and keeps only the low bits
  of a number that is too big, as its comment admits.
- `ticks - ticks0 < n` (`sysproc.c:69`) is unsigned: a negative n is a very long sleep, and
  a process that looks late may find the difference wrapped and sleep on.
  A kill between the look at `killed` and the sleep takes effect only with the next tick.
- `SearchCorrect` needs an address at or after the first entry of the type. For an
  earlier one the search leaves a region that is not empty and begins with no entry
  of the type; `debuginfo_eip` notices only because its first region then begins
  at entry 0.
- A left side that fails or complains after the next prompt writes its message there
  (`absent | true`); `OutputOnlyBeforePrompt` is about standard output.
- A program that reads less than a line of the terminal leaves the rest of it to the shell,
  which runs it as a command. A read by two processes in turn never joins two lines.
- The left stages of a pipeline are not waited for. A session that passes data
  through a file from such a stage to the next line is a race; `OutputAsSequential`
  leaves those sessions out.
- In `ctlmap` KEY_HOME stands at 0x97 and not at 0xC7: Ctrl and Home give nothing.
  Either Shift key's release turns Shift off though the other is held.
- `readline` erases correctly because a line is shorter than the screen
  (1023 characters, 25 x 80): at the top of the screen `cga_putc` ignores a
  backspace. `LineFits` in LineEditor states it, and without it EchoMatchesLine
  fails.
- The loader's comment says that copying too much does not matter because segments are
  loaded in increasing order (`boot/main.c:84`). That repairs what follows a segment.
  A segment that begins inside a sector overwrites the end of the one before with what
  precedes it in the file; the kernel is safe because `kernel.ld` aligns `.data` to a
  page, and the images of the run are laid out like it.
- `debuginfo_eip` describes a search for the line number that is not there:
  `eip_line` is always 0. The monitor refuses a line of 16 words with a message that
  says 16 is the maximum, since `argv` also holds the final null pointer.
- `vprintfmt` never leaves a `[` after which no colour code ends: at a character that is no
  digit, semicolon or m, the NUL included, its loop (`printfmt.c:115-131`) turns for ever.
  `FormatReturns` says so; every format string of the kernel is without one. A negative number takes one
  place more than its width. `%.0s` prints the whole string, because the 0 is read as
  the padding flag. `%e` of the least int reads before the table of messages. `putch`
  of `printf.c` increments the pointer and not the count, so that `cprintf` returns 0.
- A DEL typed on an empty line is stored and shown like a letter.

## 4. What is proved

The assumptions on the constants, each named in the module that declares them:

- ConsoleInput: CONSBUFSIZE is at least 2 (`NAssumption`); the keyboard's controller
  holds a code (`DeviceAssumption`).
- Keyboard: keys that a keyboard has, room for a code (`KeysAssumption`,
  `BoundsAssumption`).
- LineEditor and Monitor: two rows at least (`ScreenAssumption`); the buffer has a place,
  and a line is shorter than the screen by a row (`BufferAssumption`, `LineFits`);
  `getchar` never returns 0, and the prompt is graphic (`CharsAssumption`); one word and
  the final null pointer (`MaxArgsAssumption`).
- StabSearch and KDebug: a table is a finite array with addresses that are natural numbers
  (`TablesAssumption`, `AddrsAssumption`, `ULIMAssumption`, `TypesAssumption`); what the
  linker makes of the objects (`LinkedAssumption`): a header before the files, files in
  the order of their addresses, functions in order within a file, the first of them not
  after the beginning of the file, and a function's parameters at once after it.
- Strings: the blocks of a call lie inside memory, and strtol's base is not negative
  (`SizesAssumption`, `CasesAssumption`); a string that is copied ends in memory, or the
  size keeps the routine inside it, and the copy overwrites no character that is still to
  be read (`CopiesAssumption`).
- Syscalls: the sizes of an int and of an rtcdate are below KERNBASE, which is half the
  address space (`SizesAssumption`); processes are positive numbers and a stack holds
  words (`ProcsAssumption`).
- BootLoader: the scratch page is at a sector's beginning and in memory
  (`LoaderAssumption`); segments are in memory, placed in a sector as in the file, sectors
  have numbers that four ports hold, and no segment begins in a sector of one before it
  unless it follows that one in the file as in memory (`ImagesAssumption`; `kernel.ld` and
  the linker do so).
- KernelStart and Backtrace: one page directory entry covers memory (`PagingAssumption`);
  code, stack and BSS lie where the kernel is linked, and the BSS has none of the file's
  bytes (`LinkedAssumption`); every call returns to a place of its own and the stack has
  room for the deepest ones (`CallsAssumption`).
- Shell: a process table and a pipe have at least one place (`BoundsAssumption`); a program
  reads nothing, one token or all its input (`ProgramAssumption`).
- ShellInput: an input is a sequence of characters of a terminal, a pipe or a file
  (`InputsAssumption`); both buffers hold a character (`BuffersAssumption`).
- Format: an int has a bit and is no wider than a long long (`FormatAssumption`); what
  vprintfmt prints of its own are characters (`CharactersAssumption`); powers of two are
  numbers, which no prover computes (`PowersAssumption`); a call has a string, a buffer or
  none, any size and a colour (`CallsAssumption`).

| theorem | statement | argument |
|---|---|---|
| `ConsoleProofs!TypeCorrect` | `Spec => []TypeOK` | IInv is TypeOK and `WaitingAreChars`: the slots from rpos up to wpos hold characters, never the zeros the ring began with. TypeOK alone is not inductive: what `ConsGetc` hands out must be a character. |
| `RingImplementsQueue` | `Spec => QueueSpec` | IInv, and `StoreIsPut`, `TakeIsGet`: with the waiting characters as the queue, a store is a Put, the last one before overflow included, a take is a Get, and every other step stutters |
| `OverflowLosesWholeLaps` | `Spec => []LossIsWholeLaps` | LapInv: what was stored is, apart from what waits, a whole number of laps more than what was handed out; the ring holds the last characters stored; and each character handed out lies a whole number of laps behind the place where it was stored |
| `ConsoleProofs!KeyboardTyped`, `FlagsFollowKeys` | `KbdSpec => []KbdTypeOK`, `KbdSpec => []ModifiersFollowKeys` | the flags alone do not say where in an event the decoder is, nor what is still to come. `Place` gives every waiting code a place in its event (between two, escaped, within, or one of five in Pause) such that each leads to the next and the last ends an event, and says what the flags are at the place where the decoder is (`Reading`). `Ctrl` is about the future: at every E1 that waits, once the codes before it are read, no Ctrl key is on, because the keyboard sends E1 for Pause only while Ctrl is up; so the Ctrl that Pause sends takes back only what it set |
| `KeysAnswered`, `ResetByKeys` | `KbdSpec => CharsFollowKeys`, `KbdSpec => RebootsOnCtrlAltDelete` | from the same invariant: the place says which key a code can be of, and the flags there are what the keys say |
| `BootProofs!Typed`, `StraysBounded` | `TraceSpec => []TypeOK`, `TraceSpec => []NoStrayCopies` | `Position`: pa is at a sector's beginning, inside the segment rounded outwards, and as far from the segment's place in the file as in memory; what the disk holds is the sector asked for (`Reading`), for four ports number every sector (`PortsHoldSector`); every byte written is one of a segment that was asked for (`Copied`) |
| `KernelIntact` | `TraceSpec => []KernelAsLinked` | `Read`: the segments read so far are in memory. A sector that is copied reaches into one of them only where it holds the same bytes (the linker's order, `ImagesAssumption`). After that only the BSS is cleared, which has none of the file's bytes, and the stack written (`Loaded`), by calls that go no deeper than its room (`Chain`, `Below`) |
| `BacktraceComplete` | `TraceSpec => []BacktraceListsCalls` | `Chain`: the calls in progress are those the code can make, each frame lies above the one it called by what was pushed, and esp and ebp are at the innermost; `Frames`: each frame in memory holds the frame pointer of its caller, the address to return to and the arguments, and no later call writes there; `Listing`: mon_backtrace is at the frame after the last that it listed |
| `KDebugProofs!TypeCorrect` | `Spec => []TypeOK` | the search interval stays in the region; region ends only move inside |
| `BinarySearchCorrect` | `Spec => []SearchCorrect` | loop invariant: everything left of l is at or before the address, everything right of r after it, and the region's ends are the best entries met so far; the address in use is the original one or, after an exact match, the next |
| `LookupTypeCorrect`, `AddressesAttributed` | `KSpec => []KTypeOK`, `KSpec => []AttributionCorrect` | KInv says which of the two searches is under way and with which arguments. Both have what `BinarySearchCorrect` asks for, so its invariant (`SearchInv`) holds in each; a search for a file that finds none leaves the left end where it was (`LeftAlone`), which is entry 0; the functions found lie between the file's entry and the next file's (`FunctionsOfFile`); and the parameters end before the region does (`ParametersFollow`) |
| `MonitorProofs!EchoCorrect` | `Spec => []EchoMatchesLine` | EInv is TypeOK, the types of the screen, `PromptShown` (the part of the prompt that is shown ends at the cursor) and the echo itself. A character moves the cursor on by one, and where it scrolls the screen it moves the text with its marks; `LineFits` keeps the beginning of the line on the screen when the line scrolls it |
| `MonitorUsesEditor` | `MSpec => Spec` of LineEditor | every step of runcmd that touches readline's buffer is one its caller may make, because it happens only after readline has returned |
| `MonitorTypeCorrect` | `MSpec => []MTypeOK` | MInv: EInv, and `LineCut`: after readline returns, the buffer is the line that the user saw with the white space before next cut out |
| `CommandsGetWords` | `MSpec => []ArgumentsAreWords` | `WordsTaken`: argv holds the places before next where a word of the line begins. Whether one does is seen from two neighbours (`WordStartsAre`), and where it ends is a least element, which the NUL written there later makes the end of the string |
| `StringsProofs!BlocksCopied` | `Spec => []BlocksAsSpecified` | `Progress`: while the instruction runs, memory is the old one except for the part of the block it has passed, and a copy goes down exactly when dst begins inside src, so that no byte still to be read has been written; a word step is four byte steps because the loop runs only where 4 divides both addresses and the size |
| `RoutinesTyped` | `Spec => []TypeOK` | what is written is a byte because it was read inside memory (`ReadsInside`): the size says how far the routine may look, or a NUL at or after s is still there when s comes to it, since d is behind that NUL or no further than s. Of the blocks it follows from `Progress`, which makes memory a mixture of the old one and the bytes wanted |
| `SyscallsProofs!CallsTyped` | `Spec => []TypeOK` | IInv is TypeOK with the two facts below: the lock is held by the process that is between `acquire` and `release`, and by no other |
| `BlocksHandedInside` | `Spec => []BlocksInside` | `SumsInside`: a size below KERNBASE and an address inside a process that ends below it have a sum that does not wrap, so argptr's comparisons mean what they say |
| `SleepLasts` | `Spec => SleepsLongEnough` | `Counted`: the wrapped difference ticks - ticks0 is never more than the ticks that did pass, for `OneTick`: a tick adds at most one to it, also where the counter wraps |
| `ShellProofs!ProgramsStartClean` | `Spec => []ProgramsHoldOnlyStdio` | IInv gives the descriptors of a process at each label of runcmd (`Disciplined`): `open` returns the 0 or 1 that was just closed and `pipe` returns 3 and 4 only because nothing else is open there, which is what makes each close and dup2 hit its target |
| `ShellProofs!PromptEndsOutput` | `Spec => OutputOnlyBeforePrompt` | whatever else the console grows by is a message (`ConsoleGrows`). Whose output may still go to the terminal is a child of main (`LastStageOnTerminal`), main has one child at most, and only while it waits (`MainWaitsForIt`). A left side forked by a stage leaves the terminal with its first dup2, before it can run anything. |
| `ShellProofs!TablesTyped` | `Spec => []TypeOK` | TInv beside IInv: a process that ended holds no descriptor (`EndedAreEmpty`), a process's parent is another one that lives, or init (`ParentsLive`), because exit hands the children over in the same step, and what descriptors refer to never goes away (`DescriptorsName`). That five descriptors are enough is `Disciplined` once more |
| `ShellProofs!InputTyped` | `InputSpec => []InputTypeOK` | IType is InputTypeOK with the types of what the processes hold. What fgets takes is a least element (`TakenIs`), which leaves a place for the NUL; what a read returns fits stdio's buffer and is there (`AmountsAre`); and the seek of a process that ends happens only where the offset is at least as far in the file (`EndsInFile`), whoever moved it since |
| `ShellProofs!TerminalLinesWhole` | `InputSpec => []LinesStayWhole` | InputInv adds, for a terminal whose lines fit stdio's buffer: the offset is between two lines or where a process other than main stopped reading, whoever reads (`AtBoundary`), and what fgets and stdio hold together is the rest of one line, from a place where a piece begins (`HoldsRest`). So a read happens only when fgets has nothing yet (`RefillLines`), and what fgets returns with is a piece (`LineIsPiece`), after which the rest begins with the next (`RestFollows`) |
| `FormatProofs!TypeCorrect` | `Spec /\ []ArgumentsMatch => []TypeOK` | Inv. The hypothesis is about the caller and the run checks it of its calls, as a part of TypeOK. That the format ends with its NUL keeps every scan of digits inside it. `NumberAhead` and `Digits` are recursive functions: that such a function exists is proved by extending one from 0 on, and that its values are numbers, or characters, by the least counterexample (`UpTo`, `LeastExists`) |
| `FormatProofs!BufferIsSafe` | `Spec /\ []ArgumentsMatch => []BufferHoldsPrefix` | until vprintfmt returns, cnt is the length of the output (`Counting`) and the buffer holds as much of its beginning as n - 1 places can (`Filling`): a prefix of a sequence's prefix and what follows is the prefix of both together |

`BinarySearchCorrect` holds for every table in which the entries of the type are in
order and no two are one byte apart; section 3 tells what happens when two are.
The backwards scans are maxima of finite sets of entries; that
they exist is proved with the well-foundedness of the natural numbers.

Only model-checked, since no prover here does liveness or an induction over data: what
is to happen in the end (delivery, termination, quiescence, the end of a sleep); and four
invariants that compare with a reference, where each side is defined by recursion or a fold
over what the other goes through step by step: that a pipeline writes what it would write
stage by stage (`OutputAsSequential`), that lines of the shell run as the trees they mean
(`CommandsAsTyped`), that a format prints what its directives mean (`OutputAsSpecified`)
and what the string routines answer (`StringsAsSpecified`).

## 5. Plan

Done: ConsoleInput with InputQueue, Shell with ShellReference, ShellInput with
ShellParser and ShellGrammar, StabSearch with KDebug, Keyboard, CgaScreen with
LineEditor and Monitor, BootLoader with KernelStart and Backtrace, Format with
FormatReference, Strings, Syscalls; and the theorems of section 4, which cover every
safety property of the runs but the four named there.

Not modelled:

- `_panic` beyond being called: the only caller in this kernel is `debuginfo_eip`, for a
  user's address, which no frame holds (`BacktraceListsCalls`); it prints and calls
  `monitor` for ever. Nothing calls `_warn`.
- The ports that colours, serial and parallel output and the hardware cursor go through:
  they keep no state that the program reads back.
- Build scripts, grading, the shell's skeleton, notes and code that no target builds.
