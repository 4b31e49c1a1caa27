# TLA+ verification of the zbiggie kernel

zbiggie (`src/student-distrib`) is a small protected-mode x86 kernel: three
terminals on one keyboard and one text-mode screen, a base shell on each, a
round-robin scheduler driven by the PIT, ten system calls, an RTC driver and a
read-only file system, with the programs that come with it (`src/syscalls`,
`src/fish`).  This directory holds TLA+ models of both, the TLC configurations
that check them on small instances, and TLAPS proofs.

Everything below is translated from the C and assembly sources; comments and
headers are used only to find out what the code is meant to do.  `PROJECT.json`
maps every definition to the lines it models.

## 1. The system

| Component | Source | State | Operations | What makes it correct |
|---|---|---|---|---|
| Process table, `execute`, `halt` | `tasking.c`, `syscall.S`, `syscall_funcs.c` | PCBs (`present`, `parent`, saved stack pointer), one kernel stack per pid, `current_process` | `find_free_pcb`, `setup_new_process`, `execute`, `kexecute`, `halt`, `free_current_pcb` | a PCB belongs to one live program; `halt` returns to the program that executed |
| Scheduler | `tasking_funcs.S`, `tasking.c` | `processes[]`, `current_active_process` | `next_task`, `launch_new_shell`, `switch_context` | a preempted program continues exactly where it was; everybody gets a turn |
| Line editor, history | `terminal.c` | `buffer`, `cur_pos`, `cur_size`, `history`, `hist_index`, `hist_bottom` | `term_putc`, `term_read`, `save_hist`, `up_hist`, `down_hist`, cursor keys | the program reads the line the user saw; Up and Down walk the executed lines |
| Console multiplexing | `terminal.c`, `idt_funcs.c` | `current_terminal`, `wait_for_nl[]` | Alt-Fn, `term_read`, `save_hist` | a line reaches the program of the terminal it was typed on |
| Keyboard handler | `idt_funcs.c` | modifier flags | `key_handler` | a key does what the modifiers under the fingers say |
| RTC driver | `rtc.c`, `idt_funcs.c` | `rtc_f`, the chip's rate | `rtc_open/read/write`, `rtc_handler` | a read waits for one interrupt and returns after it, at the rate asked for |
| Descriptors, file system | `zbigfs.c`, `tasking.c`, `syscall_funcs.c` | the PCB's `f[]`, file positions | `open`, `close`, `read`, `write` | no descriptor leaks; reads give the file in order; only existing names open |
| Arguments | `syscall_funcs.c` | the PCB's `cmdstring` | `parse_input`, `getargs` | a program gets the arguments of its own command line |
| Screens | `lib.c`, `page.c` | video pages, the page mapped at VIDEO, `screen_x/y` | `putc`, `mt_putc`, `scroll`, `scoot_text`, `clear`, `switch_video` | every terminal has its own screen, shown or not |
| Interrupt controllers, boot | `i8259.c`, `kernel.c` | the two 8259s, what is initialised | `i8259_init`, `enable_irq`, `send_eoi`, `entry` | every device that asks is served; no handler runs before its data exist |
| Exceptions | `idt_funcs.c` | none | handlers | the faulting program is halted (after `reserved_1` and `invalid_TSS` it hangs) and the others go on |
| Shell, cat, ls, grep | `src/syscalls` | a descriptor or two, a buffer | one system call after another | they print all of a file, all names, all matching lines, once and in order |
| System call tests | `src/syscalls/ece391syserr.c` | failures counted | eight series of calls that must fail | they pass, whatever ran before |
| fish | `src/fish` | two frame files, `blink_array`, `mp1_list_head` | `add_frames`, `mp1_ioctl_add/remove/find/sync`, `mp1_rtc_tasklet` | both frames are shown; the list loses no blinker; phases last as long as asked |
| Paging, descriptors, library, other programs | `page.c`, `x86_desc.S`, `lib.c`, `src/syscalls` | | | see section 7 |

How the parts interact.  There is one processor; concurrency comes from
interrupts.  The PIT's handler `next_task` replaces the running program by the
next terminal's, on that program's kernel stack.  System calls enter through a
**trap** gate (`populate_idt` sets `reserved3 = 1` for vector 0x80), so they run
with interrupts enabled and can be preempted between any two instructions; and
routines that protect themselves with `cli` end in an unconditional `sti`
(`switch_context`, `putc`), which enables interrupts also for a caller that had
disabled them.  The keyboard handler edits the buffer of the terminal on the
screen (`current_terminal`), programs run for the terminal whose turn it is
(`current_active_process`), and most of the hard cases of this kernel are code
that uses one where the other changes in between.

Hard behaviours, each listed at its line in `PROJECT.json` under "hazards":
ticks inside `setup_new_process`, `halt` and `next_task` itself; kernel stacks
shared by a preempted program and the shell launched on top of it; values
(pid, parent, free PCB) read before and used after a preemption; Enter, Alt-Fn
and type-ahead racing the moment the scheduler gets back to the reader; one
flag for all RTC readers and one index port for all accesses to the chip; boundary cases of buffers, history ring, rows, blocks
and names; the order of words to the interrupt controllers and of boot; and, in
the programs, lines cut by the end of a chunk, frames of different shapes, what an
earlier program left behind, and a list whose links live in slots that are freed
and taken again.

## 2. Plan

Order of work, most important first.

1. `Tasking` with its abstract promise `ProcTree`; the first proofs. *(done)*
2. The terminal: `LineEditor`, `Console`, `Keyboard`. *(done)*
3. Devices and files: `Rtc`, `Files`, `Args`, `Pic`. *(done)*
4. Screens: `Screen` implementing the abstract `Display`. *(done)*
5. The programs above the system calls: `Programs` on top of `Files`; the
   driver of fish, `Blink` implementing `Blinkers`; `term_read`'s copying loop
   cell by cell in `Console`. *(done)*
6. Later, modelling: the redrawing of a recalled line against the screen
   (`write_x`, `write_y`, which `scroll` moves), composing `LineEditor` and
   `Screen`; keyboard and RTC frames on the kernel stacks of `Tasking`.
7. Proofs: contexts, frames, PCBs and the refinement of `ProcTree` for ticks at
   `SafePoints`; the invariants and action properties of `Rtc`, `Console`,
   `Files` and `LineEditor`; that `Screen` implements `Display`. *(done)*
8. Proofs: what cat, ls and the system call tests do (`Programs` on top of the
   lemmas about `read_data`), the list of `Blink` and its refinement of `Blinkers`,
   `ArgsOfOwnCommand`, `KeysFollowFingers`. *(done)*

Modules and how they fit:

    ProcTree  <--refined by--  Tasking      Display  <--refined by--  Screen
                                  |                                      |
                              TaskingProofs                         ScreenProofs

    Blinkers  <--refined by--  Blink <- MCBlink
                                  |
                              BlinkProofs

    Files <- Programs <- MCPrograms       LineEditor       Console  Keyboard
                |                             |               |        |
            FilesProofs               LineEditorProofs      ConsoleProofs

    Rtc <- RtcProofs          Args <- ArgsProofs          Pic

`Tasking` instantiates `ProcTree` with a refinement mapping, `Screen` `Display`
and `Blink` `Blinkers`; `Programs` extends `Files`, so that a program's step is
the system call of `Files` with what the program does about its result; the proof
modules extend the module they prove about (`ConsoleProofs` takes `Keyboard`, and
`TaskingProofs` `ProcTree`, as an instance); the `MC` modules give disk images and
blinkers.  The other modules share no state: each
takes from its neighbours only what it names in its header (for example `Args`
and `Console` rely on the scheduler bringing back the process it interrupted,
which is what `Tasking` checks).  Every definition named as a mutant is a
plausible slip in the code it stands beside, kept to show that the property
named with it in `PROJECT.json` notices it.

## 3. Modules and the code

**ProcTree** is what `execute` and `halt` promise: each terminal has one running
program (`leaf`), every program knows which program executed it (`caller`), the
scheduler moves `active` round robin and starts a shell on a terminal that has
none.  `NoOrphans`: every live program is on one terminal or waits for one live
program.

**Tasking** models the same in the steps the code makes.  `cpu.pc` is a point
between two calls of `load_exec_to_mem`, `setup_new_process`, `halt`, `kexecute`
or `next_task`; `find` to `load` are the points of `execute`, `kfind` to `kload`
those of `kexecute`, `halt`, `freed`, `parent`, `unwind` those of `halt`, and
`resume` the point of `next_task` after `switch_context` has enabled interrupts
and before the next stack is loaded.  A kernel stack is a sequence of frames; a
push destroys what lay above.  `Tick` (`SwitchTask`, `LaunchShell`,
`LaunchFails`) may happen in user mode, in a spinning read, in an exception handler
that never returns (`hang`), and at the points in
`TickPoints`.  The code allows it at all of them: the constant exists to ask
which windows matter.  `saved` and `caller` are history: where a terminal was
really preempted, and who really executed whom.  An exception (`Fault`) ends in
`halt` or, for `reserved_1` and `invalid_TSS`, whose handlers loop for ever, at
`hang`: that terminal is lost and the others must keep their turns.

**LineEditor** is one terminal.  `buffer`, `cur_pos` and `cur_size` are the
code's; `want` and `at` are the line and cursor of the editor the comments
describe (Backspace in the middle of a line leaves a blank, as terminal.c:132
says).  Keys are split into classes so that a run can leave one out: `slip` is
Backspace on an empty line or one place before the line's end, `fn` an unmodified function key, which inserts a
NUL.  `col` is the screen column counted from the mark that guards Backspace.  A
second Enter before the first line has been copied overwrites it: the model counts
the line as spoiled.  `term_read`'s other bound, `numbytes`, is 1023 in the shell
and larger than the buffer, so the newline always ends the loop first.

**Console** is all terminals; a character is the terminal it was typed on, so that
a mix-up of terminals is visible.  `term_read` waits (`waits`), leaves its loop
and moves the cursor under `cli` (`term_read_release`), and then, because `putc`
has enabled interrupts again, copies and clears one cell a step (`copies`), with
Alt-Fn, ticks and other readers in between.  `save_hist`, called from `execute`,
is split the same way (`executes`, `saves`): it looks up the terminal on the screen
for every character, and `saved` records whose history each one went to.

**Keyboard** is the decision part of `key_handler`.  Alt and Caps Lock have one flag
each; Shift and Ctrl one for each terminal.  `held` are the keys really down, and
`carried[m]` the terminals left or entered with modifier m down and not yet put
right by a press or release of m there.

**Rtc** has the flag `rtc_f`, the chip's registers and its one index port.
`change_rtc_freq` is three steps, the selection, the read and the write of register
A, with `cli` before and `sti` after them; `rtc_handler` selects and reads register
C through the same port, and must, before the chip interrupts again.  `RateTable`
are the ten cases of the `switch` with the constants of `rtc.h`, `Frequency` is the
chip's own rule.  `asked` is the frequency of the last request answered with 0,
`reply` the request answered in the last step.

**Files** is one process's descriptor table over a small disk image; bytes are
pairs <<block, offset>>, so that a wrong block or offset cannot look right.  An
open takes a descriptor (`Take`) and, when no name matches, gives it back
(`free_fd`).  A read of the directory copies the name as `strncpy` does, cut to the
count; a name that fills its field has no terminator and is followed in memory by
the type of its entry (`fname_field`), one byte of which a read longer than the
field hands over too.  `seen` is what the reads of a descriptor have given.

**Programs** runs one program after the other on `Files`, as the shell does.  `pc`
is the system call the program is about to make, `local` its variables, `out` what
it has printed; `open` and `read` of `Files` are used as they are, and `last`
holds the result and the data.  `text` gives the bytes of the disk their
characters; only grep and fish look at them, so it is chosen, in every way, when
one of these starts.  The system call tests are lists of calls with what is wanted
of each (`Tests`); `local.test` and `local.step` say which call comes next.  grep's buffer has its `BUFSIZE + 1` bytes, the last one being
whatever the stack holds.  `other` is a program that makes any calls, so that the
tests and the others start after every history of the process before them;
`Fault` ends a program anywhere.  The pointer check `usr_ptr_ok` is modelled where
a program depends on it.

**Blink** is the driver fish links: slots, a list through their `next` fields from
`mp1_list_head`, a slot being free when its location is 0, and a countdown of one
word compared as signed (`SignBit` is 2^15 in the runs).  `age` and `glitch` are history: how long a blinker has been
in its phase, and whether it was synced in it.  **Blinkers** is the promise: a
sequence of blinkers, newest first, without slots or links.

**Args** splits `execute` at the points
where other terminals run: the arguments are parsed in the caller, wait on its
kernel stack, and are stored in the new PCB.

**Screen** has the monitor's page, one page per terminal, and the one page-table
entry through which background terminals and `vidmap` users write.  A step is one
character: interrupts are enabled between the characters of `term_write`.
**Display** is the promise: independent screens, on which text flows from cell to
cell.

**Pic** sends the controllers the words of `i8259_init`, `rtc_init` and `entry` in
the order and to the ports the code uses, bytes being sets of bits, and lets the
handlers nest as their `sti` before `send_eoi` allows.  The chips themselves are
external; they are modelled after the emulator the kernel is developed on.

## 4. The runs

Deadlock is checked in all passing runs but `races`, where a kernel that has run
away really stops, as does one whose stack is at its bound.

| Run | Shows | Bounds |
|---|---|---|
| `tasking` | `ContextIntegrity`, `CallerFrameIntact`, `UserContextMatches`, `NotCrashed`, `PcbAccounting`, `HaltReturnsToCaller`; `Tasking` implements `ProcTree` (`TreeSpec`) | 2 terminals, 4 pids (two programs above the shells), stacks of 3 frames, ticks at all `SafePoints` |
| `round_robin` | `EveryTerminalRuns` (liveness) | 2 terminals, 3 pids |
| `races` | `NeverBackToBoot` with ticks also in the unsafe windows, early executes and a full PCB table | 2 terminals, 3 pids, 2 frames |
| `line_editor` | `CleanLineMatches`, `CleanReadReturnsLine`, `HistoryOrder` | buffer of 3, history ring of 4 slots (two lines, so it wraps), Down on an empty line |
| `rtc` | `NoEarlyReturn`, `FrequencyAsAsked`, `OnlyPowersOfTwo`, `NotAllStuck` (liveness) | 3 programs on one flag and one chip, each port access a step; every power of two from 1 to 2048 and some others |
| `console` | `StayedOwnLine`, `OwnHistory`, `EnterReleases` (liveness) | 2 terminals, empty lines and lines of one character (two rounds of the copying loop, two writes of `save_hist`) |
| `keyboard` | `KeysFollowFingers` | 3 terminals, 4 modifiers, held and released across any Alt-Fn |
| `programs` | `FdAccounting`, `OpenFindsName`, `ReadsInOrder`, `OutputComplete`, `GrepFindsLines`, `SyserrPasses`, `FramesComplete` | 5 descriptors, 4 entries, blocks of 2 bytes, files of 2 and of 5 characters with every text over two letters and newline (fish: a letter, space and newline), a buffer of 3 for cat and grep, reads of 0, 1 and 5 bytes, names up to the full field of 4 (3 of which are compared), 2 files open at once in a program that makes any calls |
| `blink` | `Blink` implements `Blinkers` (`Implements`), `ShownRight`, `PhaseLasts` | 3 slots, 3 places (one blinker beyond the screen), lengths 0, 1 and 2, two blinkers on one place included |
| `args` | `ArgsOfOwnCommand` | 2 terminals, 4 pids, every line of up to 3 characters (letter, space, newline) |
| `screen` | `Screen` implements `Display` (`DisplaySpec`) | 2 terminals of 2x2 cells, two cell contents |
| `pic` | `Served` (liveness) | keyboard, PIT and RTC, any nesting |

Why the bounds are enough: each case the hazards name needs at most two actors in
a window and one level of nesting more than the trivial one.  Two terminals make
every pairwise race.  Four pids with two terminals allow a chain shell, program,
program and, at the same time, exhaustion of the table.  Stack depth 3 bounds
nothing in `tasking`: no stack ever holds a third frame (a system call and a tick
in it are the most).  Buffers of 3, rings of 4, rows of 2 and blocks of 2 reach
every wrap and every boundary from both sides.  A file of 5 characters in a buffer
of 3 gives grep a line in one chunk, across two, carried over with a rest of 1 and
of 2, filling the buffer, and cut by the end of the file; two frames of 2 and 5
characters are each the shorter and the longer one, in rows and in columns.  A
series of opens fills the 5 descriptors in the tests; three slots allow a removal
from the head, the middle and the end of the list, and a full array.

Some properties of the terminal are conditional, because the code does not keep
the unconditional ones (next table).  `clean` says that the line being edited was
put together without a Backspace slip, a function key's NUL, Down on a line
already begun, the recall of a line that fills the buffer, or a key between Enter
and the copy in `term_read`; `cleanRead` the same of the line Enter finished.  The
run has the NULs and the type-ahead in it, and shows that nothing else spoils a
line and that they do not outlive the next Enter, Up or Ctrl-L.  Slips, and Down
on a line already begun, are left to their own configurations: in the run they
multiply the states beyond reach.  `stayed` is
the same idea in `Console`: the terminal has been on the screen since Enter and no
program left behind on another terminal has taken a cell of its line.
`KeysFollowFingers` speaks of a key on a terminal whose Shift or Ctrl flag is not
`carried`.
`GrepFindsLines` is about text files whose lines fit the buffer and a stack byte
that is not a newline; `ShownRight` leaves out places that had two blinkers, and
allows a blinker synced with a lit one to show its off character until its next
turn.

### Disagreements

Each of these configurations makes TLC exhibit a place where the code does not do
what a comment, header or test of the repository says, or what a program is for.
They are kept beside the runs and started the same way (`tlc -config <file>
<module>`).

| Configuration (module) | Property violated | What happens, and the statement it contradicts |
|---|---|---|
| `TaskingResumeRace` (Tasking) | `ContextIntegrity` | tasking.c:200: `switch_context`'s `sti` lets a tick in before `next_task` has loaded the next stack; the PCB then points to another program's stack.  tasking_funcs.S:35 "restore old stack w/ iret context of next task" |
| `TaskingUnwindRace` (Tasking) | `CallerFrameIntact` | syscall.S:66: the same `sti` inside `halt`: the parent's saved stack pointer is overwritten.  syscall.S:67 "restore old stack" |
| `TaskingClaimRace` (Tasking) | `ClaimedPcbIsFree` | tasking.c:175: two terminals take the PCB both found free.  tasking.c:19 "finds next free pcb" |
| `TaskingEarlyExec` (Tasking) | `HaltReturnsToCaller` | syscall.S:62: a program executed before all shells run gets a pid below 4, and its `halt` starts a shell.  syscall.S:56 "returns control to program that executed current program" |
| `LineSlip` (LineEditor) | `ReadReturnsLine` | terminal.c:137: Backspace on an empty line makes `cur_size` negative, and Enter puts the newline there.  terminal.c:316 "the last full terminal buffer terminated in a new line" |
| `LineTypeAhead` (LineEditor) | `ReadReturnsLine` | terminal.c:332: keys after Enter edit the finished line before `term_read` has copied it.  terminal.c:316 |
| `LineDown` (LineEditor) | `LineMatches` | terminal.c:300: `down_hist` does not reset size and cursor.  terminal.c:281 "restores next buffer from history" |
| `RtcStarvation` (Rtc) | `ReadReturns` | rtc.c:63: a reader that reads again at once takes the interrupt from another one, for ever.  rtc.c:58 "Waits for the next RTC interrupt" |
| `ConsoleSwitch` (Console) | `OwnLine` | terminal.c:332: `term_read` copies the buffer of the terminal on the screen.  terminal.c:316 |
| `KeyboardHeld` (Keyboard) | `SignsFollowFingers` | idt_funcs.c:439: a Shift released on another terminal than it was pressed on stays set on the first, which goes on shifting; idt_funcs.c:437-453 clears the flag of the terminal on the screen only |
| `FilesLongName` (MCPrograms) | `OpenFindsFullName` | zbigfs.c:145: 31 characters are compared, so a file with a name of 32 opens whatever the last one is (the configuration has a field of 4; `fsdir/verylargetxtwithverylongname.txt` is such a file).  src/syscalls/ece391syserr.c:135 expects the open of a slightly wrong name to fail |
| `ScreenLongLine` (Screen) | `DisplaySpec` | lib.c:334: `mt_putc` tests the foreground's column, so a long background line does not wrap.  lib.c:309 "Output a character to the console of current process" |
| `ScreenInsert` (Screen) | `DisplaySpec` | lib.c:485: `scoot_text` overwrites a row's first cell before moving it.  lib.c:478 "scoot all text after cursor over to the right" |
| `ArgsTruncated` (Args) | `TruncationReported` | syscall_funcs.c:61: `getargs` takes an address for a byte count and always reports success.  syscall_funcs.c:60 "if it is not all copied, return -1" |
| `PicEarlyTick` (Pic) | `TickFindsKernelReady` | kernel.c:286: interrupts are on before paging, file system and PCBs exist; kernel.c:275-278 gives the other order |
| `PicWords` (Pic, `tlc -continue`) | `BothInitialized` | i8259.c:32: the slave's third and fourth words go to the master.  i8259.c:23 "Send the 4 control words to the master and slave PICs" |
| the same | `SlaveEoiReachesMaster` | i8259.c:96: the byte the master gets for the slave's interrupt is not an EOI.  i8259.c:91 "If interrupt came from slave, send EOI to both" |
| `GrepStack` (MCPrograms) | `GrepFindsLinesAnyStack` | ece391grep.c:33: when the buffer is full to its end `data[BUFSIZE]`, which was never written, decides whether a line is complete; if it holds a newline, a line across two chunks is searched in two halves.  ece391grep.c:34 "copy from line_start to last down to 0" |
| `GrepBinary` (MCPrograms) | `GrepFindsLines` | ece391grep.c:36: the rest of a chunk is moved with `ece391_strcpy`, which stops at a NUL; in files that are not text (the executables of the same directory) the moved line keeps old bytes |
| `ShellHaltCode` (MCPrograms) | `NoSuchCommand` | syscall.S:69: `halt` returns all 32 bits of its argument, so fish's `halt(-1)` looks like a failed `execute` and the shell says "no such command" (ece391shell.c:29) of a program that ran |
| `BlinkSync` (MCBlink) | `ShownAlways` | blink.S:282: `cmovl` after `testb` is never taken, so sync shows the off character of a blinker that is lit, against the choice blink.S:279-282 prepares |
| `BlinkCorner` (MCBlink) | `Implements` | fish.c:165: location 0 marks a free slot, and blink.S:132 "Check that the location is valid" lets a blinker at location 0 in; its slot is taken again while on the list, which then closes on itself |
| `BlinkSlow` (MCBlink) | `PhaseLasts` | blink.S:66: a length of 2^15 or more is negative to `jg` and its phase ends at once (the configuration has words of three bits) |

The passing runs of the same modules say what is left when the window or input in
question is avoided.

A remark on `pic`: the kernel's interrupts work although three of its statements
about the 8259 are wrong, because the errors cancel.  The master takes
`ICW3_SLAVE` (0x02) as its fourth word and thereby enters automatic-EOI mode, so
the ineffective EOI for the cascade line does no harm; the slave takes the mask
`rtc_init` writes through `enable_irq` (which sets the bit instead of clearing
it) as a missing initialisation word, so the RTC stays unmasked.  With only the
ports of `i8259_init` corrected `Served` fails: all of it has to be repaired
together.  Boot's `clear()` and `printf()` have executed `sti` even before the
IDT is loaded; that this is harmless rests on the masks the BIOS leaves.

## 5. Fairness

* `Tasking`: strong fairness of `Tick` (a PIT request stays pending in the 8259
  while interrupts are off, and they are off only for bounded stretches), weak
  fairness of `Resume`, and strong fairness of each terminal's kernel work: the
  PIT's period (55 ms) is many times a kernel path, so time slices do not all end
  before a step is made.  Nothing is assumed of user programs.
* `Rtc`: the chip interrupts again once acknowledged; the handler runs and the PIT
  ticks (strong fairness: a request stays pending in the 8259 while
  `change_rtc_freq` has interrupts off); a program in `change_rtc_freq` goes on; and
  a spinning program looks at the flag again and again while it has
  the processor (strong fairness, as the processor comes and goes).  Nothing
  makes a program call `rtc_read`.
* `Console`: the same for the programs; nothing is assumed of the user.
* `Pic`: boot and handlers run on; an interrupt reported again and again is
  taken.  `Raise` is not fair.  A device does not ask again while another one it
  has already overtaken waits: handlers take microseconds, the fastest device
  asks every millisecond.

## 6. Proofs

Every theorem holds for every value of the constants its module's assumption
allows: any number of terminals, pids, stack entries, descriptors, any buffers,
screens, disk images and inputs.  The assumptions (`TaskingConstants`,
`EditorConstants`, ...) say what the code's own constants and a well-formed disk
have: `FlatDirectory`, that the image has the entry "." and no other directory;
`ArgsConstants`, that a line is shorter than the buffers; `BlinkConstants`, that
lengths fit their word; `SyserrConstants`, that the names `err_open` tries are
shorter than what is compared and not in the directory.  TLC evaluates them in the
runs.  Some theorems have a hypothesis more, stated in their `ASSUME`: it leaves
out the case the code does not handle, for which a configuration of section 4 shows
what happens (the tasking races for `SafeTicks`, `BlinkCorner` and `BlinkSlow` for
`NoCorner` and `NotSlow`, `ScreenLongLine` and `ScreenInsert` for `LongLines` and
`GoodLines`).

| Module | Theorem | Property | Hypothesis |
|---|---|---|---|
| `TaskingProofs` | `TypeCorrect` | `TypeOK` | |
| | `NeverBack` | `NeverBackToBoot` | |
| | `ContextsIntact` | `ContextIntegrity` | `SafeTicks` |
| | `CallersIntact` | `CallerFrameIntact` | `SafeTicks` |
| | `UserInOwnProcess` | `UserContextMatches` | `SafeTicks` |
| | `NeverCrashes` | `NotCrashed` | `SafeTicks` |
| | `PcbsAccounted` | `PcbAccounting` | `SafeTicks` |
| | `HaltsToCaller` | `HaltReturnsToCaller` | `SafeTicks` |
| | `ClaimsAreFree` | `ClaimedPcbIsFree` | `SafeTicks` |
| | `ImplementsTree` | `TreeSpec` (refinement) | `SafeTicks` |
| | `TreeNoOrphans` | `NoOrphans` of `ProcTree` | |
| | `NoProgramLost` | `NoOrphans` of `Tasking` | `SafeTicks` |
| `LineEditorProofs` | `EditorTypeCorrect` | `TypeOK` | |
| | `BufferHoldsLine` | `CleanLineMatches` | |
| | `ReadsEnteredLine` | `CleanReadReturnsLine` | |
| | `HistoryInOrder` | `HistoryOrder` | |
| `ConsoleProofs` | `ConsoleTypeCorrect` | `TypeOK` | |
| | `StayedReadsOwnLine` | `StayedOwnLine` | |
| | `SavesOwnHistory` | `OwnHistory` | |
| | `FollowFingers` | `KeysFollowFingers` of `Keyboard` | |
| `RtcProofs` | `RtcTypeCorrect` | `TypeOK` | |
| | `RateAsAsked` | `FrequencyAsAsked` | |
| | `ReadWaits` | `NoEarlyReturn` | |
| | `RatesArePowers` | `OnlyPowersOfTwo` | |
| `FilesProofs` | `FilesTypeCorrect` | `TypeOK` | |
| | `NoFdLeaks` | `FdAccounting` | |
| | `ReadsAreInOrder` | `ReadsInOrder` | |
| | `OpensByName` | `OpenFindsName` | |
| | `ProgramsKeepFiles` | `TypeOK`, `FdAccounting`, `ReadsInOrder` under `ProgSpec` | |
| | `OutputIsComplete` | `OutputComplete` | |
| | `SyserrAlwaysPasses` | `SyserrPasses` | |
| | `GrepStaysInBuffer` | `GrepInBuffer` | |
| `ArgsProofs` | `OwnArguments` | `ArgsOfOwnCommand` | |
| `BlinkProofs` | `BlinkTypes` | `TypeOK` | `NoCorner` |
| | `PlacesShowPhases` | `ShownRight` | `NoCorner` |
| | `PhasesLast` | `PhaseLasts` | `NoCorner`, `NotSlow` |
| | `BlinkersKept` | `Implements` (refinement) | `NoCorner`, `NotSlow` |
| `ScreenProofs` | `ScreenTypeCorrect` | `TypeOK` | `LongLines = FALSE` |
| | `ImplementsDisplay` | `DisplaySpec` (refinement) | `GoodLines` |

The arguments, module by module.

**TaskingProofs**, the first part, allows every set of tick points, that is also the
unrestricted interleavings of the code.  `TypeOK` alone is not inductive: a stack switch pops
the frame at a saved address, and that the address is still in range after the
pop needs that depth 0 holds no frame; `TypeInv == TypeOK /\ EmptyBottom` adds it.
For `NeverBack`, `halt` makes `parent[current_process]` current, so the proof must
know that no process halt treats as a child has parent 0, and that this holds for
every process some frame, on whatever stack, can still bring back, including
frames of programs that are long gone and PCBs used twice because of the races.
`IInv == TypeInv /\ BootInv`, where `BootInv` says it of the current process, the
queue, the processor's context (`CtxGood`) and all frames (`FramesGood`).

Its second part assumes `SafeTicks`: ticks in user mode, in a spinning read
and at the `SafePoints` of `execute` and `halt`, and no `execute` before every
terminal has its shell.  Without it the theorems are false: `TaskingResumeRace`,
`TaskingUnwindRace`, `TaskingClaimRace` and `TaskingEarlyExec` each open one window
and break one of them.  The inductive `SafeInv` has these parts.  `CpuInv`: what
the running context holds at each point and which stack and depth it is on;
`execute` goes on, on the caller's stack, after it has switched to the new process,
which is why the stack is a function of the context (`StackOf`) and not just the
pid.  `SavedInv`: the same of each preempted context, which lies where its PCB
points, its frame on its own stack.  `ChainInv`: the chains of callers end in the
base shells, never meet, and their ends are the programs on the terminals; two
contexts are therefore on different stacks, and a push on one cannot hit the
other.  `WaitInv`: a program waiting in `execute` has its call's frame at the
bottom of its stack.  `PresentInv` and `ClaimInv`: which PCBs are taken, and that
two contexts never set up the same one.  `LaunchInv`: shells come up in the order
of their pids, so that the tests for pids below `ShellLimit` are tests for base
shells.  The refinement needs no more than `SafeInv`: a step of the tree happens at
`EnterPcb`, `KEnterPcb`, `SwitchToParent` and at a tick, and every other step leaves
`leaf` and `caller` as they are.

Its last part is about the abstract specification: `NoOrphans` with the types is
inductive in `ProcTree`, one case per action (`StartShell` is a lemma because a
tick and a halting shell both use it), and with the refinement it is a fact about
`Tasking` (`NoProgramLost`): the invariant of the small specification carries over
to the kernel with its stacks and interruptible steps.

**LineEditorProofs**: `EditInv` says of the buffer that, while `clean`, it holds
`want` in its first `Len(want)` cells, with size, cursor and a cell left for the
newline (`CleanInv`); of a finished line, that what the copying loop will find is
what was entered (`ReadInv`); of the history, that every slot is a line the reader
would take whole (`HistoryInv`), as a recall copies it into the buffer.  For the
history's order `RingInv` measures slots by their distance below `hist_bottom + 1`
around the ring: the k-th newest line lies at distance 2k, every other slot is
empty, and the index is where `back` says.  `HIST_SIZE` must be even, as it is (50):
`save_hist` advances by two.

**ConsoleProofs**: `StayInv` says of a line whose user stays that the cells already
copied are its first characters and the cells not yet copied still hold the rest
and the newline.  It needs `BufferInv`: a buffer holds only its own terminal's
characters, and its last cell never holds one, so that every copying loop ends in
the buffer, also one that has gone over to another terminal's in the middle.
The same invariant says of a line already copied that it is the line typed, and of
one being saved that every character so far went to the terminal's own history.
The keyboard's part: `KeysInv` says of every terminal that is not `carried` for a
modifier that its flag is set exactly while the key is down and the terminal is on
the screen.  Alt-Fn leaves the flags with the terminal that is left; a press or
release of the key there puts the flag right again, whatever it was.

**RtcProofs**: `FlagInv`: while the flag is clear every waiting program has seen an
interrupt since it set it; this is why one flag for all readers can lose wake-ups
but not invent them.  `PortInv`: a program inside `change_rtc_freq` has interrupts
off and the processor to itself, so the index port stays on register A from the
selection to the write, and the high bits it writes back are the time base.
`RateInv` ties the chip's rate to the frequency accepted last: each of the ten
pairs of constants in the `switch` is compared with the chip's formula
(`Frequency(15) = 2` to `Frequency(6) = 1024`), and `ReplyInv` says that the
requests answered with 0 are exactly the ten powers of two in 4 bytes, which also
needs that none of their rates is refused by the range check.

**FilesProofs**: `TableInv`, `OwnedInv` (each open descriptor's position and data
are those of the reads so far) and `FullInv`.  What `read_data`'s loop over blocks
copies is proved for every file, position and size: `CopyBlocksSegment` says that
it is the segment of the file asked for.  The library's induction theorems cannot be
instantiated here; instead, the segments are shown to solve the loop's recursive
equation, and no other function does, as there would be a last place where it
differs (`CopyUnique`, by `LeastElement`, from the well-foundedness of `<` on sets).
For the directory, `ShownInv` and the pieces in `seen` say that the k-th read shows
the k-th name, cut to its count (`PieceShows`: what `strncpy` gives of a field with
or without a terminator).  `OpensByName` has no condition on names: `StrncmpCut`
shows that `strncmp` over `FNAME_MAX_LEN - 1` characters succeeds exactly when the
two names cut to that length (`Cut`) are equal, so a descriptor leads to the first
entry with that name.  That full names are told apart is what `FilesLongName`
refutes.

The programs start from these lemmas.  `BaseInv` is the invariant of the table,
that a program starts with nothing open (`StartInv`), and that grep's indices are
in its buffer (`GrepInv`: what is left of a chunk and what is read behind it fit,
for any text).  For cat and ls `OutInv` says that what has been printed is the
file or the directory up to the descriptor's position; a read that returns nothing
is at the end (`ReadDataCount`), so what is printed then is all.  For the tests
`SysInv` says that no call was other than wanted so far, that nothing is open
between the tests, and, inside `err_open_lots`, which descriptors are open before
each step (`Held`: the opens take them in order, the closes give them back in
order) and that the one failed open has been counted once all are taken.  Each
call of the other tests is one that fails when nothing is open (`Refusable`,
`CallRefused`): a name shorter than what is compared is found only if it is there.

**ArgsProofs**: first what `parse_input` computes: `StopAt` and `SkipSpaces` are scans
through the line, and the piece between two stops is the rest of the line after
the command, whatever spaces surround it.  Then `Inv`: the processes in the
terminals' chains are all different (`ChainInv`), and the arguments of a command
are, while it is being loaded, on the stack of the `execute` that parsed them, and
then in the PCB of the process it entered (`InFlight`, `Stored`).  The window is
between entering the new process and storing: `ChainInv` is what makes the process
entered the one stored to.

**BlinkProofs**: a list is described by the sequence of its slots (`IsList`): each
slot once, the links as the sequence says, and the slots of the sequence exactly
those in use.  `WalkFinds` shows that following the links gives this sequence and
`DropList` and its neighbours what an insertion at the head and a removal from the
head, the middle or the end make of it; this is all the pointer reasoning there
is.  `ShownInv` ties the screen to the phases, `PhaseInv` the countdown to the
length of the phase and the ticks gone by.  For the refinement, the list's
sequence mapped to its blinkers is the sequence of `Blinkers`.  `NoCorner` leaves
out location 0 (`BlinkCorner`; fish draws from column 40 on), `NotSlow` lengths
beyond the sign bit (`BlinkSlow`).

**ScreenProofs**: `Inv` adds to the types that the page mapped at VIDEO is the page
of the active terminal (`MapInv`); `PagesApart`: two terminals never have the same
page, which is what keeps a step out of the other screens.  Per routine there is
a lemma that what it does to a page and a cursor is, seen through `Abs`, what
Display says: places are counted along the rows (`PlaceParts`), so that wrapping,
scrolling and the last cell come out of one number.  `GoodLines` leaves out the
two disagreements (`ScreenLongLine`: a background line fills its row;
`ScreenInsert`: insertion above the last row, where `scoot_text` loses a cell) and
screens of a single cell, on which Backspace would scroll.

Only model-checked: the liveness properties and the fairness they need
(`EveryTerminalRuns`, `NotAllStuck`, `EnterReleases`, `Served`), which the prover
does not do; and two properties of programs, `GrepFindsLines` and `FramesComplete`,
which compare what a program printed with a fold over the text of a file (`LinesOf`):
what a fold computes is induction over data.  Of grep the proofs keep the part
without it (`GrepStaysInBuffer`).

## 7. What is not modelled, and why

* Exceptions raised in kernel mode: `Fault` is a program's.
* Some steps are one in a model and can be interrupted in the code: the two `outb`s
  of `send_eoi` (they go to different chips); `putc` and `move_left` for a Backspace
  in `Screen` (a tick in between touches neither cell nor cursor of the terminal
  shown; a second key would have to arrive within microseconds); `parse_input`; and
  in `LineEditor` the copy and `save_hist` of a line (`Console` has both step by
  step).
* Whose step a drawing is: `Display` allows any terminal's screen to change in any
  of its operations, so `DisplaySpec` says that a step changes one screen, in a way
  that operation can, and not that it was the right one.  Likewise `Args` stores to
  the process of its own terminal, which is the one `get_current_pcb` gives as long
  as the scheduler brings back the process it interrupted (`Tasking`).
* A rate of the RTC for each program: the chip has one, and the request accepted
  last wins (`FrequencyAsAsked`).
* Page directories: they follow `current_process` (`switch_context` loads both),
  which `UserContextMatches` is about; only the video entry has a life of its own
  (`Screen`).  `init_paging`, GDT, TSS layout and multiboot data are static.
* The bounds of user buffers, except where a program depends on them
  (`usr_ptr_ok` in `Programs`): comparisons without state; the models pass valid
  pointers.
* `printf`, `itoa` and the memory and string routines of `lib.c` other than
  `strncmp`, `strncpy` and the screen routines: sequential helpers.
* Attribute bytes, the hardware cursor and `biggest_y` (written, never read).
* `set_handler`, `sigreturn` (stubs), `pc_speaker.c` (empty), `set_pit_freq`
  (not called), `asm_pit` (not installed).
* User programs other than the shell, cat, ls, grep, the system call tests and
  fish: `counter`, `pingpong`, `hello` and `testprint` print in a loop or once,
  `sigtest` needs the signals the kernel stubs, `ece391emulate.c` replaces the
  system calls by Linux's.  Where a model has no particular program in mind, its
  programs make any calls.
* Of fish's `main`, the fixed script of waits and commands after the frames: `Blink`
  allows every sequence of them.
