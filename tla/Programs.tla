------------------------------ MODULE Programs -------------------------------
(***************************************************************************)
(* The programs of src/syscalls and src/fish on top of the system calls of  *)
(* Files.  The shell runs one at a time: cat, ls, grep, the error tests     *)
(* (ece391syserr) and fish's reading of its two frames, step by step, and   *)
(* "other", a program that makes any calls; an exception may end each.  A    *)
(* step is one system call with what the program does up to the next one.   *)
(*                                                                         *)
(* Only grep and fish look at characters, so the text on the disk is chosen *)
(* when one of them starts.                                                 *)
(***************************************************************************)
EXTENDS Files, FiniteSets, SequencesExt

CONSTANTS BUFSIZE,      \* ece391grep.c, ece391cat.c: 1024
          Chars,        \* characters of a text file; may hold NUL, for one that is not
          SlightlyWrong,\* names ece391syserr.c opens: almost those of files
          Patterns,     \* what grep is asked to search for
          FrameFiles,   \* pairs of frame files fish is built for
          MaxOpen,      \* bound: files a program that makes any calls has open at once
          COLS, OFFSET  \* fish.c: 80 columns, the frame drawn from column 40 on

ASSUME ProgramsConstants ==
  /\ FNAME_MAX_LEN > 2 /\ BUFSIZE \in Nat \ {0} /\ COLS \in Nat \ {0} /\ OFFSET \in Nat
  /\ Patterns \subseteq Seq(Chars)

NL    == "nl"
NUL   == "nul"
Space == "space"
DOT == <<"d">>            \* the directory "."
RTC == <<"r">>            \* "rtc"

(* "." is there, and is the only directory. *)
ASSUME FlatDirectory ==
  /\ \E i \in DOMAIN Directory : Directory[i].fname = DOT
  /\ \A i \in DOMAIN Directory : Directory[i].ftype = "directory" <=> Directory[i].fname = DOT

(* What the shell says of the command it ran. *)
Messages == {"none", "no such command", "exception", "abnormally"}

VARIABLES prog,     \* the program in the foreground, "shell" between two
          pc,       \* where it is
          arg,      \* its argument, as getargs hands it over
          text,     \* the character at each place of the disk it has to do with
          local,    \* its variables
          out,      \* what it has written to stdout
          code,     \* its exit code
          said      \* what the shell said last

pvars   == <<prog, pc, arg, text, local, out, code, said>>
allvars == <<vars, pvars>>

ProgInit == /\ Init
            /\ prog = "shell" /\ pc = "prompt" /\ arg = <<>> /\ text = <<>>
            /\ local = <<>> /\ out = <<>> /\ code = 0 /\ said = "none"

At(p, from) == prog = p /\ pc = from /\ UNCHANGED <<prog, arg, text, said>>
Exit(c)     == pc' = "exit" /\ code' = c
Goto(to)    == pc' = to /\ UNCHANGED code
Writes(s)   == out' = out \o s

Inode(name)  == read_dentry_by_name(name).inode_num
IsRegular(name) == Matches(name) # {} /\ read_dentry_by_name(name).ftype = "regular"
-----------------------------------------------------------------------------
(* ece391cat *)

cat_main ==
  /\ At("cat", "main")
  /\ open(arg)
  /\ local' = [fd |-> last'.ret]
  /\ IF last'.ret = -1 THEN Exit(2) ELSE Goto("loop")
  /\ UNCHANGED out

(* Mutant: the loop ends at a short read. *)
cat_loop_short ==
  /\ At("cat", "loop")
  /\ read(local.fd, BUFSIZE)
  /\ CASE last'.ret = -1 -> Exit(3) /\ UNCHANGED out
       [] last'.ret \in 0 .. BUFSIZE - 1 -> Exit(0) /\ UNCHANGED out
       [] OTHER -> Goto("loop") /\ Writes(last'.data)
  /\ UNCHANGED local

cat_loop ==
  /\ At("cat", "loop")
  /\ read(local.fd, BUFSIZE)
  /\ CASE last'.ret = 0  -> Exit(0) /\ UNCHANGED out
       [] last'.ret = -1 -> Exit(3) /\ UNCHANGED out
       [] OTHER          -> Goto("loop") /\ Writes(last'.data)
  /\ UNCHANGED local
-----------------------------------------------------------------------------
(* ece391ls: a name and a newline for each entry. *)

ls_main ==
  /\ At("ls", "main")
  /\ open(DOT)
  /\ local' = [fd |-> last'.ret]
  /\ IF last'.ret = -1 THEN Exit(2) ELSE Goto("loop")
  /\ UNCHANGED out

ls_loop ==
  /\ At("ls", "loop")
  /\ read(local.fd, FNAME_MAX_LEN)
  /\ CASE last'.ret = 0  -> Exit(0) /\ UNCHANGED out
       [] last'.ret = -1 -> Exit(3) /\ UNCHANGED out
       [] OTHER          -> Goto("loop") /\ Writes(last'.data)
  /\ UNCHANGED local
-----------------------------------------------------------------------------
(* ece391grep.  data is do_one_file's buffer of BUFSIZE + 1 bytes: it is not *)
(* initialised, and every call of do_one_file finds it as the last left it.  *)

(* A string in the buffer, from i up to its NUL. *)
CString(data, i) ==
  LET ends == {k \in DOMAIN data : k >= i /\ data[k] = NUL}
      end  == IF ends = {} THEN BUFSIZE + 1 ELSE CHOOSE k \in ends : \A m \in ends : k <= m
  IN [k \in 1 .. end - i |-> data[i + k - 1]]

ece391_strncmp(s, t) == IsPrefix(t, s)
ece391_strcpy(data, i) ==
  LET s == CString(data, i)
  IN [k \in DOMAIN data |-> IF k < Len(s) THEN s[k + 1] ELSE IF k = Len(s) THEN NUL ELSE data[k]]

grep_main ==
  /\ At("grep", "main")
  /\ open(DOT)
  /\ local' = [local EXCEPT !.dir = last'.ret]
  /\ IF last'.ret = -1 THEN Exit(2) ELSE Goto("entry")
  /\ UNCHANGED out

(* The next entry; the name of a directory begins with ".". *)
grep_entry ==
  /\ At("grep", "entry")
  /\ read(local.dir, FNAME_MAX_LEN)
  /\ CASE last'.ret = 0  -> Exit(0) /\ UNCHANGED local
       [] last'.ret = -1 -> Exit(3) /\ UNCHANGED local
       [] OTHER          -> /\ Goto(IF last'.data[1] = DOT THEN "entry" ELSE "open")
                            /\ local' = [local EXCEPT !.fname = last'.data[1]]
  /\ UNCHANGED out

do_one_file ==
  /\ At("grep", "open")
  /\ open(local.fname)
  /\ local' = [local EXCEPT !.fd = last'.ret, !.last = 0]
  /\ IF last'.ret = -1 THEN Exit(3) ELSE Goto("read")
  /\ UNCHANGED out

(* cnt bytes are read behind what is left of the last chunk. *)
grep_read ==
  /\ At("grep", "read")
  /\ read(local.fd, BUFSIZE - local.last)
  /\ local' = [local EXCEPT
                 !.cnt = last'.ret, !.last = @ + last'.ret, !.start = 0,
                 !.data = [k \in DOMAIN @ |->
                             IF k \in local.last .. local.last + Len(last'.data) - 1
                             THEN text[last'.data[k - local.last + 1]] ELSE @[k]]]
  /\ IF last'.ret = -1 THEN Exit(3) ELSE Goto("line")
  /\ UNCHANGED out

line_end == LET ends == {k \in local.start .. local.last : k = local.last \/ local.data[k] = NL}
            IN CHOOSE k \in ends : \A m \in ends : k <= m

(* Mutant: the rest of a chunk is carried over even when it is all of it. *)
CarriesAll == local.data[line_end] # NL /\ local.cnt # 0

(* The last line of the chunk is not complete, and not the first. *)
Carries == local.data[line_end] # NL /\ local.cnt # 0 /\ local.start # 0

grep_carry ==
  /\ At("grep", "line") /\ Carries
  /\ local' = [local EXCEPT !.data = ece391_strcpy([@ EXCEPT ![line_end] = NUL], local.start),
                            !.last = @ - local.start]
  /\ Goto("read")
  /\ UNCHANGED <<out, vars>>

(* A line is searched, and printed with its file's name when it matches. *)
grep_line ==
  /\ At("grep", "line") /\ ~ Carries
  /\ LET line == [local.data EXCEPT ![line_end] = NUL]
         hit  == \E check \in local.start .. line_end - 1 :
                    /\ line[check] = Append(arg, NUL)[1]
                    /\ ece391_strncmp(CString(line, check), arg)
         more == line_end + 1 < local.last
     IN /\ local' = [local EXCEPT !.data = line, !.start = line_end + 1,
                                  !.last = IF more THEN @ ELSE 0]
        /\ out' = IF hit THEN Append(out, <<local.fname, CString(line, local.start)>>) ELSE out
        /\ Goto(IF more THEN "line" ELSE IF local.cnt = 0 THEN "close" ELSE "read")
  /\ UNCHANGED vars

grep_close ==
  /\ At("grep", "close")
  /\ syscall_close(local.fd)
  /\ IF last'.ret = -1 THEN Exit(3) ELSE Goto("entry")
  /\ UNCHANGED <<out, local>>

Grep == grep_main \/ grep_entry \/ do_one_file \/ grep_read \/ grep_carry \/ grep_line \/ grep_close
-----------------------------------------------------------------------------
(* ece391syserr: every test is a list of calls with what it wants of each. *)

NEG_FD  == -1073741823
BIG_FD  == 1073741823
NEG_NUM == -1073741823
BIG_NUM == 1073741823
SYSCALL_MAX_INDEX == 9
OFFSET_128M == 134217728
OFFSET_132M == 138412032
UserPointer == OFFSET_132M - 4096        \* on a program's stack

Call(name, a, want) == [call |-> name, a |-> a, want |-> want]
Each(S, name, want) == [i \in 1 .. Len(S) |-> Call(name, S[i], want)]
FdsFrom(n) == [i \in 1 .. MAX_FILES - n |-> n + i - 1]

err_neg_fd == <<Call("read", NEG_FD, "fails"), Call("write", NEG_FD, "fails"), Call("close", NEG_FD, "fails")>>
err_big_fd == <<Call("read", BIG_FD, "fails"), Call("write", BIG_FD, "fails"), Call("close", BIG_FD, "fails")>>

(* One open more than there are descriptors, then all are closed; exactly   *)
(* one must have failed.                                                    *)
err_open_lots == [i \in 1 .. MAX_FILES - 1 |-> Call("open", DOT, "count")]
                   \o Each(FdsFrom(2), "close", "any") \o <<Call("tally", 0, "any")>>

(* A name with a character more than a file's, one with a character less,   *)
(* and the empty name.                                                      *)
err_open == Each(SlightlyWrong, "open", "fails")

err_unopened == Each(FdsFrom(0), "close", "fails") \o Each(FdsFrom(2), "read", "fails")
                  \o Each(FdsFrom(2), "write", "fails")
err_vidmap == <<Call("vidmap", 0, "fails"), Call("vidmap", 4194304, "fails")>>
err_stdin_out == <<Call("write", 0, "fails"), Call("read", 1, "fails")>>
err_syscall_num == <<Call("number", BIG_NUM, "fails"), Call("number", NEG_NUM, "fails"),
                     Call("number", 0, "fails")>>

Tests == <<err_neg_fd, err_big_fd, err_open_lots, err_open, err_unopened,
           err_vidmap, err_stdin_out, err_syscall_num>>

(* err_open's names are none of a file's, and short enough to be compared   *)
(* to their end.                                                            *)
ASSUME SyserrConstants ==
  /\ IsSeq(SlightlyWrong) /\ SlightlyWrong # <<>>
  /\ \A i \in DOMAIN SlightlyWrong :
        /\ IsSeq(SlightlyWrong[i]) /\ Len(SlightlyWrong[i]) < FNAME_MAX_LEN - 1
        /\ \A j \in DOMAIN Directory : Directory[j].fname # SlightlyWrong[i]

usr_ptr_ok(p, s) == p >= OFFSET_128M /\ p + s <= OFFSET_132M

syscall_vidmap(p) ==
  /\ Returns("vidmap", <<p>>, IF usr_ptr_ok(p, 4) THEN 0 ELSE -1)
  /\ UNCHANGED <<f, seen, owned>>

(* syscall: a number that is not in the jump table (an unsigned comparison  *)
(* of number - 1) is refused.                                               *)
invalid_syscall(number) ==
  /\ number \notin 1 .. SYSCALL_MAX_INDEX + 1
  /\ Returns("number", <<number>>, -1)
  /\ UNCHANGED <<f, seen, owned>>

Do(c) == \/ c.call = "read"   /\ read(c.a, 31)
         \/ c.call = "write"  /\ WriteRefused(c.a)
         \/ c.call = "close"  /\ syscall_close(c.a)
         \/ c.call = "open"   /\ open(c.a)
         \/ c.call = "vidmap" /\ syscall_vidmap(c.a)
         \/ c.call = "number" /\ invalid_syscall(c.a)

(* main: buf[0] - '0' chooses a test, 0 all of them.  test and step say     *)
(* which call comes next, last is the last test; fail is 2 once a call was  *)
(* not as wanted (main adds the tests' results up: 0, or not).              *)
syserr_main == \E select \in 0 .. 9 :
  /\ At("syserr", "main")
  /\ local' = [test |-> IF select = 0 THEN 1 ELSE select,
               last |-> IF select \in 1 .. Len(Tests) THEN select ELSE Len(Tests),
               step |-> 1, fail |-> 0, cnt |-> 0]
  /\ Goto("test")
  /\ UNCHANGED <<out, vars>>

InTest == prog = "syserr" /\ pc = "test" /\ local.test <= local.last
Then(fail, cnt) ==
  LET more == local.step < Len(Tests[local.test])
  IN /\ local' = [test |-> IF more THEN local.test ELSE local.test + 1, last |-> local.last,
                  step |-> IF more THEN local.step + 1 ELSE 1, fail |-> fail, cnt |-> cnt]
     /\ Goto("test")
     /\ UNCHANGED <<prog, arg, text, said, out>>

syserr_call ==
  /\ InTest
  /\ LET c == Tests[local.test][local.step]
     IN /\ c.call # "tally"
        /\ Do(c)
        /\ Then(IF c.want = "fails" /\ last'.ret # -1 THEN 2 ELSE local.fail,
                IF c.want = "count" /\ last'.ret = -1 THEN local.cnt + 1 ELSE local.cnt)

syserr_tally ==
  /\ InTest /\ Tests[local.test][local.step].call = "tally"
  /\ Then(IF local.cnt = 1 THEN local.fail ELSE 2, local.cnt)
  /\ UNCHANGED vars

syserr_return ==
  /\ At("syserr", "test") /\ local.test > local.last
  /\ Exit(local.fail)
  /\ UNCHANGED <<out, local, vars>>

Syserr == syserr_main \/ syserr_call \/ syserr_tally \/ syserr_return
-----------------------------------------------------------------------------
(* fish: main up to the frames, add_frames, and the end of main (the        *)
(* blinking, its waits for the clock included, is Blink's and Rtc's).       *)

Two == 1 .. 2

fish_main ==
  /\ At("fish", "main")
  /\ usr_ptr_ok(UserPointer, 4)
  /\ open(RTC)
  /\ local' = [local EXCEPT !.rtc = last'.ret]
  /\ Goto("open1")
  /\ UNCHANGED out

fish_open(k, from, to) ==
  /\ At("fish", from)
  /\ open(arg[k])
  /\ local' = [local EXCEPT !.fd[k] = last'.ret]
  /\ IF last'.ret < 0 THEN Exit(-1) ELSE Goto(to)
  /\ UNCHANGED out

(* The next character of the row; a frame whose row has ended waits. *)
fish_read(k, from, to) ==
  /\ At("fish", from) /\ local.c[k] # NL
  /\ read(local.fd[k], 1)
  /\ local' = IF last'.ret = 0 THEN [local EXCEPT !.c[k] = NL, !.eof[k] = TRUE]
              ELSE [local EXCEPT !.c[k] = text[last'.data[1]]]
  /\ Goto(to)
  /\ UNCHANGED out

fish_wait(k, from, to) ==
  /\ At("fish", from) /\ local.c[k] = NL
  /\ Goto(to)
  /\ UNCHANGED <<out, local, vars>>

(* Mutant: the newline of a row that has ended is shown. *)
fish_cell_raw ==
  /\ At("fish", "cell")
  /\ LET c == local.c
         cell == [location |-> local.row * COLS + local.col + OFFSET, on_char |-> c[1], off_char |-> c[2]]
     IN \/ /\ c = <<NL, NL>> /\ Goto("row1") /\ UNCHANGED <<local, out>>
        \/ /\ c # <<NL, NL>> /\ Goto("read1")
           /\ local' = [local EXCEPT !.col = @ + 1]
           /\ Writes(IF \E k \in Two : c[k] \notin {Space, NL} THEN <<cell>> ELSE <<>>)
  /\ UNCHANGED vars

(* A cell that is not blank in both frames is added (mp1_ioctl, RTC_ADD). *)
fish_cell ==
  /\ At("fish", "cell")
  /\ LET c == local.c
         Shown(k) == IF c[k] = NL THEN Space ELSE c[k]
         cell == [location |-> local.row * COLS + local.col + OFFSET,
                  on_char |-> Shown(1), off_char |-> Shown(2)]
     IN \/ /\ c = <<NL, NL>> /\ Goto("row1") /\ UNCHANGED <<local, out>>
        \/ /\ c # <<NL, NL>> /\ Goto("read1")
           /\ local' = [local EXCEPT !.col = @ + 1]
           /\ Writes(IF \E k \in Two : c[k] \notin {Space, NL} THEN <<cell>> ELSE <<>>)
  /\ UNCHANGED vars

(* At the end of a row a frame that has ended is closed, and closed again   *)
(* with every row the other one goes on for.                                *)
fish_row(k, from) ==
  /\ At("fish", from)
  /\ LET over == \A j \in Two : local.eof[j]
         then == [local EXCEPT !.c[k] = IF local.eof[k] THEN NL ELSE "0"]
     IN IF k = 1 THEN local' = then /\ Goto("row2")
        ELSE local' = [then EXCEPT !.row = @ + 1, !.col = 0] /\ Goto(IF over THEN "show" ELSE "read1")
  /\ IF local.eof[k] THEN syscall_close(local.fd[k]) ELSE UNCHANGED vars
  /\ UNCHANGED out

fish_show ==
  /\ At("fish", "show")
  /\ syscall_close(local.rtc)
  /\ Exit(0)
  /\ UNCHANGED <<out, local>>

Fish == \/ fish_main \/ fish_open(1, "open1", "open2") \/ fish_open(2, "open2", "read1")
        \/ fish_read(1, "read1", "read2") \/ fish_wait(1, "read1", "read2")
        \/ fish_read(2, "read2", "cell") \/ fish_wait(2, "read2", "cell")
        \/ fish_cell \/ fish_row(1, "row1") \/ fish_row(2, "row2") \/ fish_show
-----------------------------------------------------------------------------
(* halt hands the code to the shell's execute (syscall.S); the shell says   *)
(* what it makes of it.                                                     *)
Verdict(rval) == CASE rval = -1  -> "no such command"
                   [] rval = 256 -> "exception"
                   [] rval = 0   -> "none"
                   [] OTHER      -> "abnormally"

Leaves(rval) == /\ Halt
                /\ said' = Verdict(rval)
                /\ prog' = "shell" /\ pc' = "prompt"
                /\ arg' = <<>> /\ text' = <<>> /\ local' = <<>> /\ out' = <<>> /\ code' = 0

halt == prog # "shell" /\ pc = "exit" /\ Leaves(code)

(* Another program, with any calls and any exit code. *)
Other == \/ /\ At("other", "main")
            /\ AnyCall /\ Cardinality(owned') <= MaxOpen
            /\ Goto("main") /\ UNCHANGED <<out, local>>
         \/ /\ prog = "other" /\ \E c \in {0, 3} : Leaves(c)

(* An exception ends the program (idt_funcs.c: USER_EXCEPT_CODE).  The two   *)
(* handlers that loop instead (reserved_1, invalid_TSS) leave the program    *)
(* where it is for ever, which is a behaviour of ProgSpec as it stands: it   *)
(* forces no step.                                                          *)
Fault == prog # "shell" /\ pc # "exit" /\ Leaves(256)

(* The shell's loop: the command is executed or not found. *)
PlacesOf(names) == UNION {{FileBytes(Inode(n))[i] : i \in 1 .. Inodes[Inode(n)].length} : n \in names}
FileNames == {n \in {Directory[i].fname : i \in DOMAIN Directory} : IsRegular(n)}

Starts(p, a, t, l) ==
  /\ prog' = p /\ pc' = "main" /\ arg' = a /\ text' = t /\ local' = l /\ out' = <<>> /\ code' = 0
  /\ said' = "none"
  /\ UNCHANGED vars

GrepLocals(junk) == [dir |-> -1, fname |-> <<>>, fd |-> -1, cnt |-> 0, last |-> 0, start |-> 0,
                     data |-> [k \in 0 .. BUFSIZE |-> junk], junk |-> junk]
FishLocals == [rtc |-> -1, fd |-> <<-1, -1>>, c |-> <<"0", "0">>, eof |-> <<FALSE, FALSE>>,
               row |-> 0, col |-> 0]

execute ==
  /\ prog = "shell"
  /\ \/ \E name \in Names \cup Range(Listing) : Starts("cat", name, <<>>, <<>>)
     \/ \E p \in {"ls", "syserr", "other"} : Starts(p, <<>>, <<>>, <<>>)
     \/ \E s \in Patterns, t \in [PlacesOf(FileNames) -> Chars], junk \in {NL, NUL} :
           Starts("grep", s, t, GrepLocals(junk))
     \/ \E frames \in FrameFiles :
        \E t \in [PlacesOf(Range(frames) \cap FileNames) -> {"o", Space, NL}] :
           Starts("fish", frames, t, FishLocals)

NotFound == /\ prog = "shell"
            /\ said' = "no such command"
            /\ UNCHANGED <<prog, pc, arg, text, local, out, code, vars>>

ProgNext == \/ execute \/ NotFound \/ halt \/ Fault
            \/ cat_main \/ cat_loop \/ ls_main \/ ls_loop \/ Grep \/ Syserr \/ Fish \/ Other

ProgSpec == ProgInit /\ [][ProgNext]_allvars
-----------------------------------------------------------------------------
Done(p, c) == prog = p /\ pc = "exit" /\ code = c

(* What a file holds as text, and its lines. *)
TextOf(name) == [i \in 1 .. Inodes[Inode(name)].length |-> text[FileBytes(Inode(name))[i]]]
LinesOf(s) == FoldLeft(LAMBDA lines, c : IF c = NL THEN Append(lines, <<>>)
                                         ELSE [lines EXCEPT ![Len(lines)] = Append(@, c)],
                       << <<>> >>, s)

(* However a file is cut into reads, cat prints all of it, once and in      *)
(* order, and of the directory every entry, as much of its name as a read   *)
(* takes; an ended ls has printed every entry of the directory in full.     *)
Lists(o, count) == /\ Len(o) = Len(Directory)
                   /\ \A i \in DOMAIN Directory : Shows(o[i], Directory[i].fname, count)
OutputComplete ==
  /\ Done("cat", 0) => CASE IsRegular(arg) -> out = FileBytes(Inode(arg))
                         [] arg = DOT -> Lists(out, BUFSIZE)
                         [] OTHER -> out = <<>>
  /\ Done("ls", 0) => out = Listing

(* grep prints every line that holds the pattern and no other, once, in the *)
(* order of the disk, although it sees the files in chunks that end in the   *)
(* middle of lines, when the files are text, no line is longer than the     *)
(* buffer and the byte behind the buffer happens not to be a newline.       *)
Holds(line, s) == s # <<>> /\ \E i \in 1 .. Len(line) : IsPrefix(s, SubSeq(line, i, Len(line)))
Expected == FoldLeft(LAMBDA lines, d :
                        IF d.ftype # "regular" THEN lines
                        ELSE LET hits == SelectSeq(LinesOf(TextOf(d.fname)), LAMBDA l : Holds(l, arg))
                             IN lines \o [i \in DOMAIN hits |-> <<d.fname, hits[i]>>],
                     <<>>, Directory)
FitsBuffer == \A n \in FileNames : \A i \in DOMAIN LinesOf(TextOf(n)) :
                 Len(LinesOf(TextOf(n))[i]) <= BUFSIZE
GrepFindsLines == Done("grep", 0) /\ FitsBuffer /\ local.junk # NL => out = Expected

(* The same without a word about the byte behind the buffer, which no       *)
(* program sets.                                                            *)
GrepFindsLinesAnyStack == Done("grep", 0) /\ FitsBuffer => out = Expected

(* "Overall Tests: PASS" (ece391syserr.c:322): whichever tests are chosen   *)
(* and whatever programs ran before, ended or were cut off by an exception,  *)
(* every call the tests expect to fail does, and exactly one open of the     *)
(* series does.                                                             *)
SyserrPasses == prog = "syserr" /\ pc = "exit" => code = 0

(* fish shows both frames: when add_frames has read two files of different   *)
(* shape, every place that is not blank in both has one blinker, with the   *)
(* character of the first and that of the second there.                     *)
CharAt(lines, row, col) ==
  IF row < Len(lines) /\ col < Len(lines[row + 1]) THEN lines[row + 1][col + 1] ELSE Space
FrameCells ==
  LET frame == [k \in Two |-> LinesOf(TextOf(arg[k]))]
      span  == 0 .. Len(TextOf(arg[1])) + Len(TextOf(arg[2]))
  IN {[location |-> p[1] * COLS + p[2] + OFFSET,
       on_char  |-> CharAt(frame[1], p[1], p[2]),
       off_char |-> CharAt(frame[2], p[1], p[2])] :
        p \in {q \in span \X span : \E k \in Two : CharAt(frame[k], q[1], q[2]) # Space}}
FramesComplete ==
  Done("fish", 0) => Range(out) = FrameCells /\ Len(out) = Cardinality(FrameCells)

(* "no such command" (ece391shell.c:33) is said of no program that ran. *)
NoSuchCommand == [][prog # "shell" => said' # "no such command" \/ said' = said]_allvars
=============================================================================
