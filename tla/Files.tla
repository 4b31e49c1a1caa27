-------------------------------- MODULE Files --------------------------------
(***************************************************************************)
(* The files of one process: the descriptor table in its PCB (tasking.c),   *)
(* open, close, read and write (syscall.S, syscall_funcs.c) and the read-   *)
(* only file system behind them (zbigfs.c).                                *)
(*                                                                         *)
(* A byte is its place on the disk image, <<data block, offset in it>>, so  *)
(* that a byte taken from the wrong place shows.  Names are sequences of    *)
(* characters, compared as strncmp does.                                   *)
(***************************************************************************)
EXTENDS Integers, Sequences

CONSTANTS MAX_FILES,           \* tasking.h: 8
          FNAME_MAX_LEN,       \* zbigfs.h: 32
          ZBIGFS_BLOCK_SIZE,   \* zbigfs.c: 4096
          Directory,           \* the directory: a sequence of [fname, ftype, inode_num]
          Inodes,              \* the inodes, from 0: [length, datablock_num]
          Names,               \* names programs open
          Counts               \* sizes programs read

IsSeq(s) == s \in Seq({s[i] : i \in DOMAIN s})

ASSUME FilesConstants ==
  /\ MAX_FILES \in Nat /\ MAX_FILES > 2
  /\ FNAME_MAX_LEN \in Nat \ {0} /\ ZBIGFS_BLOCK_SIZE \in Nat \ {0}
  /\ IsSeq(Directory) /\ \A name \in Names : IsSeq(name)
  /\ \A i \in DOMAIN Directory :
        /\ IsSeq(Directory[i].fname) /\ Len(Directory[i].fname) \in 1 .. FNAME_MAX_LEN
        /\ Directory[i].ftype \in {"regular", "directory", "special"}
        /\ Directory[i].ftype = "regular" => Directory[i].inode_num \in DOMAIN Inodes
  /\ \A n \in DOMAIN Inodes :       \* one block more than full ones: the code looks it up
        /\ Inodes[n].length \in Nat
        /\ Len(Inodes[n].datablock_num) > Inodes[n].length \div ZBIGFS_BLOCK_SIZE
  /\ Counts \subseteq Nat

Fds == 0 .. MAX_FILES - 1
Ops == {"none", "stdin", "stdout", "regular", "directory", "special"}

VARIABLES f,       \* the descriptor table: [used, optable, inode, pos]
          seen,    \* history: what reads of each descriptor have returned since its open
          owned,   \* history: descriptors open() returned and close() has not taken back
          last     \* the last call, its argument, its result and the data it handed over

vars == <<f, seen, owned, last>>

NoFile == [used |-> FALSE, optable |-> "none", inode |-> 0, pos |-> 0]

(* setup_new_process: an empty table, then stdin and stdout. *)
NewTable == [fd \in Fds |-> CASE fd = 0 -> [NoFile EXCEPT !.used = TRUE, !.optable = "stdin"]
                              [] fd = 1 -> [NoFile EXCEPT !.used = TRUE, !.optable = "stdout"]
                              [] OTHER  -> NoFile]

Init == /\ f = NewTable
        /\ seen = [fd \in Fds |-> <<>>]
        /\ owned = {}
        /\ last = [call |-> "none", arg |-> <<>>, ret |-> 0, data |-> <<>>]
-----------------------------------------------------------------------------
(* The file system. *)

(* strncmp over the first n characters: a name that ends early must end in  *)
(* both.                                                                    *)
strncmp(s, t, n) == \A i \in 1 .. n :
   (i <= Len(s) \/ i <= Len(t)) => (i <= Len(s) /\ i <= Len(t) /\ s[i] = t[i])

(* Mutant: only the characters the shorter name has are compared. *)
MatchesPrefix(name) == {i \in DOMAIN Directory :
   LET d == Directory[i].fname
       m == IF Len(d) < Len(name) THEN Len(d) ELSE Len(name)
   IN SubSeq(name, 1, m) = SubSeq(d, 1, m)}

Matches(name) == {i \in DOMAIN Directory :
                    strncmp(name, Directory[i].fname, FNAME_MAX_LEN - 1)}

(* strncpy: the string s, and no more of it than n characters. *)
strncpy(s, n) == SubSeq(s, 1, IF n < Len(s) THEN n ELSE Len(s))

(* The string that stands where read_dentry_by_index puts an entry's name.  *)
(* A name that fills its field has no NUL there, and the byte behind it is  *)
(* ftype's first, which is itself NUL for a special file.                   *)
fname_field(d) == IF Len(d.fname) < FNAME_MAX_LEN \/ d.ftype = "special" THEN d.fname
                  ELSE Append(d.fname, d.ftype)

(* read_dentry_by_name: the first entry that matches. *)
read_dentry_by_name(name) ==
  Directory[CHOOSE i \in Matches(name) : \A j \in Matches(name) : i <= j]

(* n bytes of file node from offset on, n within one block. *)
BytesOf(node, offset, n) ==
  [i \in 1 .. n |-> <<Inodes[node].datablock_num[offset \div ZBIGFS_BLOCK_SIZE + 1],
                      (offset % ZBIGFS_BLOCK_SIZE) + i - 1>>]

(* Mutant: the rest of a block is taken to be a whole block. *)
CopyWholeBlocks(node, first, end) ==
  LET copy[offset \in 0 .. end + ZBIGFS_BLOCK_SIZE] ==
        IF offset \div ZBIGFS_BLOCK_SIZE < end \div ZBIGFS_BLOCK_SIZE
        THEN BytesOf(node, offset, ZBIGFS_BLOCK_SIZE) \o copy[offset + ZBIGFS_BLOCK_SIZE]
        ELSE IF offset > end THEN <<>> ELSE BytesOf(node, offset, end - offset)
  IN copy[first]

(* The copying loop of read_data: the rest of each block up to the last     *)
(* one, then the part of that one before end.                               *)
CopyBlocks(node, first, end) ==
  LET copy[offset \in 0 .. end] ==
        LET rest == ZBIGFS_BLOCK_SIZE - (offset % ZBIGFS_BLOCK_SIZE)
        IN IF offset \div ZBIGFS_BLOCK_SIZE < end \div ZBIGFS_BLOCK_SIZE
           THEN BytesOf(node, offset, rest) \o copy[offset + rest]
           ELSE BytesOf(node, offset, (end % ZBIGFS_BLOCK_SIZE) - (offset % ZBIGFS_BLOCK_SIZE))
  IN copy[first]

read_data(node, first, length) ==
  LET end == IF first + length > Inodes[node].length THEN Inodes[node].length
             ELSE first + length
  IN IF end < first THEN <<>> ELSE CopyBlocks(node, first, end)
-----------------------------------------------------------------------------
(* System calls. *)

Gives(call, arg, ret, data) == last' = [call |-> call, arg |-> arg, ret |-> ret, data |-> data]
Returns(call, arg, ret)     == Gives(call, arg, ret, <<>>)

get_file(fd) == fd \in Fds /\ f[fd].used

(* The first descriptor that is not in use; get_new_fd marks it (Take).     *)
get_new_fd(fd) == ~ f[fd].used /\ \A i \in Fds : ~ f[i].used => fd <= i
Take(file)     == [file EXCEPT !.used = TRUE]

(* free_fd gives a descriptor back, but not stdin's or stdout's.            *)
free_fd(fd, file) == IF fd < 2 THEN file ELSE [file EXCEPT !.used = FALSE]

(* Mutant: every entry is taken to have an inode. *)
kopen_any(file, name) ==
  LET d == read_dentry_by_name(name)
  IN [file EXCEPT !.pos = 0, !.optable = d.ftype, !.inode = d.inode_num]

(* kopen: rtc_open, regular_open and directory_open never fail.             *)
kopen(file, name) ==
  LET d == read_dentry_by_name(name)
  IN [file EXCEPT !.pos = 0, !.optable = d.ftype,
                  !.inode = IF d.ftype = "regular" THEN d.inode_num ELSE @]

syscall_open(name) == \E fd \in Fds :
  /\ get_new_fd(fd)
  /\ Matches(name) # {}
  /\ f' = [f EXCEPT ![fd] = kopen(Take(@), name)]
  /\ seen' = [seen EXCEPT ![fd] = <<>>]
  /\ owned' = owned \cup {fd}
  /\ Returns("open", name, fd)

(* Mutant: the descriptor is not given back when the name is not found. *)
OpenFailsKeepsFd(name) ==
  /\ \/ /\ \A fd \in Fds : f[fd].used
        /\ UNCHANGED f
     \/ /\ Matches(name) = {}
        /\ \E fd \in Fds : get_new_fd(fd) /\ f' = [f EXCEPT ![fd] = Take(@)]
  /\ Returns("open", name, -1)
  /\ UNCHANGED <<seen, owned>>

(* No descriptor is free; or kopen fails, and the one taken is given back.  *)
OpenFails(name) ==
  /\ \/ /\ \A fd \in Fds : f[fd].used
        /\ UNCHANGED f
     \/ /\ Matches(name) = {}
        /\ \E fd \in Fds : get_new_fd(fd) /\ f' = [f EXCEPT ![fd] = free_fd(fd, Take(@))]
  /\ Returns("open", name, -1)
  /\ UNCHANGED <<seen, owned>>

(* Mutant: a descriptor that is not open is closed again. *)
syscall_close_twice(fd) ==
  \/ /\ fd \in Fds /\ fd >= 2
     /\ f' = [f EXCEPT ![fd].used = FALSE]
     /\ owned' = owned \ {fd}
     /\ Returns("close", <<fd>>, 0)
     /\ UNCHANGED seen
  \/ /\ fd \notin Fds \/ fd < 2
     /\ Returns("close", <<fd>>, -1)
     /\ UNCHANGED <<f, seen, owned>>

(* syscall_close; descriptors 0 and 1 cannot be closed. *)
syscall_close(fd) ==
  \/ /\ get_file(fd) /\ fd >= 2
     /\ f' = [f EXCEPT ![fd] = free_fd(fd, @)]
     /\ owned' = owned \ {fd}
     /\ seen' = [seen EXCEPT ![fd] = <<>>]
     /\ Returns("close", <<fd>>, 0)
  \/ /\ ~ get_file(fd) \/ fd < 2
     /\ Returns("close", <<fd>>, -1)
     /\ UNCHANGED <<f, seen, owned>>

regular_read(fd, count) ==
  /\ get_file(fd) /\ f[fd].optable = "regular"
  /\ LET got == read_data(f[fd].inode, f[fd].pos, count)
     IN /\ f' = [f EXCEPT ![fd].pos = @ + Len(got)]
        /\ seen' = [seen EXCEPT ![fd] = @ \o got]
        /\ Gives("read", <<fd, count>>, Len(got), got)
  /\ UNCHANGED owned

(* Mutant: the name is handed over whole, whatever the count. *)
directory_read_whole(fd, count) ==
  /\ get_file(fd) /\ f[fd].optable = "directory"
  /\ \/ /\ f[fd].pos < Len(Directory)
        /\ f' = [f EXCEPT ![fd].pos = @ + 1]
        /\ LET piece == fname_field(Directory[f[fd].pos + 1])
           IN /\ seen' = [seen EXCEPT ![fd] = Append(@, piece)]
              /\ Gives("read", <<fd, count>>, count, <<piece>>)
     \/ /\ f[fd].pos >= Len(Directory)
        /\ Returns("read", <<fd, count>>, 0)
        /\ UNCHANGED <<f, seen>>
  /\ UNCHANGED owned

(* directory_read: the next entry's name, as much of it as count allows;    *)
(* pos counts entries, from 0, and moves on even when count is 0.           *)
directory_read(fd, count) ==
  /\ get_file(fd) /\ f[fd].optable = "directory"
  /\ \/ /\ f[fd].pos < Len(Directory)
        /\ f' = [f EXCEPT ![fd].pos = @ + 1]
        /\ LET piece == strncpy(fname_field(Directory[f[fd].pos + 1]), count)
           IN /\ seen' = [seen EXCEPT ![fd] = Append(@, piece)]
              /\ Gives("read", <<fd, count>>, count, <<piece>>)
     \/ /\ f[fd].pos >= Len(Directory)
        /\ Returns("read", <<fd, count>>, 0)
        /\ UNCHANGED <<f, seen>>
  /\ UNCHANGED owned

(* rtc_read returns 0 once the clock has ticked (when: Rtc). *)
special_read(fd) ==
  /\ get_file(fd) /\ f[fd].optable = "special"
  /\ Returns("read", <<fd>>, 0)
  /\ UNCHANGED <<f, seen, owned>>

(* read of a descriptor that is not open and of stdout fails (get_file,     *)
(* noread).                                                                 *)
ReadRefused(fd) ==
  /\ get_file(fd) => f[fd].optable = "stdout"
  /\ Returns("read", <<fd>>, -1)
  /\ UNCHANGED <<f, seen, owned>>

(* Every write to a file, a directory, stdin or a descriptor that is not    *)
(* open fails (readonly_write, nowrite, get_file).                          *)
WriteRefused(fd) ==
  /\ get_file(fd) => f[fd].optable \in {"regular", "directory", "stdin"}
  /\ Returns("write", <<fd>>, -1)
  /\ UNCHANGED <<f, seen, owned>>

(* halt closes every descriptor (free_current_pcb); the next process to get *)
(* this PCB starts from a new table.                                        *)
Halt ==
  /\ f' = NewTable
  /\ seen' = [fd \in Fds |-> <<>>]
  /\ owned' = {}
  /\ Returns("halt", <<>>, 0)

AnyFd == Fds \cup {-1, MAX_FILES}

open(name)      == syscall_open(name) \/ OpenFails(name)
read(fd, count) == \/ regular_read(fd, count) \/ directory_read(fd, count)
                   \/ special_read(fd) \/ ReadRefused(fd)

(* Any call a program may make. *)
AnyCall == \/ \E name \in Names : open(name)
           \/ \E fd \in AnyFd : syscall_close(fd) \/ WriteRefused(fd)
           \/ \E fd \in AnyFd, count \in Counts : read(fd, count)

Next == AnyCall \/ Halt

Spec == Init /\ [][Next]_vars
-----------------------------------------------------------------------------
TypeOK == /\ f \in [Fds -> [used : BOOLEAN, optable : Ops, inode : DOMAIN Inodes \cup {0}, pos : Nat]]
          /\ \A fd \in Fds : f[fd].optable = "regular" => f[fd].inode \in DOMAIN Inodes
          /\ owned \subseteq Fds

(* "fd = 0,1 taken, so we should be able to open 6 files" (ece391syserr.c:   *)
(* 103): the descriptors in use are stdin, stdout and those a program has    *)
(* open, after any mix of failed opens, closes and halts, so that none leaks *)
(* and open fails on an existing file only when all are the program's.       *)
FdAccounting ==
  /\ {fd \in Fds : f[fd].used} = {0, 1} \cup owned
  /\ (last.call = "open" /\ last.ret = -1 /\ \E i \in DOMAIN Directory : Directory[i].fname = last.arg)
       => owned = 2 .. MAX_FILES - 1

(* open leads to the file it names.  An open that succeeds has found the     *)
(* first entry whose name is the argument's, as far as names are compared   *)
(* (one character less than their field has), and the descriptor returned    *)
(* is that entry's, at its start, whatever file the slot held before: names  *)
(* one character longer or shorter, empty, or as long as the field included. *)
Cut(name) == SubSeq(name, 1, IF Len(name) < FNAME_MAX_LEN THEN Len(name) ELSE FNAME_MAX_LEN - 1)
Leads(file, d) == /\ file.optable = d.ftype /\ file.pos = 0
                  /\ d.ftype = "regular" => file.inode = d.inode_num

OpenFindsName ==
  last.call = "open" /\ last.ret >= 0 =>
    \E i \in DOMAIN Directory :
       /\ Cut(Directory[i].fname) = Cut(last.arg)
       /\ \A j \in 1 .. i - 1 : Cut(Directory[j].fname) # Cut(last.arg)
       /\ last.ret \in owned /\ Leads(f[last.ret], Directory[i])

(* open succeeds only on a name that is in the directory: it fails on "string *)
(* that matches filename with additional character" (ece391syserr.c:135).     *)
OpenFindsFullName ==
  last.call = "open" /\ last.ret >= 0 => \E i \in DOMAIN Directory : Directory[i].fname = last.arg

(* However a program cuts its reads, what they return of a file, put        *)
(* together, is the file from its start without a gap or a repeat.  Reads   *)
(* of the directory take one entry each, in order, and hand over as much of  *)
(* its name as the count allows: all of a name that fits, nothing for 0, and *)
(* nothing of what stands behind a name shorter than its field.             *)
FileBytes(node) ==
  [i \in 1 .. Inodes[node].length |->
     <<Inodes[node].datablock_num[(i - 1) \div ZBIGFS_BLOCK_SIZE + 1], (i - 1) % ZBIGFS_BLOCK_SIZE>>]
Listing == [i \in DOMAIN Directory |-> Directory[i].fname]

Shows(piece, name, count) ==
  /\ Len(piece) <= count
  /\ \A k \in 1 .. Len(name) : k <= count => k <= Len(piece) /\ piece[k] = name[k]
  /\ Len(name) < FNAME_MAX_LEN => Len(piece) <= Len(name)

ReadsInOrder ==
  \A fd \in owned :
    /\ f[fd].optable = "regular" => seen[fd] = SubSeq(FileBytes(f[fd].inode), 1, f[fd].pos)
    /\ f[fd].optable = "directory" =>
         /\ Len(seen[fd]) = f[fd].pos /\ f[fd].pos <= Len(Directory)
         /\ \A i \in 1 .. f[fd].pos : Shows(seen[fd][i], Directory[i].fname, Len(seen[fd][i]))
         /\ last.call = "read" /\ last.arg[1] = fd /\ last.data # <<>> =>
              /\ last.ret = last.arg[2]
              /\ last.data[1] = seen[fd][f[fd].pos]
              /\ Shows(last.data[1], Directory[f[fd].pos].fname, last.arg[2])
=============================================================================
