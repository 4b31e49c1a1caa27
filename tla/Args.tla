-------------------------------- MODULE Args --------------------------------
(***************************************************************************)
(* Command lines and arguments: execute parses the line (parse_input), the  *)
(* arguments wait on the caller's kernel stack while the new process is set *)
(* up, then go to its PCB, and the program fetches them with getargs.       *)
(*                                                                         *)
(* The steps of one terminal's call interleave with those of the others.    *)
(* That a PCB is found and taken in one step, and that the scheduler brings *)
(* back the process it interrupted, is module Tasking's subject.  User      *)
(* pointers are valid and program names match exactly (module Files).       *)
(***************************************************************************)
EXTENDS Integers, Sequences, FiniteSetsExt

CONSTANTS NUM_PROCESSES, MAX_PID, BUF_SIZE,
          Letters,        \* the characters of lines other than space and newline
          MaxLine,        \* Bound: characters of a command line
          Requests        \* the sizes programs pass to getargs

Terms == 0 .. NUM_PROCESSES - 1
Pids  == 1 .. MAX_PID
Space == "space"
NL    == "newline"
Nul   == "nul"

(* A line fits the kernel's buffers and is a C string. *)
ASSUME ArgsConstants ==
  /\ NUM_PROCESSES \in Nat \ {0} /\ MAX_PID \in Nat /\ NUM_PROCESSES <= MAX_PID
  /\ MaxLine \in Nat /\ BUF_SIZE \in Nat /\ MaxLine < BUF_SIZE
  /\ Letters \cap {Space, NL, Nul} = {}
  /\ Requests \subseteq Nat

Programs == {<<c>> : c \in Letters}     \* the names of the executables
Lines == UNION {[1 .. n -> Letters \cup {Space, NL}] : n \in 0 .. MaxLine}
NoCall == [made |-> FALSE]

VARIABLES tasks,      \* each terminal's chain of processes, the running one last
          cmdstring,  \* the PCBs' argument strings
          args,       \* the arguments a call of execute holds on its kernel stack
          at,         \* where each terminal is: user, loading, entered
          command,    \* history: the line of the call of execute under way
          asked,      \* history: the line each process was executed with
          got         \* history: the getargs call just made

vars == <<tasks, cmdstring, args, at, command, asked, got>>

Current(t) == tasks[t][Len(tasks[t])]
Free == Pids \ UNION {{tasks[t][i] : i \in 1 .. Len(tasks[t])} : t \in Terms}
-----------------------------------------------------------------------------
(* parse_input, with the C string's indices from 0. *)

CharAt(in, i) == IF i < Len(in) THEN in[i + 1] ELSE Nul

SkipSpaces(in, i) == Min({j \in i .. Len(in) : CharAt(in, j) # Space})

StopAt(in, i, ends) == Min({j \in i .. Len(in) : j >= BUF_SIZE \/ CharAt(in, j) \in ends})

parse_input(in) ==
  LET word == SkipSpaces(in, 0)
      gap  == StopAt(in, word, {Nul, NL, Space})
      rest == SkipSpaces(in, gap)
  IN [exec |-> SubSeq(in, word + 1, gap),
      args |-> SubSeq(in, rest + 1, StopAt(in, rest, {Nul, NL}))]
-----------------------------------------------------------------------------
(* Every terminal runs its shell, which kexecute started without arguments. *)
Init == /\ tasks = [t \in Terms |-> <<t + 1>>]
        /\ cmdstring = [p \in Pids |-> << >>] /\ asked = [p \in Pids |-> << >>]
        /\ args = [t \in Terms |-> << >>] /\ command = [t \in Terms |-> << >>]
        /\ at = [t \in Terms |-> "user"]
        /\ got = NoCall

(* load_exec_to_mem up to its checks of the file; a name that is not an     *)
(* executable's makes execute return -1 and changes nothing.                *)
Execute(t, line) ==
  /\ at[t] = "user"
  /\ parse_input(line).exec \in Programs
  /\ args' = [args EXCEPT ![t] = parse_input(line).args]
  /\ command' = [command EXCEPT ![t] = line]
  /\ at' = [at EXCEPT ![t] = "loading"]
  /\ got' = NoCall
  /\ UNCHANGED <<tasks, cmdstring, asked>>

(* setup_new_process: the PCB is written anew, its argument string empty. *)
SetupNewProcess(t) ==
  /\ at[t] = "loading" /\ Free # {}
  /\ tasks' = [tasks EXCEPT ![t] = Append(@, Min(Free))]
  /\ cmdstring' = [cmdstring EXCEPT ![Min(Free)] = << >>]
  /\ asked' = [asked EXCEPT ![Min(Free)] = command[t]]
  /\ command' = [command EXCEPT ![t] = << >>]
  /\ at' = [at EXCEPT ![t] = "entered"]
  /\ got' = NoCall
  /\ UNCHANGED args

SetupFails(t) ==
  /\ at[t] = "loading" /\ Free = {}
  /\ args' = [args EXCEPT ![t] = << >>] /\ command' = [command EXCEPT ![t] = << >>]
  /\ at' = [at EXCEPT ![t] = "user"]
  /\ got' = NoCall
  /\ UNCHANGED <<tasks, cmdstring, asked>>

(* Mutant: the arguments go to the PCB of the program that called execute. *)
StoreArgsCaller(t) ==
  /\ at[t] = "entered"
  /\ cmdstring' = [cmdstring EXCEPT ![tasks[t][Len(tasks[t]) - 1]] = args[t]]
  /\ args' = [args EXCEPT ![t] = << >>]
  /\ at' = [at EXCEPT ![t] = "user"]
  /\ got' = NoCall
  /\ UNCHANGED <<tasks, command, asked>>

(* The end of load_exec_to_mem; args is on the stack execute leaves behind. *)
StoreArgs(t) ==
  /\ at[t] = "entered"
  /\ cmdstring' = [cmdstring EXCEPT ![Current(t)] = args[t]]
  /\ args' = [args EXCEPT ![t] = << >>]
  /\ at' = [at EXCEPT ![t] = "user"]
  /\ got' = NoCall
  /\ UNCHANGED <<tasks, command, asked>>

(* strncpy copies and pads, and returns its first argument: an address in   *)
(* the page of user programs, which starts at 128 MB.                       *)
UserPage == 128 * 1024 * 1024
strncpy(src, n) == [dest |-> UserPage,
                    copied |-> SubSeq(src, 1, IF n < Len(src) THEN n ELSE Len(src))]

syscall_getargs(t, nbytes) ==
  /\ at[t] = "user"
  /\ LET ret == strncpy(cmdstring[Current(t)], IF nbytes < BUF_SIZE THEN nbytes ELSE BUF_SIZE)
     IN got' = [made |-> TRUE, by |-> Current(t), nbytes |-> nbytes, buf |-> ret.copied,
                ret |-> IF ret.dest < nbytes THEN -1 ELSE 0]
  /\ UNCHANGED <<tasks, cmdstring, args, at, command, asked>>

(* halt: back to the program that executed this one; a shell that ends is   *)
(* started again, in the lowest free PCB.                                   *)
Halt(t) ==
  /\ at[t] = "user" /\ Len(tasks[t]) > 1
  /\ tasks' = [tasks EXCEPT ![t] = SubSeq(@, 1, Len(@) - 1)]
  /\ asked' = [asked EXCEPT ![Current(t)] = << >>]
  /\ got' = NoCall
  /\ UNCHANGED <<cmdstring, args, at, command>>

HaltShell(t) ==
  /\ at[t] = "user" /\ Len(tasks[t]) = 1
  /\ LET pid == Min(Free \cup {Current(t)})
     IN /\ tasks' = [tasks EXCEPT ![t] = <<pid>>]
        /\ cmdstring' = [cmdstring EXCEPT ![pid] = << >>]
        /\ asked' = [asked EXCEPT ![Current(t)] = << >>, ![pid] = << >>]
  /\ got' = NoCall
  /\ UNCHANGED <<args, at, command>>

Next == \E t \in Terms :
  \/ \E line \in Lines : Execute(t, line)
  \/ SetupNewProcess(t) \/ SetupFails(t) \/ StoreArgs(t)
  \/ \E n \in Requests : syscall_getargs(t, n)
  \/ Halt(t) \/ HaltShell(t)

Spec == Init /\ [][Next]_vars
-----------------------------------------------------------------------------
Spaces(n) == [i \in 1 .. n |-> Space]
Has(s, c) == \E i \in DOMAIN s : s[i] = c

(* What a command line means: spaces, the program's name, spaces, the       *)
(* arguments up to the newline or the end.                                  *)
Splits(line, exec, rest) ==
  \E lead, gap \in 0 .. Len(line) : LET text == Spaces(lead) \o exec \o Spaces(gap) \o rest
    IN /\ ~ Has(exec, Space) /\ ~ Has(exec \o rest, NL)
       /\ rest # << >> => rest[1] # Space /\ exec # << >> /\ gap > 0
       /\ Len(text) <= Len(line) /\ text = SubSeq(line, 1, Len(text))
       /\ Len(text) < Len(line) => line[Len(text) + 1] = NL

Parts(line) == {SubSeq(line, i, j) : i \in 1 .. Len(line) + 1, j \in 0 .. Len(line)}

(* "Gets arguments from command line" (syscall_funcs.c:55): getargs gives a *)
(* program the arguments of the very line it was executed with, cut to the  *)
(* caller's size, whatever the other terminals execute between parsing and  *)
(* storing them, after programs it executed itself, and in a PCB that has   *)
(* held other programs' arguments.                                          *)
ArgsOfOwnCommand == got.made =>
  LET line == asked[got.by]
  IN \E exec, rest \in Parts(line) :
       /\ Splits(line, exec, rest)
       /\ got.buf = SubSeq(rest, 1, IF got.nbytes < Len(rest) THEN got.nbytes ELSE Len(rest))

(* "Copy the command string to buffer, and if it is not all copied, return  *)
(* -1" (syscall_funcs.c:60).                                                *)
TruncationReported == got.made /\ got.ret = 0 => got.buf = cmdstring[got.by]
=============================================================================
