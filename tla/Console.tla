------------------------------- MODULE Console -------------------------------
(***************************************************************************)
(* Who gets the line the user typed: term_read (terminal.c) of the three    *)
(* terminals' programs against the keyboard, Alt-Fn and the scheduler.      *)
(* current_terminal is the terminal on the screen, which every key edits;   *)
(* current_active_process the one whose program has the processor.  The     *)
(* putc in term_read enables interrupts again, so its loop copies a cell at *)
(* a time.  A character is the terminal it was typed on; how a line is      *)
(* edited is LineEditor's.                                                  *)
(***************************************************************************)
EXTENDS Integers, Sequences

CONSTANTS NUM_PROCESSES,   \* terminals
          LineSize         \* bound: characters of a line that is not empty

ASSUME ConsoleConstants == /\ NUM_PROCESSES \in Nat \ {0}
                           /\ LineSize \in Nat \ {0}

Terms == 0 .. NUM_PROCESSES - 1
NUL   == -1
NL    == NUM_PROCESSES
Cells == 1 .. LineSize + 1

VARIABLES
  current_terminal, current_active_process,
  buffer, cur_size,
  wait_for_nl,
  program,         \* each terminal's: "runs", "waits" and "copies" (in term_read), "executes" (has a
                   \* line) and "saves" (in save_hist)
  got,             \* got[t]: what its program has read and not yet executed
  saved,           \* saved[t]: the terminals in whose history save_hist, called by t's
                   \* program, has written
  typed,           \* history: the line last finished on t while its program read
  stayed           \* history: on the screen since, the line touched by no key and no other program?

vars == <<current_terminal, current_active_process, buffer, cur_size, wait_for_nl,
          program, got, saved, typed, stayed>>

Init == /\ current_terminal = 0 /\ current_active_process = 0
        /\ buffer = [t \in Terms |-> [i \in Cells |-> NUL]]
        /\ cur_size = [t \in Terms |-> 0]
        /\ wait_for_nl = [t \in Terms |-> FALSE]
        /\ program = [t \in Terms |-> "runs"]
        /\ got = [t \in Terms |-> <<>>]
        /\ saved = [t \in Terms |-> {}]
        /\ typed = [t \in Terms |-> <<>>]
        /\ stayed = [t \in Terms |-> FALSE]

(* A finished line is in t's buffer and its program has not copied it all. *)
Pending(t) == program[t] = "copies" \/ (program[t] = "waits" /\ ~ wait_for_nl[t])
-----------------------------------------------------------------------------
(* The keyboard handler, on current_terminal.  What a key does to a line    *)
(* that is Pending is LineEditor's; the user waits for the program here.    *)

Type == LET t == current_terminal IN
  /\ ~ Pending(t) /\ cur_size[t] = 0
  /\ buffer' = [buffer EXCEPT ![t] = [i \in Cells |-> IF i <= LineSize THEN t ELSE @[i]]]
  /\ cur_size' = [cur_size EXCEPT ![t] = LineSize]
  /\ UNCHANGED <<current_terminal, current_active_process, wait_for_nl, program, got, saved, typed, stayed>>

Enter == LET t == current_terminal IN
  /\ ~ Pending(t)
  /\ buffer' = [buffer EXCEPT ![t][cur_size[t] + 1] = NL]
  /\ cur_size' = [cur_size EXCEPT ![t] = 0]
  /\ wait_for_nl' = [wait_for_nl EXCEPT ![t] = FALSE]
  /\ typed' = IF wait_for_nl[t] THEN [typed EXCEPT ![t] = [i \in 1 .. cur_size[t] |-> buffer[t][i]]] ELSE typed
  /\ stayed' = IF wait_for_nl[t] THEN [stayed EXCEPT ![t] = \A i \in 1 .. cur_size[t] : buffer[t][i] # NUL] ELSE stayed
  /\ UNCHANGED <<current_terminal, current_active_process, program, got, saved>>

(* Alt-Fn: switch_video and term_switch. *)
AltFn == \E t \in Terms :
  /\ t # current_terminal
  /\ current_terminal' = t
  /\ stayed' = [stayed EXCEPT ![current_terminal] = FALSE]
  /\ UNCHANGED <<current_active_process, buffer, cur_size, wait_for_nl, program, got, saved, typed>>
-----------------------------------------------------------------------------
(* The program of the active terminal. *)

term_read_start == LET t == current_active_process IN
  /\ program[t] = "runs"
  /\ wait_for_nl' = [wait_for_nl EXCEPT ![t] = TRUE]
  /\ program' = [program EXCEPT ![t] = "waits"]
  /\ UNCHANGED <<current_terminal, current_active_process, buffer, cur_size, got, saved, typed, stayed>>

Released_screen(t) == ~ wait_for_nl[current_terminal]     \* mutant: the flag of the terminal on the screen
Released(t)        == ~ wait_for_nl[t]

(* Out of the waiting loop, cli, and putc('\n') with its sti. *)
term_read_release == LET t == current_active_process IN
  /\ program[t] = "waits" /\ Released(t)
  /\ program' = [program EXCEPT ![t] = "copies"]
  /\ UNCHANGED <<current_terminal, current_active_process, buffer, cur_size, wait_for_nl, got, saved, typed, stayed>>

ReadSourceAny == CHOOSE t \in Terms : t # current_terminal     \* mutant
ReadSource    == current_terminal

(* One round of the loop: a cell of the terminal then on the screen is      *)
(* taken and cleared; a newline or a NUL ends the line.                     *)
term_read_copy ==
  LET t == current_active_process
      i == Len(got[t]) + 1
      c == buffer[ReadSource][i]
  IN  /\ program[t] = "copies"
      /\ buffer' = [buffer EXCEPT ![ReadSource][i] = NUL]
      /\ IF c \in {NL, NUL} THEN program' = [program EXCEPT ![t] = "executes"] /\ UNCHANGED got
                            ELSE got' = [got EXCEPT ![t] = Append(@, c)] /\ UNCHANGED program
      /\ stayed' = IF t = current_terminal THEN stayed ELSE [stayed EXCEPT ![current_terminal] = FALSE]
      /\ UNCHANGED <<current_terminal, current_active_process, cur_size, wait_for_nl, saved, typed>>

(* The shell executes the line: load_exec_to_mem begins with save_hist,     *)
(* which clears a slot of the terminal on the screen and then, round by     *)
(* round, adds the line's characters to the one on the screen then; it runs *)
(* with interrupts enabled.                                                 *)
HistoryOwnerNext == (current_terminal + 1) % NUM_PROCESSES     \* mutant
HistoryOwner     == current_terminal

Writes(t) ==
  /\ saved' = [saved EXCEPT ![t] = @ \cup {HistoryOwner}]
  /\ stayed' = IF t = current_terminal THEN stayed ELSE [stayed EXCEPT ![current_terminal] = FALSE]

Execute == LET t == current_active_process IN
  /\ program[t] = "executes"
  /\ typed' = [typed EXCEPT ![t] = <<>>]
  /\ \/ /\ got[t] = <<>>
        /\ program' = [program EXCEPT ![t] = "runs"]
        /\ stayed' = [stayed EXCEPT ![t] = FALSE]
        /\ UNCHANGED saved
     \/ /\ got[t] # <<>>
        /\ program' = [program EXCEPT ![t] = "saves"]
        /\ Writes(t)
  /\ UNCHANGED <<current_terminal, current_active_process, buffer, cur_size, wait_for_nl, got>>

save_hist == LET t == current_active_process IN
  /\ program[t] = "saves"
  /\ \/ /\ got[t] # <<>>
        /\ Writes(t)
        /\ got' = [got EXCEPT ![t] = Tail(@)]
        /\ UNCHANGED program
     \/ /\ got[t] = <<>>
        /\ program' = [program EXCEPT ![t] = "runs"]
        /\ saved' = [saved EXCEPT ![t] = {}]
        /\ stayed' = [stayed EXCEPT ![t] = FALSE]
        /\ UNCHANGED got
  /\ UNCHANGED <<current_terminal, current_active_process, buffer, cur_size, wait_for_nl, typed>>

(* Mutant: the modulus is missing. *)
TickNoWrap ==
  /\ current_active_process' = current_active_process + 1
  /\ UNCHANGED <<current_terminal, buffer, cur_size, wait_for_nl, program, got, saved, typed, stayed>>

Tick ==
  /\ current_active_process' = (current_active_process + 1) % NUM_PROCESSES
  /\ UNCHANGED <<current_terminal, buffer, cur_size, wait_for_nl, program, got, saved, typed, stayed>>

Program == term_read_start \/ term_read_release \/ term_read_copy \/ Execute \/ save_hist

Next == Type \/ Enter \/ AltFn \/ Program \/ Tick

Spec == Init /\ [][Next]_vars

(* The scheduler gives every program its turn and a turn is long enough for *)
(* a step; nothing is assumed of the user.                                  *)
FairSpec == /\ Spec /\ WF_vars(Tick)
            /\ \A t \in Terms : SF_vars(current_active_process = t /\ Program)
-----------------------------------------------------------------------------
TypeOK == /\ current_terminal \in Terms /\ current_active_process \in Terms
          /\ buffer \in [Terms -> [Cells -> Terms \cup {NUL, NL}]]
          /\ cur_size \in [Terms -> {0, LineSize}]
          /\ wait_for_nl \in [Terms -> BOOLEAN]
          /\ program \in [Terms -> {"runs", "waits", "copies", "executes", "saves"}]
          /\ \A t \in Terms : /\ got[t] \in Seq(Terms) /\ Len(got[t]) <= LineSize
                              /\ typed[t] \in Seq(Terms \cup {NUL}) /\ Len(typed[t]) <= LineSize
          /\ saved \in [Terms -> SUBSET Terms]
          /\ stayed \in [Terms -> BOOLEAN]

(* term_read returns "the last full terminal buffer" (terminal.c:316): a    *)
(* program is handed the line finished on its own terminal while it was     *)
(* reading, whatever is on the screen when the scheduler gets back to it.   *)
OwnLine == \A t \in Terms : program[t] = "executes" => got[t] = typed[t]

(* OwnLine, when the user stays on the terminal until the line is read and  *)
(* no program left behind on another terminal takes a cell of it.           *)
StayedOwnLine == \A t \in Terms : program[t] = "executes" /\ stayed[t] => got[t] = typed[t]

(* A program whose user stays until the line is saved writes it into its    *)
(* own terminal's history and into no other, although save_hist goes by the *)
(* screen and is preempted between any two characters.                      *)
OwnHistory == \A t \in Terms : program[t] = "saves" /\ stayed[t] => saved[t] = {t}

(* A program that Enter was pressed for on its terminal leaves term_read    *)
(* with a line, whatever is on the screen by then.                          *)
EnterReleases == \A t \in Terms : Pending(t) ~> program[t] = "executes"
=============================================================================
