------------------------------- MODULE Tasking -------------------------------
(***************************************************************************)
(* Processes, the PIT scheduler and the execute/halt system calls: PCBs and *)
(* kernel stacks of tasking.c, next_task of tasking_funcs.S, halt, execute *)
(* and kexecute of syscall.S, load_exec_to_mem of syscall_funcs.c.         *)
(*                                                                         *)
(* The processor is one record, cpu: the program point, the program whose  *)
(* user registers are loaded, %edi (the PCB execute() saves its stack in)  *)
(* and the pid the code holds in a local or on its stack.  Kernel stacks   *)
(* hold one frame per entry; memory below the stack pointer is lost.       *)
(*                                                                         *)
(* System calls run with interrupts enabled (populate_idt installs a trap  *)
(* gate), so a PIT tick may hit between any two of their steps.            *)
(* TickPoints says at which kernel points it does: the full set is the     *)
(* code, a smaller one asks what holds when the other windows are spared.  *)
(***************************************************************************)
EXTENDS Integers

CONSTANTS NUM_PROCESSES,   \* tasking.h: terminals, 3
          MAX_PID,         \* tasking.h: processes, 10
          StackDepth,      \* bound: entries nested on one kernel stack
          TickPoints,      \* kernel points at which a tick may arrive
          EarlyExec        \* may a shell execute before every terminal has one?

KernelPoints == {"find", "claim", "enter", "load", "kfind", "kclaim", "kenter",
                 "kload", "halt", "freed", "parent", "unwind", "resume"}

(* Points where a tick finds nothing half done that another process's      *)
(* execute or halt could disturb.                                          *)
SafePoints == {"find", "enter", "load", "halt", "kenter"}

ASSUME TaskingConstants ==
  /\ NUM_PROCESSES \in Nat \ {0}
  /\ MAX_PID \in Nat /\ MAX_PID > NUM_PROCESSES
  /\ StackDepth \in Nat \ {0}
  /\ TickPoints \subseteq KernelPoints
  /\ EarlyExec \in BOOLEAN

Terms == 0 .. NUM_PROCESSES - 1
Pids  == 1 .. MAX_PID
Pids0 == 0 .. MAX_PID            \* PCB and stack 0 belong to the boot code

ShellLimitTooHigh == NUM_PROCESSES + 2     \* mutant: off by one
ShellLimitDropped == 0                     \* mutant: every program returns to its parent

(* halt's literal 4: pids below it are taken to be the base shells. *)
ShellLimit == NUM_PROCESSES + 1

Dead == -1
Root == 0

Points == {"boot", "user", "spin", "hang", "crashed"} \cup KernelPoints
Cpu    == [pc : Points, user : Pids0, edi : Pids0, arg : Pids0]
Addr   == [s : Pids0, d : 0 .. StackDepth]
Null   == [s |-> 0, d |-> 0]
Idle   == [pc |-> "boot", user |-> 0, edi |-> 0, arg |-> 0]
Frame  == [kind : {"junk", "syscall", "fault", "tick"}, cpu : Cpu]
Junk   == [kind |-> "junk", cpu |-> Idle]
NoContext == [at |-> Null, frame |-> Junk]

VARIABLES
  present, parent, pcb_esp,   \* the PCB fields, per pid
  processes,                  \* the run queue: the pid of each terminal, 0 for none
  current_process,
  current_active_process,
  cpu,
  esp,                        \* in user mode: the stack tss.esp0 gives the next entry
  kstack,                     \* kstack[s][d]: the frame at depth d of pid s's kernel stack
  saved,                      \* history: the context in which each terminal was preempted
  caller                      \* history: the program that executed each program

pcbs  == <<present, parent, pcb_esp>>
queue == <<processes, current_process, current_active_process>>
vars  == <<pcbs, queue, cpu, esp, kstack, saved, caller>>

Init ==
  /\ present = [p \in Pids0 |-> FALSE]
  /\ parent = [p \in Pids0 |-> 0]
  /\ pcb_esp = [p \in Pids0 |-> Null]
  /\ processes = [t \in Terms |-> 0]
  /\ current_process = 0
  /\ current_active_process = 0
  /\ cpu = Idle
  /\ esp = Null
  /\ kstack = [s \in Pids0 |-> [d \in 0 .. StackDepth |-> Junk]]
  /\ saved = [t \in Terms |-> NoContext]
  /\ caller = [p \in Pids |-> Dead]
-----------------------------------------------------------------------------
(* Kernel stacks. *)

Above(a, n) == [a EXCEPT !.d = @ + n]

(* The stack s after frame f is stored at depth d: what lay deeper is lost. *)
PushOn(s, d, f) ==
  [i \in 0 .. StackDepth |-> IF i < d THEN kstack[s][i]
                             ELSE IF i = d THEN f ELSE Junk]

Push(kind) ==
  /\ esp.d + 1 <= StackDepth
  /\ kstack' = [kstack EXCEPT ![esp.s] = PushOn(esp.s, esp.d + 1, [kind |-> kind, cpu |-> cpu])]

FrameAt(a) == kstack[a.s][a.d]

(* Stack contents and stack pointer after the frame at a is popped into cpu: *)
(* back in user mode the next entry is on the stack of the current process. *)
PopTo(a, c) ==
  /\ cpu' = c
  /\ kstack' = [kstack EXCEPT ![a.s] = PushOn(a.s, a.d, Junk)]
  /\ esp' = IF c.pc = "user" THEN [s |-> current_process, d |-> 0] ELSE Above(a, -1)

Goto(pc) == cpu' = [cpu EXCEPT !.pc = pc]

Crash == cpu' = [cpu EXCEPT !.pc = "crashed"] /\ UNCHANGED <<esp, kstack>>

(* Return from a system call with the frame at a on top of the stack. *)
SyscallReturn(a) ==
  \/ FrameAt(a).kind = "syscall" /\ PopTo(a, FrameAt(a).cpu)
  \/ FrameAt(a).kind # "syscall" /\ Crash
-----------------------------------------------------------------------------
(* setup_new_process, in three steps: the scan for a free PCB, the store to *)
(* it, and switch_context to the new process.                              *)

FreePids == {p \in Pids : ~ present[p]}
NoFreePcb == FreePids = {}

(* Mutant: the present flag is not looked at. *)
find_any_pcb(p) == \A q \in Pids : p <= q

find_free_pcb(p) == p \in FreePids /\ \A q \in FreePids : p <= q

(* Mutant: the -1 of find_free_pcb is used as a pid. *)
FindFreePcbUnchecked(from, to) ==
  /\ cpu.pc = from
  /\ \/ NoFreePcb /\ cpu' = [cpu EXCEPT !.pc = to, !.arg = -1]
     \/ \E p \in Pids : find_free_pcb(p) /\ cpu' = [cpu EXCEPT !.pc = to, !.arg = p]
  /\ UNCHANGED <<pcbs, queue, esp, kstack, saved, caller>>

FindFreePcb(from, to) ==
  /\ cpu.pc = from
  /\ \E p \in Pids : find_free_pcb(p) /\ cpu' = [cpu EXCEPT !.pc = to, !.arg = p]
  /\ UNCHANGED <<pcbs, queue, esp, kstack, saved, caller>>

InitPcb(p) == /\ present' = [present EXCEPT ![p] = TRUE]
              /\ parent' = [parent EXCEPT ![p] = current_process]
              /\ pcb_esp' = [pcb_esp EXCEPT ![p] = Null]

ClaimPcb(from, to) ==
  /\ cpu.pc = from
  /\ InitPcb(cpu.arg)
  /\ Goto(to)
  /\ UNCHANGED <<queue, esp, kstack, saved, caller>>

(* switch_context; the processor's page directory and tss.esp0 follow      *)
(* current_process and are not kept apart from it.                         *)
switch_context(pid) == current_process' = pid
-----------------------------------------------------------------------------
(* System calls.  execute: a bad name or file is refused before a PCB is   *)
(* looked for; find_free_pcb may find none.                                *)

AllLaunched == \A t \in Terms : processes[t] # 0 \/ t = current_active_process

SysExecute ==
  /\ cpu.pc = "user"
  /\ EarlyExec \/ AllLaunched
  /\ Push("syscall") /\ esp' = Above(esp, 1)
  /\ cpu' = [cpu EXCEPT !.pc = "find", !.edi = current_process]
  /\ UNCHANGED <<pcbs, queue, saved, caller>>

ExecuteRefused ==
  /\ cpu.pc = "find"
  /\ SyscallReturn(esp)
  /\ UNCHANGED <<pcbs, queue, saved, caller>>

EnterPcb ==
  /\ cpu.pc = "enter"
  /\ switch_context(cpu.arg)
  /\ caller' = [caller EXCEPT ![cpu.arg] = cpu.edi]
  /\ Goto("load")
  /\ UNCHANGED <<pcbs, processes, current_active_process, esp, kstack, saved>>

(* Mutants: execute saves its stack in the PCB of the new process; tss.esp0 *)
(* still gives the stack of the process that called execute.               *)
LoadDoneOwnPcb ==
  /\ cpu.pc \in {"load", "kload"}
  /\ pcb_esp' = [pcb_esp EXCEPT ![current_process] = esp]
  /\ cpu' = [pc |-> "user", user |-> cpu.arg, edi |-> 0, arg |-> 0]
  /\ esp' = [s |-> current_process, d |-> 0]
  /\ UNCHANGED <<present, parent, queue, kstack, saved, caller>>

LoadDoneStaleTss ==
  /\ cpu.pc \in {"load", "kload"}
  /\ pcb_esp' = [pcb_esp EXCEPT ![cpu.edi] = esp]
  /\ cpu' = [pc |-> "user", user |-> cpu.arg, edi |-> 0, arg |-> 0]
  /\ esp' = [s |-> cpu.edi, d |-> 0]
  /\ UNCHANGED <<present, parent, queue, kstack, saved, caller>>

(* The image is loaded; execute saves its stack in the PCB %edi points to  *)
(* and enters the program.                                                 *)
LoadDone ==
  /\ cpu.pc \in {"load", "kload"}
  /\ pcb_esp' = [pcb_esp EXCEPT ![cpu.edi] = esp]
  /\ cpu' = [pc |-> "user", user |-> cpu.arg, edi |-> 0, arg |-> 0]
  /\ esp' = [s |-> current_process, d |-> 0]
  /\ UNCHANGED <<present, parent, queue, kstack, saved, caller>>

(* A blocking call (term_read, rtc_read) spins with interrupts enabled. *)
SysRead ==
  /\ cpu.pc = "user"
  /\ Push("syscall") /\ esp' = Above(esp, 1)
  /\ Goto("spin")
  /\ UNCHANGED <<pcbs, queue, saved, caller>>

ReadDone ==
  /\ cpu.pc = "spin"
  /\ SyscallReturn(esp)
  /\ UNCHANGED <<pcbs, queue, saved, caller>>

(* halt, called by the program or by the handler of its exception, which   *)
(* makes the call on top of the exception's own frame.                     *)
SysHalt ==
  /\ cpu.pc = "user"
  /\ Push("syscall") /\ esp' = Above(esp, 1)
  /\ Goto("halt")
  /\ UNCHANGED <<pcbs, queue, saved, caller>>

(* An exception of the program: its handler halts it, but for reserved_1     *)
(* and invalid_TSS, which stay in a loop for ever, interrupts enabled.       *)
Fault ==
  /\ cpu.pc = "user"
  /\ Push("fault") /\ esp' = Above(esp, 1)
  /\ Goto("halt") \/ Goto("hang")
  /\ UNCHANGED <<pcbs, queue, saved, caller>>

(* Mutant: the PCB stays present. *)
close_files_only ==
  /\ cpu.pc = "halt"
  /\ Goto("freed")
  /\ UNCHANGED <<pcbs, queue, esp, kstack, saved, caller>>

free_current_pcb ==
  /\ cpu.pc = "halt"
  /\ present' = [present EXCEPT ![current_process] = FALSE]
  /\ Goto("freed")
  /\ UNCHANGED <<parent, pcb_esp, queue, esp, kstack, saved, caller>>

HaltShell ==
  /\ cpu.pc = "freed" /\ current_process < ShellLimit
  /\ cpu' = [cpu EXCEPT !.pc = "kfind", !.edi = current_process]
  /\ UNCHANGED <<pcbs, queue, esp, kstack, saved, caller>>

HaltChild ==
  /\ cpu.pc = "freed" /\ current_process >= ShellLimit
  /\ cpu' = [cpu EXCEPT !.pc = "parent", !.arg = parent[current_process]]
  /\ UNCHANGED <<pcbs, queue, esp, kstack, saved, caller>>

(* Mutant: halt loads the parent's stack without switching to the parent. *)
NoSwitchToParent ==
  /\ cpu.pc = "parent"
  /\ caller' = [caller EXCEPT ![current_process] = Dead]
  /\ Goto("unwind")
  /\ UNCHANGED <<pcbs, queue, esp, kstack, saved>>

SwitchToParent ==
  /\ cpu.pc = "parent"
  /\ switch_context(cpu.arg)
  /\ caller' = [caller EXCEPT ![current_process] = Dead]
  /\ Goto("unwind")
  /\ UNCHANGED <<pcbs, processes, current_active_process, esp, kstack, saved>>

Unwind ==
  /\ cpu.pc = "unwind"
  /\ SyscallReturn(pcb_esp[cpu.arg])
  /\ UNCHANGED <<pcbs, queue, saved, caller>>

(* kexecute after a shell's halt: it runs on the halted shell's stack, and *)
(* returns to that shell if it finds no PCB.                               *)
KFindFreePcb ==
  /\ cpu.pc = "kfind"
  /\ \/ FindFreePcb("kfind", "kclaim")
     \/ /\ NoFreePcb /\ SyscallReturn(esp)
        /\ UNCHANGED <<pcbs, queue, saved, caller>>

KEnterPcb ==
  /\ cpu.pc = "kenter"
  /\ switch_context(cpu.arg)
  /\ caller' = [caller EXCEPT ![cpu.edi] = Dead, ![cpu.arg] = Root]
  /\ Goto("kload")
  /\ UNCHANGED <<pcbs, processes, current_active_process, esp, kstack, saved>>

-----------------------------------------------------------------------------
(* next_task, the PIT handler.  Up to switch_context it runs with          *)
(* interrupts off; switch_context enables them again, so that the "resume" *)
(* and "kload" points can be hit by the next tick.                         *)

TickMayHit == cpu.pc \in {"boot", "user", "spin", "hang"} \cup TickPoints

save_queue == [processes EXCEPT ![current_active_process] = current_process]
NextTermShort == (current_active_process + 1) % (NUM_PROCESSES - 1)   \* mutant
NextTerm   == (current_active_process + 1) % NUM_PROCESSES
get_next_task_pid == save_queue[NextTerm]

(* The interrupted context is pushed and its stack saved in the PCB.  A    *)
(* tick at "resume" finds a task that has not got its context back yet.    *)
SaveContext ==
  /\ Push("tick")
  /\ esp' = Above(esp, 1)
  /\ processes' = save_queue
  /\ current_active_process' = NextTerm
  /\ saved' = LET s == IF cpu.pc = "resume" THEN saved
                       ELSE [saved EXCEPT ![current_active_process] =
                               [at    |-> Above(esp, 1),
                                frame |-> [kind |-> "tick", cpu |-> cpu]]]
              IN IF get_next_task_pid = 0 THEN [s EXCEPT ![NextTerm] = NoContext] ELSE s

(* Mutant: the stack pointer is saved before the registers are pushed. *)
SavedEspEarly == [pcb_esp EXCEPT ![current_process] = esp]

SavedEsp == [pcb_esp EXCEPT ![current_process] = Above(esp, 1)]

SwitchTask ==
  /\ TickMayHit
  /\ get_next_task_pid # 0
  /\ SaveContext
  /\ pcb_esp' = SavedEsp
  /\ switch_context(get_next_task_pid)
  /\ cpu' = [Idle EXCEPT !.pc = "resume"]
  /\ UNCHANGED <<present, parent, caller>>

(* launch_new_shell: kexecute on the stack of the interrupted task, with   *)
(* interrupts off until setup_new_process calls switch_context.            *)
LaunchShell ==
  /\ TickMayHit
  /\ get_next_task_pid = 0
  /\ SaveContext
  /\ \E p \in Pids :
        /\ find_free_pcb(p)
        /\ present' = [present EXCEPT ![p] = TRUE]
        /\ parent' = [parent EXCEPT ![p] = current_process]
        /\ pcb_esp' = [SavedEsp EXCEPT ![p] = Null]
        /\ switch_context(p)
        /\ caller' = [caller EXCEPT ![p] = Root]
        /\ cpu' = [Idle EXCEPT !.pc = "kload", !.edi = current_process, !.arg = p]

(* With every PCB taken kexecute returns into the saved registers. *)
LaunchFails ==
  /\ TickMayHit
  /\ get_next_task_pid = 0 /\ NoFreePcb
  /\ SaveContext
  /\ pcb_esp' = SavedEsp
  /\ cpu' = [cpu EXCEPT !.pc = "crashed"]
  /\ UNCHANGED <<present, parent, current_process, caller>>

(* The stack of the next task is loaded and its context popped from it. *)
Resume ==
  /\ cpu.pc = "resume"
  /\ LET a == pcb_esp[current_process]
     IN \/ FrameAt(a).kind = "tick" /\ PopTo(a, FrameAt(a).cpu)
        \/ FrameAt(a).kind # "tick" /\ Crash
  /\ saved' = [saved EXCEPT ![current_active_process] = NoContext]
  /\ UNCHANGED <<pcbs, queue, caller>>
-----------------------------------------------------------------------------
Tick == SwitchTask \/ LaunchShell \/ LaunchFails

Work ==
  \/ FindFreePcb("find", "claim") \/ ClaimPcb("claim", "enter") \/ EnterPcb
  \/ KFindFreePcb \/ ClaimPcb("kclaim", "kenter") \/ KEnterPcb
  \/ ExecuteRefused \/ LoadDone
  \/ free_current_pcb \/ HaltShell \/ HaltChild \/ SwitchToParent \/ Unwind

UserStep == SysExecute \/ SysRead \/ ReadDone \/ SysHalt \/ Fault

Next == Tick \/ Resume \/ Work \/ UserStep

Spec == Init /\ [][Next]_vars

(* An interrupt that arrives while it cannot be taken stays pending in the  *)
(* 8259; next_task runs to its end; and the PIT's period is many times the *)
(* length of a kernel path, so that a terminal's time slices do not all end *)
(* before the system call it is in has made a step.                         *)
FairSpec == /\ Spec
            /\ SF_vars(Tick)
            /\ WF_vars(Resume)
            /\ \A t \in Terms : SF_vars(current_active_process = t /\ Work)
-----------------------------------------------------------------------------
(* The program a terminal runs or, when it is not active, is to resume. *)
Leaf(t) == IF t = current_active_process THEN current_process ELSE processes[t]

TypeOK ==
  /\ present \in [Pids0 -> BOOLEAN]
  /\ parent \in [Pids0 -> Pids0]
  /\ pcb_esp \in [Pids0 -> Addr]
  /\ processes \in [Terms -> Pids0]
  /\ current_process \in Pids0
  /\ current_active_process \in Terms
  /\ cpu \in Cpu
  /\ esp \in Addr
  /\ kstack \in [Pids0 -> [0 .. StackDepth -> Frame]]
  /\ saved \in [Terms -> [at : Addr, frame : Frame]]
  /\ caller \in [Pids -> Dead .. MAX_PID]

(* "restore old stack w/ iret context of next task" (tasking_funcs.S:35):   *)
(* until a preempted terminal is resumed, its PCB points to the context in  *)
(* which it was preempted and that context is intact on its stack, whatever *)
(* the other terminals execute, halt or save on stacks they share.          *)
ContextIntegrity ==
  \A t \in Terms : saved[t] # NoContext =>
     /\ pcb_esp[Leaf(t)] = saved[t].at
     /\ FrameAt(saved[t].at) = saved[t].frame

(* "restore old stack" (syscall.S:67): a program waiting in execute, and    *)
(* until its system call has returned the one that halt goes back to, has   *)
(* its own call's frame where its PCB points, however many programs ran and *)
(* were preempted in between.                                               *)
Loading(q) == \/ cpu.pc = "load" /\ cpu.arg = q
              \/ \E t \in Terms : LET c == saved[t].frame.cpu IN c.pc = "load" /\ c.arg = q
WaitsInExecute(p) == \/ \E q \in Pids : caller[q] = p /\ ~ Loading(q)
                     \/ cpu.pc = "unwind" /\ cpu.arg = p
CallerFrameIntact ==
  \A p \in Pids : WaitsInExecute(p) =>
     FrameAt(pcb_esp[p]) = [kind |-> "syscall",
                            cpu  |-> [pc |-> "user", user |-> p, edi |-> 0, arg |-> 0]]

(* User code runs under the page directory and with the kernel stack of the *)
(* process it belongs to, and that process owns a PCB: switch_context and   *)
(* the stack switch that follows it in next_task and halt agree.            *)
UserContextMatches ==
  cpu.pc = "user" => cpu.user = current_process /\ present[current_process]

(* No stack switch lands on anything but the frame it expects, and kexecute *)
(* never returns: the kernel does not run away.                             *)
NotCrashed == cpu.pc # "crashed"

(* Once the first shell has been entered nothing ever makes the boot code's *)
(* pid 0 current again, not even a halt whose parent field is stale.        *)
NeverBackToBoot ==
  [][current_process # 0 => current_process' # 0]_vars

(* halt "returns control to program that executed current program"          *)
(* (syscall.S:56): the process it switches to is the caller of the halted   *)
(* one, and only a base shell is replaced by a new shell.                   *)
HaltReturnsToCaller ==
  [][/\ (cpu.pc = "freed" /\ cpu'.pc = "kfind") => caller[current_process] = Root
     /\ (cpu.pc = "parent" /\ cpu'.pc = "unwind") => current_process' = caller[current_process]
    ]_vars

(* A PCB is marked present exactly while its process is alive: the one      *)
(* being set up and the one being halted are the only exceptions, so no PCB *)
(* leaks and none is handed out twice.                                      *)
InSetup(c)  == IF c.pc \in {"enter", "kenter"} THEN {c.arg} ELSE {}
InHalt(c, p) == IF c.pc \in {"freed", "parent", "kfind", "kclaim", "kenter"} THEN {p} ELSE {}
Contexts == {[c |-> cpu, p |-> current_process]} \cup
            {[c |-> saved[t].frame.cpu, p |-> Leaf(t)] : t \in Terms}
PcbAccounting ==
  \A p \in Pids : present[p] # (caller[p] # Dead) =>
     \E x \in Contexts : p \in InSetup(x.c) \cup InHalt(x.c, x.p)

(* setup_new_process stores the new PCB in one that is still the free PCB   *)
(* find_free_pcb found ("finds next free pcb", tasking.c:19).               *)
ClaimedPcbIsFree ==
  [][cpu.pc \in {"claim", "kclaim"} /\ cpu'.pc \in {"enter", "kenter"}
       => ~ present[cpu.arg]]_vars

(* Tasking implements the promise of ProcTree. *)
Tree == INSTANCE ProcTree WITH leaf <- [t \in Terms |-> Leaf(t)],
                               active <- current_active_process
TreeSpec == Tree!Spec

(* Round robin starves nobody: every terminal's program gets the processor  *)
(* again and again, in user mode, spinning in a blocking call or hanging in *)
(* an exception.                                                            *)
EveryTerminalRuns ==
  \A t \in Terms : []<>(current_active_process = t /\ cpu.pc \in {"user", "spin", "hang"})
=============================================================================
